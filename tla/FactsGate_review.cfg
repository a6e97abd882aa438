\* Two people over a sheet of two facts, of which one is enough.  The request
\* that may come between a check of Gate A and its commit is an edit of the
\* sheet that was checked, or a rejection, after which research may run again.
SPECIFICATION Spec
CONSTANTS
  ann = ann  bob = bob
  People = {ann, bob}
  Keys = {1, 2}
  GroupOf <- Eras
  BuildSize = 2  Items = 1  Spread = 1
  MaxAttempts = 2  MaxRequests = 2  MaxLate = 1  MaxCrashes = 1
INVARIANTS TypeOK SheetIsWellFormed EvidenceStands ReadyHasSheet NoBuildUnderReview
           WorkIsOnRecord ApprovalRestsOnPeople
PROPERTY CallsEnd
CHECK_DEADLOCK FALSE
