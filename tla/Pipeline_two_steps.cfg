\* One server, one video, two registered steps: the video can pass Gate A,
\* come back from Gate B, fail, be retried and be interrupted twice.
SPECIFICATION Spec
CONSTANTS
  Videos = {v1}
  Jobs = {j1, j2, j3}
  Apis = {a1}
  Steps <- TwoSteps
  MaxLog = 5
  MaxStarts = 4
  MaxCrashes = 2
  MaxFaults = 1
SYMMETRY JobSymmetry
INVARIANTS
  TypeOK
  LogTellsPosition
  RejectionIsCurrent
  WorkInv
PROPERTIES
  ImplementsReview
  OnlyRejectionSendsBack
CHECK_DEADLOCK FALSE
