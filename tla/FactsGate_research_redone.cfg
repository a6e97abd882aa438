SPECIFICATION Spec
CONSTANTS
  ann = ann  bob = bob
  People = {ann}
  Keys = {1, 2}
  GroupOf <- Eras
  BuildSize = 2  Items = 2  Spread = 1
  MaxAttempts = 2  MaxRequests = 1  MaxLate = 0  MaxCrashes = 0
PROPERTY ResearchKeepsTheSheet
CHECK_DEADLOCK FALSE
