\* A failed step, a retry, and an operator who keeps pressing run.
SPECIFICATION FairRunSpec
CONSTANTS
  Videos = {v1}
  Jobs = {j1, j2}
  Apis = {a1}
  Steps <- WiredSteps
  MaxLog = 2
  MaxStarts = 2
  MaxCrashes = 0
  MaxFaults = 0
PROPERTY RetryReruns
CHECK_DEADLOCK FALSE
