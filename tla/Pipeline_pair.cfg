\* Two servers with today's registry and two jobs of one video: recovery of one
\* server runs under the work of the other, and either may die.  Goroutines are
\* scheduled, dead servers restarted, and nobody is obliged to decide.
SPECIFICATION FairSpec
CONSTANTS
  Videos = {v1}
  Jobs = {j1, j2}
  Apis = {a1, a2}
  Steps <- WiredSteps
  MaxLog = 4
  MaxStarts = 3
  MaxCrashes = 2
  MaxFaults = 1
INVARIANTS
  NoGateSkipped
  OneWorkerPerVideo
  WorkerHoldsVideo
PROPERTIES
  JobSettles
  InterruptedVideoSurfaces
CHECK_DEADLOCK FALSE
