\* A page that polls while two processes and the worker come and go.
SPECIFICATION FairSpec
CONSTANTS
  Servers = {s1, s2}
  Pages = {p1}
  Callers = {}
  Settings <- TwoSettings
  Engines = {"idle", "fake"}
  Reports <- TwoReports
  MaxStarts = 2
  MaxJobs = 0
INVARIANT HealthIsEarned
PROPERTY WorkerIsNoticed
