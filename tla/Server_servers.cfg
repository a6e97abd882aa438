\* Two processes over one database, three starts, and a caller of either
\* protocol.  The worker stays out of it.
SPECIFICATION Spec
CONSTANTS
  Servers = {s1, s2}
  Pages = {}
  Callers = {k1}
  Settings <- OneSetting
  Engines = {"idle"}
  Reports = {}
  MaxStarts = 3
  MaxJobs = 2
INVARIANTS
  RunningMeansWorkedOn
  ClosesUnderNobody
