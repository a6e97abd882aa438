\* Three appends from two processes, two of them (or their mirrors) troubled.
SPECIFICATION Spec
CONSTANTS
  Entries = {e1, e2, e3}
  Processes = {api, cli}
  MaxTrouble = 2
INVARIANTS TypeOK OnePhantomAtMost AloneMeansExact
PROPERTIES DecisionsShowAll AppendsEnd
CHECK_DEADLOCK FALSE
