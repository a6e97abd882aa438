\* A tab and a terminal deciding over the same videos.
SPECIFICATION Spec
CONSTANTS
  Tabs = {t1}
  Terminals = {k1}
  Steps <- WiredSteps
  Topics <- TypedTopics
  Priorities <- SomePriorities
  Typed <- TypedIds
  TypedGates <- GateWords
  TypedStatuses <- BackTo
  Filters <- PageFilters
  Ticks <- ThreeTicks
  StartingTopics <- StandingTopic
  StartingVideos <- EarlierDays
  MaxCalls = 3
  MaxIdBytes = 3
  MaxAttempts = 3
INVARIANTS
  TypeOK
  ListsReadInOrder
  AddsTellTheTruth
  AnswersMatchTheRecord
CHECK_DEADLOCK FALSE
