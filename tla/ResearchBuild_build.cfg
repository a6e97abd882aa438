\* Both formats, two sources of three documents in all, answers of three items in all.
SPECIFICATION Spec
CONSTANTS
  NoNumber = NoNumber  Missing = Missing  NoContext = NoContext
  LabelWords <- Labels
  Plain <- Variants  Markers = {"[1]"}
  Threshold = 70  MinLength = 6  Context = 7
  AnchorLength = 6  MinProbe = 3  MaxCandidates = 4  MaxScan = 4
  Fetchers <- Sources
  Url <- Urls3  Text <- Texts
  RawItems <- SomeAnswers
  MinFacts = 2
  MaxItems = 1
  MaxPerChunk = 2
  MaxProposed = 3
INVARIANTS EveryFactIsGrounded CopiesAreBelieved BestCopyStays VarietyIsKept
           CapSparesTheBar
CHECK_DEADLOCK FALSE
