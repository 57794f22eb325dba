CONSTANTS
  Phases <- EntryPhases
  Accounts = 2
  Records = 2
  Chains = 2
  ChainLengths <- OneOrTwo
  Entries = 5
  BatchSize = 2
  Labels <- SomeLabels
  ProgressInterval = 2
  Strategies <- OnlyBlock
  Limit = 3
  MayLeave = FALSE
SPECIFICATION FairSpec
PROPERTIES StreamEnds
CHECK_DEADLOCK FALSE
