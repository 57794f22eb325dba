CONSTANTS
  Phases <- EntryPhases
  Accounts = 2
  Records = 1
  Chains = 1
  ChainLengths <- OneOrTwo
  Entries = 1
  BatchSize = 2
  Labels <- SomeLabels
  ProgressInterval = 2
  Strategies <- OnlyBlock
  Limit = 1
  MayLeave = TRUE
SPECIFICATION FairSpec
PROPERTIES CancelIsSeen
