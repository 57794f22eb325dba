CONSTANTS
  Phases <- SkippedPhases
  Accounts = 2
  Records = 1
  Chains = 1
  ChainLengths <- OneOrTwo
  Entries = 3
  BatchSize = 2
  Labels = {1}
  ProgressInterval = 2
  Strategies <- Lossy
  Limit = 2
  MayLeave = TRUE
SPECIFICATION FairSpec
INVARIANTS LossesAccountedFor EndsWithSummary
PROPERTIES GeneratorEnds
