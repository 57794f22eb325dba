CONSTANTS
  c1 = c1
  c2 = c2
  w1 = w1
  b1 = b1
  r1 = r1
  Calls <- OneCall
  Sockets <- OneSocket
  Bulks <- OneBulk
  Starters <- OneStarter
  MaxConcurrent = 2
  MaxEvents = 1
  BatchSizes <- OneOrTwo
  Buffered = 1
  MayFail = TRUE
  Commands <- AllCommands
SPECIFICATION FairSpec
INVARIANTS ActiveAccountsForStreams OneBatchAfterStop
PROPERTIES LimitedStreamsEnd StandingStopEndsStreams
