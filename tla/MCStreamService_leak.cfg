CONSTANTS
  c1 = c1
  c2 = c2
  w1 = w1
  b1 = b1
  r1 = r1
  Calls <- OneCall
  Sockets <- NoActors
  Bulks <- NoActors
  Starters <- NoActors
  MaxConcurrent = 2
  MaxEvents = 1
  BatchSizes <- OneOrTwo
  Buffered = 1
  MayFail = TRUE
  Commands <- AllCommands
SPECIFICATION Spec
INVARIANTS ActiveIsLive
