CONSTANTS
  s1 = s1
  s2 = s2
  r1 = r1
  r2 = r2
  NoThread = NoThread
  Senders <- TwoSenders
  Receivers <- TwoReceivers
  Closers <- TwoSenders
  SendOps <- BothSends
  RecvOps <- AllRecvs
  Strategies <- EveryStrategy
  Capacity = 1
  MaxOverflow = 1
  MaxItems = 2
SPECIFICATION Spec
SYMMETRY Symmetry
INVARIANTS NoLostWakeUp WithinLimit Conservation
PROPERTY ImplementsFifo
CHECK_DEADLOCK FALSE
