CONSTANTS
  s1 = s1
  s2 = s2
  r1 = r1
  r2 = r2
  NoThread = NoThread
  Senders <- TwoSenders
  Receivers <- OneReceiver
  Closers <- OneSender
  SendOps <- Blocking
  RecvOps <- Recv
  Strategies <- OnlyBlock
  Capacity = 1
  MaxOverflow = 0
  MaxItems = 1
SPECIFICATION Spec
INVARIANTS NothingStranded
CHECK_DEADLOCK FALSE
