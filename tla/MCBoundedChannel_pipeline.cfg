CONSTANTS
  s1 = s1
  s2 = s2
  r1 = r1
  r2 = r2
  NoThread = NoThread
  Senders <- TwoSenders
  Receivers <- OneReceiver
  Closers <- OneSender
  SendOps <- BothSends
  RecvOps <- Recv
  Strategies <- EveryStrategy
  Capacity = 1
  MaxOverflow = 1
  MaxItems = 2
SPECIFICATION FairSpec
PROPERTY BufferDrains SendReturns
CHECK_DEADLOCK FALSE
