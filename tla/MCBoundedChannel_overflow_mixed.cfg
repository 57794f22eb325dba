CONSTANTS
  s1 = s1
  s2 = s2
  r1 = r1
  r2 = r2
  NoThread = NoThread
  Senders <- TwoSenders
  Receivers <- OneReceiver
  Closers <- TwoSenders
  SendOps <- BothSends
  RecvOps <- Recv
  Strategies <- OnlyBuffer
  Capacity = 1
  MaxOverflow = 1
  MaxItems = 3
SPECIFICATION Spec
SYMMETRY Symmetry
INVARIANTS WakeUpsReach
CHECK_DEADLOCK FALSE
