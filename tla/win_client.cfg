SPECIFICATION FairSpec
CONSTANTS
  me = me
  b1 = b1
  b2 = b2
  g1 = g1
  UserFile <- ThreeUsers
  Groups <- OneGroup
  NoOne = NoOne
  Forms <- TypedIn
  MaxLogin = 2
  MaxLate = 1
  MaxPush <- Pushes
  Chats = {b1}
  MaxSend = 1
  MaxExit = 1
INVARIANTS Matching LoginComplete NoLostWakeup InOrder
PROPERTIES ExitEnds LoginTold
CHECK_DEADLOCK FALSE
