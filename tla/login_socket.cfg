SPECIFICATION Spec
CONSTANTS
  Self = Self
  b1 = b1
  b2 = b2
  g1 = g1
  g2 = g2
  Others <- MCOthers
  Groups <- MCGroups
  NoId = NoId
  MaxConns = 2
  MaxPushes = 1
  MaxRestarts = 0
  CanCancel = FALSE
  CanBreak = TRUE
INVARIANTS SocketWrong
CHECK_DEADLOCK FALSE
