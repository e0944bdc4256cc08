SPECIFICATION FairSpec
CONSTANTS
  Self = Self
  b1 = b1
  b2 = b2
  g1 = g1
  g2 = g2
  Others <- MCOthers
  Groups <- MCGroups
  NoId = NoId
  MaxConns = 3
  MaxPushes = 1
  MaxRestarts = 1
  CanCancel = TRUE
  CanBreak = TRUE
INVARIANTS Matching CleanLogin
PROPERTIES LoginEnds
CHECK_DEADLOCK FALSE
