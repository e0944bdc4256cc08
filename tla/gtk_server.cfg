SPECIFICATION Spec
CONSTANTS
  u1 = u1
  u2 = u2
  ux = ux
  t1 = t1
  t2 = t2
  t3 = t3
  UserFile <- TwoUsers
  Unknown = ux
  NoUser = NoUser
  Threads = {t1, t2, t3}
  NoThread = NoThread
  Fds = {f1, f2}
  NoFd = NoFd
  Group <- AllUsers
  Dialers <- Connections
  Leavers = {u2}
  Writers = {u1}
  MaxSend = 2
  Faults = {"recverr", "ub", "segv", "quit"}
SYMMETRY Symmetry
INVARIANTS WindowAgrees NoLostWakeup InOrder DataAlive NoZombie
PROPERTY SendsHome
CHECK_DEADLOCK FALSE
