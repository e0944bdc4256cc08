SPECIFICATION Spec
CONSTANTS
  u1 = u1  u2 = u2  ux = ux  g1 = g1
  Users = {u1, u2}
  UnknownUid = ux
  NoUser = NoUser
  Threads = {t1, t2, t3, t4}
  NoThread = NoThread
  Fds = {f1, f2}
  NoFd = NoFd
  Gids = {}
  Members <- NoGroup
  Clients = {u1, u2, ux}
  Writers = {}
  Askers = {u1, u2}
  MaxSend = 0
  PromptStart = TRUE
  OneConn = FALSE
  Faults = {"segv", "nothread"}
SYMMETRY Symmetry
CHECK_DEADLOCK FALSE
INVARIANTS NoCrossDelivery SocketOwner NoZombie WhosMsg
