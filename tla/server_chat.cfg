SPECIFICATION Spec
CONSTANTS
  u1 = u1  u2 = u2  ux = ux  g1 = g1
  Users = {u1, u2}
  UnknownUid = ux
  NoUser = NoUser
  Threads = {t1, t2, t3}
  NoThread = NoThread
  Fds = {f1, f2}
  NoFd = NoFd
  Gids = {g1}
  Members <- OneGroup
  Clients = {u1, u2}
  Writers = {u1}
  Askers = {}
  MaxSend = 2
  PromptStart = TRUE
  OneConn = TRUE
  Faults = {"sigpipe", "ub"}
SYMMETRY Symmetry
CHECK_DEADLOCK FALSE
INVARIANTS  InOrder NoLostWakeup LossWindow
