SPECIFICATION FairSpec
CONSTANTS
  u1 = u1  u2 = u2  ux = ux  g1 = g1
  Users = {u1, u2}
  UnknownUid = ux
  NoUser = NoUser
  Threads = {t1, t2}
  NoThread = NoThread
  Fds = {f1, f2}
  NoFd = NoFd
  Gids = {}
  Members <- NoGroup
  Clients = {u1, u2}
  Writers = {u1}
  Askers = {}
  MaxSend = 2
  PromptStart = TRUE
  OneConn = TRUE
  Faults = {}

CHECK_DEADLOCK FALSE
PROPERTIES Delivered UserLeaves
