SPECIFICATION Spec
CONSTANTS
  c1 = c1
  c2 = c2
  u1 = u1
  u2 = u2
  None = None
  Conns = {c1, c2}
  Uids = {u1, u2}
  Registered = {u1, u2}
  Members <- Pair
  Who <- OneOrTwo
  MaxMsg <- BothSend
INVARIANTS EntryIsOwn Reachable WindowAgrees
CHECK_DEADLOCK FALSE
