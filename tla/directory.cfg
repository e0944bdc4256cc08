SPECIFICATION ClientSpec
CONSTANTS
  U = {u1, u2, u3}
  G = {g1, g2}
  NoId = NoId
  UserFiles <- MCUserFiles
  GroupFiles <- MCGroupFiles
  ClientGroupFiles <- MCClientGroupFiles
  MaxPush = 1
  MaxSend = 1
  MaxExit = 1
SYMMETRY Symmetry
INVARIANTS GroupsAgree ListComplete CrashesGroupless
CHECK_DEADLOCK FALSE
