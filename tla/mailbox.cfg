SPECIFICATION Spec
CONSTANTS
  Users = {u1, u2}
  Callers = {c1, c2}
  Data = {d1, d2}
  None = None
  Nodes = {n1, n2, n3}
  Null = Null
SYMMETRY Symmetry
INVARIANTS MemSafe NoLeak
PROPERTIES IsFifo
