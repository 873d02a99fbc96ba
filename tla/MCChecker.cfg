CONSTANTS
  c1 = c1
  c2 = c2
  c3 = c3
  k1 = k1
  k2 = k2
  v0 = v0
  v1 = v1
  Clients = {c1, c2, c3}
  Commands <- MCCommands
  Outcomes = {"ok", "failed", "unknown"}
  MaxOps = 3
  Keys = {k1, k2}
  Values = {v0, v1}
  Empty = v0
  Nil = Nil
  Malformed = {}
  Replacement = k1
SPECIFICATION Spec
INVARIANTS
  TypeOK
  FalseAlarmIsTimeout
  AcceptedIsExplained
SYMMETRY Symmetry
CHECK_DEADLOCK FALSE
