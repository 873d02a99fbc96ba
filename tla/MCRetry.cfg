CONSTANTS
  n1 = n1
  n2 = n2
  c1 = c1
  c2 = c2
  k1 = k1
  k2 = k2
  v0 = v0
  v1 = v1
  Nodes = {n1, n2}
  NoNode = NoNode
  Clients = {c1}
  Keys = {k1}
  Values = {v0, v1}
  Empty = v0
  Nil = Nil
  Malformed = {}
  Replacement = k1
  NoResult = NoResult
  Calls <- RetryCalls
  Rotate <- MCRotate
  Proposals <- Handlers
  Electable = {n1, n2}
  Killable = {n1, n2}
  MaxAttempts = 2
  MaxHops = 3
SPECIFICATION Spec
INVARIANTS
  TypeOK
  FailedHasNoEffect
  AtMostOnce
  OneHop
SYMMETRY FullSymmetry
CHECK_DEADLOCK FALSE
