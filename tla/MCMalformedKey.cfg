CONSTANTS
  n1 = n1
  n2 = n2
  c1 = c1
  c2 = c2
  k1 = k1
  k2 = k2
  v0 = v0
  v1 = v1
  Nodes = {n1, n2}
  NoNode = NoNode
  Clients = {c1}
  Keys = {k1, k2}
  Values = {v0, v1}
  Empty = v0
  Nil = Nil
  Malformed = {k1}
  Replacement = k2
  NoResult = NoResult
  Calls <- MalformedCalls
  Rotate <- MCRotate
  Proposals <- Handlers
  Electable = {n1}
  Killable = {}
  MaxAttempts = 2
  MaxHops = 2
SPECIFICATION Spec
INVARIANT ReadsOwnKey
CHECK_DEADLOCK FALSE
