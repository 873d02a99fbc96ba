CONSTANTS
  n1 = n1
  n2 = n2
  k1 = k1
  k2 = k2
  v0 = v0
  v1 = v1
  Nodes = {n1, n2}
  NodeSeq <- MCNodeSeq
  Commands <- MCCommands
  NoSnapshot = NoSnapshot
  MaxLog = 2
  MaxKills = 1
  Keys = {k1, k2}
  Values = {v0, v1}
  Empty = v0
  Nil = Nil
  Malformed = {k2}
  Replacement = k1
SPECIFICATION CFairSpec
INVARIANTS
  TypeOK
  StateAtIndex
  SnapshotAtIndex
  IdenticalCommittedState
PROPERTIES
  Converges
  Decides
CHECK_DEADLOCK FALSE
