CONSTANTS
  n1 = n1
  n2 = n2
  n3 = n3
  Nodes = {n1, n2, n3}
  NodeSeq <- MCNodeSeq
  NoNode = NoNode
  Proposals = {}
  Iterations = 1
  Probes = 1
  MaxFaults = 1
  MaxFailures = 1
SPECIFICATION FairSpec
INVARIANTS
  TypeOK
  QuorumRemains
  MinorityNeverAcks
PROPERTY HealsForGood
CHECK_DEADLOCK FALSE
