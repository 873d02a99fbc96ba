CONSTANTS
  Segments = {"a", "b", "cas"}
  MaxSegments = 3
SPECIFICATION Spec
INVARIANT StoredKeysAreReachable
