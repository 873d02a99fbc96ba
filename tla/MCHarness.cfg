CONSTANTS
  old = old
  empty = empty
  c1 = c1
  c2 = c2
  p1 = p1
  p2 = p2
  k0 = k0
  Keys <- MCKeys
  Values <- MCValues
  Empty = empty
  Nil = Nil
  Malformed = {}
  Replacement = empty
  Invocations <- Ids
  NoCommand = NoCommand
  NoResult = NoResult
  Nodes = 2
  Rounds = 1
  Contenders = {p1, p2}
  Iterations = 1
  Clients = {c1, c2}
  ChaosKeys = {k0}
  PreRun = {old}
  Plans <- MCPlans
  MaxTries = 2
  ChaosOps = 3
SPECIFICATION Spec
INVARIANTS
  TypeOK
  HistoryAlarmIsTimeout
  CASAlarmIsReal
  AlarmsAreReal
  LastSeenIsTrue
  WonCASMeansUntouched
CONSTRAINT ResetSucceeds
SYMMETRY Symmetry
CHECK_DEADLOCK FALSE
