SPECIFICATION Spec
CONSTANTS
  N = 31
  B = 8
  Step = 5
  QueryPeriod = 4
  MaxLost = 1
  MaxPending = 1
  Temp = 5
  MaxTurns = 2
INVARIANTS
  TypeOK
  Exact
  StatusTruthful
