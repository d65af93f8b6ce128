SPECIFICATION Spec
CONSTANTS
  N = 40
  B = 8
  Step = 11
  QueryPeriod = 20
  MaxLost = 0
  MaxPending = 1
  Temp = 5
  MaxTurns = 1
INVARIANTS
  Exact
