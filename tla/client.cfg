SPECIFICATION FairSpec
CONSTANTS
  MaxOpens = 3
  MaxChunks = 4
  OptionsFail = TRUE
INVARIANTS
  TypeOK
  Attended
  Quiet
  ChainsBounded
  ReadOnce
  NoLockCycle
PROPERTIES
  CloseReturns
