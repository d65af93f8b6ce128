SPECIFICATION Spec
CONSTANTS
  MaxOpens = 2
  MaxChunks = 1
  OptionsFail = TRUE
INVARIANTS
  OpenMeansActive
