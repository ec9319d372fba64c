SPECIFICATION Spec
CONSTANTS
  Sym <- MCSym
  SplitFactor = 3
  Inputs <- SmallInputs
  Asserts = FALSE
  WriteMayFail = TRUE
CHECK_DEADLOCK FALSE
INVARIANTS
  SuccessMeansWritten
