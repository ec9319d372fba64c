SPECIFICATION Spec
CONSTANTS
  Sym <- MCSym
  SplitFactor = 3
  Inputs <- AllInputs
  Asserts = TRUE
  WriteMayFail = FALSE
CHECK_DEADLOCK FALSE
INVARIANTS
  SomePartNonEmpty
