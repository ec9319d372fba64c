SPECIFICATION Spec
CONSTANTS
  Sym <- MCSym
  SplitFactor = 3
  Inputs <- SomeInputs
  Asserts = FALSE
  WriteMayFail = TRUE
CHECK_DEADLOCK FALSE
PROPERTIES
  ImplementsDecomposition
  Termination
