SPECIFICATION Spec
CONSTANTS
  Sym <- MCSym
  SplitFactor = 3
  Inputs <- AllInputs
  Asserts = TRUE
  WriteMayFail = TRUE
CHECK_DEADLOCK FALSE
INVARIANTS
  TypeOK
  ExactlyOnce
  Linkable
  Tight
  UniqueIds
  SplitCounted
  PartsShrink
