SPECIFICATION Spec
CONSTANTS
  Sym <- MCSym
  SplitFactor = 2
  Inputs <- MCInputs
  PureConst <- MCPureConst
  Comdat <- MCComdat
  None = None
CHECK_DEADLOCK FALSE
INVARIANTS
  TypeOK
  SplitsOnce
  AnswersAsExpected
  Balanced
  UsedAcrossIsNamed
