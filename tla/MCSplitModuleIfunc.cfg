SPECIFICATION Spec
CONSTANTS
  Sym <- MCSym
  SplitFactor = 3
  Inputs <- OnlyLocalIfunc
  PureConst <- MCPureConst
  Comdat <- MCComdat
  None = None
CHECK_DEADLOCK FALSE
INVARIANTS
  NoLocalGlobalized
