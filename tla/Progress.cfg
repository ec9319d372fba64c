SPECIFICATION Spec
CONSTANTS
  MaxExpected = 130
  MaxBeyond = 20
CHECK_DEADLOCK FALSE
INVARIANTS
  CompleteAtEnd
  Proportional
