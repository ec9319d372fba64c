SPECIFICATION Spec
CONSTANTS
  Workers = {w1, w2}
  NoWorker = NoWorker
  NMods = 3
  NAllexes = 2
CHECK_DEADLOCK FALSE
INVARIANTS
  DecomposesAllModules
