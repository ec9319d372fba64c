SPECIFICATION Spec
CONSTANTS
  Workers = {w1, w2, w3}
  NoWorker = NoWorker
  NMods = 3
  NAllexes = 2
CHECK_DEADLOCK FALSE
INVARIANTS
  TypeOK
  SuccessMeansAllDone
  DisplayAlive
  NoTickLost
PROPERTIES
  Ends
