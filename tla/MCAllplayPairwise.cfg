SPECIFICATION AllplaySpec
CONSTANTS
  Path <- MCPath
  Root = "/"
  CRC <- MCCRC
  File <- MCFile
  Id <- MCId
  Trees <- MCAllTrees
  MaxGone = 0
  Builds = {TRUE, FALSE}
  Sessions <- PairwiseSessions
  Content <- MCContent
  Output <- MCOutput
  Short <- MCShort
  Spell <- MCSpell
  BatchSize = 2
CHECK_DEADLOCK FALSE
INVARIANTS
  EdgesAreNumbers
