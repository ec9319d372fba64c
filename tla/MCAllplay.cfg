SPECIFICATION AllplaySpec
CONSTANTS
  Path <- MCPath
  Root = "/"
  CRC <- MCCRC
  File <- MCFile
  Id <- MCId
  Trees <- MCAllTrees
  MaxGone = 1
  Builds = {TRUE, FALSE}
  Sessions <- MCSessions
  Content <- MCContent
  Output <- MCOutput
  Short <- MCShort
  Spell <- MCSpell
  BatchSize = 2
CHECK_DEADLOCK FALSE
INVARIANTS
  AllplayTypeOK
  AllLoaded
  DatabaseConsistent
  FailsForACause
  TablesImportable
  TablesShowDatabase
  QueriesShowDatabase
  AllOrNothing
  AsmReported
  UsesReported
  ReadsBack
  GraphShowsDatabase
  GraphAborts
  HashGraphRight
  PairwiseRight
  FunctionsReported
  RoundTrip
  FragmentsAreNumbered
PROPERTIES
  Ends
