SPECIFICATION Spec
CONSTANTS
  Path <- MCPath
  Root = "/"
  CRC <- MCCRC
  File <- MCFile
  Builds = {TRUE}
  Id <- MCId
  Trees <- QuietTrees
  MaxGone = 0
CHECK_DEADLOCK FALSE
INVARIANTS
  NoEntryBreaksScan
