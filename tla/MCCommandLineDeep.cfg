SPECIFICATION Spec
CONSTANTS
  f1 = f1
  f2 = f2
  f3 = f3
  File = {f1, f2, f3}
  Name <- MCName
  FoldName <- MCFoldName
  Stem <- MCStem
  Ext <- MCExt
  Builtin <- MCBuiltin
  External <- MCExternal
  Contents <- MCContents
  Disks <- DeepDisks
  Editions <- NoEditions
  Requests <- OneRequest
  FixedSize <- MCFixedSize
  SummarySize = 10
  MaxPaks = 3
  MaxProfiles = 3
  MaxMatchers = 3
  MaxRules = 3
  MaxPriority = 9
  MaxChanges = 0
INVARIANTS
  LinkedFieldsTogether
CHECK_DEADLOCK FALSE
