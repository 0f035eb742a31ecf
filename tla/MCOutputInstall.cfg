\* Two writes of one output path, another program that edits it, and a kill.
CONSTANTS
  Launch = {p, q}
  NoOne = NoOne
  MaxEdits = 1
  MaxCrashes = 1
SPECIFICATION FairSpec
\* Every launch ends.
CHECK_DEADLOCK FALSE
INVARIANTS
  OutputIsWhole
  ResultTellsInstall
  NothingLeftBehind
  LiveCopyKept
PROPERTIES
  NewOutputsReplaceNothing
  ReplacedWasConfirmed
  WriteEnds
  KilledCopyIsRemoved
