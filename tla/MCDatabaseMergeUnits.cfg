\* Three inputs that all hold one row, with every mix of layouts.
CONSTANTS
  Field = {"x", "y"}
  Raw <- MCRaw
  Sem <- MCSem
  Groups <- MCGroups
  Strict = FALSE
  N = 3
  Databases <- MCDatabases
  MaxDriftSamples = 1
SPECIFICATION Spec
\* The merge stops: done, failed or rejected.
CHECK_DEADLOCK FALSE
INVARIANTS
  OverriddenOnlyByChoice
  ChosenBytesStored
  BaseBytesKept
  LinkedFieldsTogether
  BuildNeverFails
