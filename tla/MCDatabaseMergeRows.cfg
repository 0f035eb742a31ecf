\* Three inputs that hold different rows.
CONSTANTS
  Field = {"x", "y", "z"}
  Raw <- MCRaw
  Sem <- MCSem
  Groups <- MCGroups
  Strict = TRUE
  N = 3
  Databases <- MCDatabases
  MaxDriftSamples = 1
SPECIFICATION Spec
\* The merge stops: done, failed or rejected.
CHECK_DEADLOCK FALSE
INVARIANTS
  EveryRowOnce
  BlockingMeansDisagreement
  ReportCountsReplacements
