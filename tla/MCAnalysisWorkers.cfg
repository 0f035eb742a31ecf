\* Units 1 and 3 have a database parser; up to three threads; slices of two steps.
CONSTANTS
  N = 3
  DatabaseUnits <- MCDatabaseUnits
  Fates <- MCFates
  MaxThreads = 3
  Steps = 2
SPECIFICATION FairSpec
\* The call returns.
CHECK_DEADLOCK FALSE
INVARIANTS
  ProgressIsHonest
PROPERTIES
  ImplementsSequential
  IndependentAnalysed
  ReturnsAfterDatabases
