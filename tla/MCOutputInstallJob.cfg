\* The ownership marker against the cleanup of a second launch.
CONSTANTS
  Launch = {p, q}
  NoOne = NoOne
  MaxEdits = 0
  MaxCrashes = 0
SPECIFICATION Spec
CHECK_DEADLOCK FALSE
INVARIANTS
  LiveJobKept
