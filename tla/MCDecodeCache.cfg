\* Two workers, each asks twice; either entry, in any order.
CONSTANTS
  Worker = {v, w}
  small = small
  large = large
  Entry = {small, large}
  Size <- MCSize
  NoOne = NoOne
  Threshold = 2
  MemoryLimit = 2
  Headroom = 1
  DiskSpace = 4
  MaxRequests = 2
SPECIFICATION FairSpec
\* The workers stop after their requests.
CHECK_DEADLOCK FALSE
INVARIANTS
  MemoryWithinLimit
  CountersMatchReservations
  ExpandedOnce
PROPERTIES
  RequestsEnd
