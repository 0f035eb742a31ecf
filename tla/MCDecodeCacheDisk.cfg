\* Two entries that both go to disk, beside little free space.
CONSTANTS
  Worker = {v, w}
  small = small
  large = large
  Entry = {small, large}
  Size <- MCDiskSize
  NoOne = NoOne
  Threshold = 1
  MemoryLimit = 2
  Headroom = 1
  DiskSpace = 4
  MaxRequests = 2
SPECIFICATION Spec
\* The workers stop after their requests.
CHECK_DEADLOCK FALSE
INVARIANTS
  ReservedSpaceIsFree
