CONSTANTS
  p = p
  q = q
  c = c
  d = d
  e = e
  Pak = {p, q, r}
  MaxPaks = 3
  Inspector = {i}
  Conflict = {c, d, e}
  Informational = {e}
  Visible = {c, d, e}
  Variants <- MCVariants
  MaxAdds = 3
  Changing = {p}
  MaxUndo = 2
  None = None
SPECIFICATION FairSpec
\* The window is closed.
CHECK_DEADLOCK FALSE
INVARIANTS
  PlanIsOfTheList
  ArchivesAreFresh
  UndoUnwinds
  StoppedBeforeJoin
PROPERTIES
  BasePakStays
  ClosingEnds
  InspectionsAnswered
