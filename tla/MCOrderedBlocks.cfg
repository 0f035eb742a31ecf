\* Two workers have a window of four; six blocks make it close and open.
CONSTANTS
  N = 6
  Worker = {v, w}
SPECIFICATION FairSpec
\* The call returns.
CHECK_DEADLOCK FALSE
INVARIANTS
  HeldWithinWindow
  CallerIsServed
PROPERTIES
  IsSequential
