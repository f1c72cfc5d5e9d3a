CONSTANTS
  r1 = r1
  r2 = r2
  r3 = r3
  None = None
  Traces = {r1, r2}
  Cap = 2
  Caps = {}
  Orphans = FALSE
  Worlds <- TwoHolds
SPECIFICATION Spec
CHECK_DEADLOCK FALSE
INVARIANT StallIsLifted
