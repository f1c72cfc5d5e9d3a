CONSTANTS
  r1 = r1
  r2 = r2
  r3 = r3
  None = None
  Traces = {r1, r2}
  Cap = 2
  Caps = {1}
  Orphans = FALSE
  Worlds <- Lowered
SPECIFICATION Spec
CHECK_DEADLOCK FALSE
INVARIANT CapKept
