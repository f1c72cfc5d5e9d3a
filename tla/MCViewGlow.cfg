CONSTANTS
  None = None
  r1 = r1
  r2 = r2
  r3 = r3
  Traces = {r1, r2, r3}
  Cap = 2
  Caps = {1}
  Orphans = FALSE
  Worlds <- Mixed
  Ys <- Heights
  Grabs <- FromTheEdge
  Wheels <- Turns
  Filters <- TwoFilters
  Slows = {r1}
  MaxBetween = 1
SPECIFICATION VSpec
CHECK_DEADLOCK FALSE
INVARIANT GlowsForRunning
