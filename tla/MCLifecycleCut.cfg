CONSTANTS
  a1 = a1
  a2 = a2
  idle = idle
  full = full
  Apps = {a1, a2}
  Host = Host
  None = None
  Ids = {0, 1}
  Levels = {idle, full}
  MaxStarts = 3
SPECIFICATION Spec
CHECK_DEADLOCK FALSE
INVARIANT CutRunsNothing
INVARIANT NoLeakedCallbacks
