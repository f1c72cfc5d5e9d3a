CONSTANTS
  d1 = d1
  d2 = d2
  t1 = t1
  t2 = t2
  r1 = r1
  x1 = x1
  x2 = x2
  Detectors = {d1, d2}
  Threads = {t1, t2}
  Traces = {r1}
  Details = {x1, x2}
  None = None
  MaxSeen = 1
  MaxCalls = 3
SPECIFICATION Spec
SYMMETRY Symmetric
CHECK_DEADLOCK FALSE
INVARIANT RegistryIsSound
INVARIANT ReportsAreOrderly
INVARIANT ReportedOnce
