CONSTANTS
  r1 = r1
  r2 = r2
  r3 = r3
  None = None
  Traces = {r1, r2, r3}
  Cap = 2
  Caps = {1}
  Orphans = FALSE
  Worlds <- CalmAndRough
SPECIFICATION Spec
SYMMETRY Symmetric
CHECK_DEADLOCK FALSE
INVARIANT RowsAreComplete
INVARIANT ViewIsTruth
INVARIANT SpansAreReconciled
INVARIANT LossIsContained
PROPERTY RowsComeAndGo
