CONSTANTS
  t1 = t1
  t2 = t2
  w1 = w1
  Tasks = {t1, t2}
  Workers = {w1}
  Main = Main
  None = None
  Slow = 1
  MaxNodes = 3
  MaxDepth = 2
  MaxTime = 1
  OddNodes = 2
  OddTime = 1
  OddTasks = 2
  MaxWaits = 1
  Programs = {{"generators"}}
SPECIFICATION Spec
CHECK_DEADLOCK FALSE
INVARIANT WorkerStartsClean
