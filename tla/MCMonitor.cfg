CONSTANTS
  t1 = t1
  t2 = t2
  w1 = w1
  Tasks = {t1, t2}
  Workers = {w1}
  Main = Main
  None = None
  Slow = 1
  MaxNodes = 3
  MaxDepth = 2
  MaxTime = 2
  OddNodes = 2
  OddTime = 0
  OddTasks = 1
  MaxWaits = 1
  Programs = {{}, {"generators", "callbacks", "cancels"}}
SPECIFICATION Spec
CHECK_DEADLOCK FALSE
INVARIANT FramesAreThere
INVARIANT CallersAreNamed
INVARIANT ActiveIsTruth
INVARIANT SuspendsAnswered
INVARIANT FramesEnd
PROPERTY SpansAreHolds
