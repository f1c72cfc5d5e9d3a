CONSTANTS
  f1 = f1
  f2 = f2
  Frames = {}
  Lib = Lib
  None = None
  Stall = 5
  Interval = 1
  JoinTime = 3
  MaxRound = 1
  MaxTime = 15
  LastStop = 10
SPECIFICATION FairSpec
CHECK_DEADLOCK FALSE
INVARIANT HealthyIsSilent
INVARIANT SpansAlternate
PROPERTY ReportsFollow
PROPERTY StopEnds
