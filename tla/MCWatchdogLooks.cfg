CONSTANTS
  f1 = f1
  f2 = f2
  Frames = {f1, f2}
  Lib = Lib
  None = None
  Stall = 2
  Interval = 1
  JoinTime = 2
  MaxRound = 0
  MaxTime = 6
  LastStop = 0
SPECIFICATION Spec
CHECK_DEADLOCK FALSE
PROPERTY DatedByLastBeat
PROPERTY BlameIsHolder
