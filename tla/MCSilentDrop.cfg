CONSTANTS
  Loop = Loop
  NoThread = NoThread
  NoQueue = NoQueue
  w1 = w1
  q1 = q1
  q2 = q2
  Threads = {Loop, w1}
  Queues = {q1}
  RingCap = 1
  QueueCap = 1
  MaxEvents = 3
  Backdate = 0
SPECIFICATION SSpec
INVARIANT NoSilentDrop
CHECK_DEADLOCK FALSE
