CONSTANTS
  Loop = Loop
  NoThread = NoThread
  NoQueue = NoQueue
  w1 = w1
  q1 = q1
  q2 = q2
  Threads = {Loop, w1}
  Queues = {q1, q2}
  RingCap = 1
  QueueCap = 1
  MaxEvents = 2
  Backdate = 0
SPECIFICATION SSpec
SYMMETRY Symmetric
CHECK_DEADLOCK FALSE
INVARIANT ReconnectIsClean
