CONSTANTS
  Loop = Loop
  NoThread = NoThread
  w1 = w1
  w2 = w2
  q1 = q1
  q2 = q2
  Threads = {Loop, w1, w2}
  Queues = {q1, q2}
  RingCap = 2
  QueueCap = 2
  MaxEvents = 4
  Backdate = 0
SPECIFICATION Spec
SYMMETRY Symmetric
INVARIANT RingIsNewest
INVARIANT StreamIsContiguous
INVARIANT ShedIsOldest
