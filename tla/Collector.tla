------------------------------ MODULE Collector ------------------------------
(***************************************************************************)
(* The process-wide event collector (collector.py): threads push events    *)
(* under one lock into a bounded ring and hand each one to every           *)
(* subscriber's bounded asyncio queue through call_soon_threadsafe.        *)
(*                                                                         *)
(* A push is split into the steps other threads can see between: reading   *)
(* `_seq`, writing it back, appending to the ring, scheduling one delivery *)
(* per subscriber.  Deliveries, and whatever a subscriber's coroutine does *)
(* with its queue, run on the event loop, which the loop's own push        *)
(* occupies from beginning to end.                                         *)
(*                                                                         *)
(* call_soon_threadsafe is FIFO per loop and a queue belongs to one loop,  *)
(* so the callbacks waiting to run are kept per queue.                     *)
(***************************************************************************)
EXTENDS Integers, Sequences, FiniteSets

CONSTANTS
  Threads,     \* the threads that push: the event loop's and anyio workers'
  Loop,        \* the event loop's thread
  Queues,      \* subscriber queues, one per dashboard connection
  NoThread,    \* the lock has no owner
  RingCap,     \* BUFFER_MAXLEN (5000 in the code)
  QueueCap,    \* SUBSCRIBER_MAXLEN (1000 in the code)
  MaxEvents,   \* bound: how many events the application emits
  Backdate     \* bound: how far behind the clock an event's `t` may lie

ASSUME CollectorAssumption ==
  /\ Loop \in Threads
  /\ NoThread \notin Threads
  /\ IsFiniteSet(Threads)
  /\ RingCap \in Nat \ {0}
  /\ QueueCap \in Nat \ {0}
  /\ MaxEvents \in Nat
  /\ Backdate \in Nat

VARIABLES
  now,      \* time.monotonic()
  seq,      \* Collector._seq
  lock,     \* the owner of Collector._lock
  pc,       \* where each thread is inside push()
  ev,       \* the event each thread is pushing
  read,     \* the value of `_seq` that `+= 1` has read
  todo,     \* the subscribers the fan-out has still to schedule
  buffer,   \* Collector.buffer
  sub,      \* a queue's registration: "new", "live" (in _subscribers), "gone"
  ready,    \* _deliver callbacks scheduled on the loop and not yet run
  queue,    \* the contents of each subscriber's asyncio.Queue
  shed,     \* history: the seqs an overflow of the queue has discarded
  loopOpen  \* the loop still accepts callbacks

cvars == <<now, seq, lock, pc, ev, read, todo, buffer, sub, ready, queue,
           shed, loopOpen>>

Event == [seq : Nat, t : Int]
Idle  == [seq |-> 0, t |-> 0]
Steps == {"idle", "made", "locked", "read", "stamped", "fanout"}

\* The steps at which a thread owns the lock.
InPush == {"locked", "read", "stamped", "fanout"}

Live == {q \in Queues : sub[q] = "live"}

\* Callbacks and coroutines run only while the loop's thread is not itself
\* inside push().
OnLoop == pc[Loop] = "idle"

Init ==
  /\ now = 0
  /\ seq = 0
  /\ lock = NoThread
  /\ pc = [th \in Threads |-> "idle"]
  /\ ev = [th \in Threads |-> Idle]
  /\ read = [th \in Threads |-> 0]
  /\ todo = {}
  /\ buffer = <<>>
  /\ sub = [q \in Queues |-> "new"]
  /\ ready = [q \in Queues |-> <<>>]
  /\ queue = [q \in Queues |-> <<>>]
  /\ shed = [q \in Queues |-> {}]
  /\ loopOpen = TRUE

-----------------------------------------------------------------------------
(* push() *)

\* Event(t=...) is built before push() takes the lock, so a thread may be
\* overtaken between the two.  A span event (loop_blocked, loop_stalled) is
\* stamped with the time its interval began, at most Backdate ticks ago.
Create(th) ==
  /\ pc[th] = "idle"
  /\ now < MaxEvents
  /\ now' = now + 1
  /\ \E t \in (now + 1 - Backdate) .. (now + 1) :
       ev' = [ev EXCEPT ![th] = [seq |-> 0, t |-> t]]
  /\ pc' = [pc EXCEPT ![th] = "made"]
  /\ UNCHANGED <<seq, lock, read, todo, buffer, sub, ready, queue, shed, loopOpen>>

\* Mutant: push() takes no lock.
Acquire_NoLock(th) ==
  /\ pc[th] = "made"
  /\ lock' = th
  /\ pc' = [pc EXCEPT ![th] = "locked"]
  /\ UNCHANGED <<now, seq, ev, read, todo, buffer, sub, ready, queue, shed, loopOpen>>

\* `with self._lock`.
Acquire(th) ==
  /\ pc[th] = "made"
  /\ lock = NoThread
  /\ lock' = th
  /\ pc' = [pc EXCEPT ![th] = "locked"]
  /\ UNCHANGED <<now, seq, ev, read, todo, buffer, sub, ready, queue, shed, loopOpen>>

\* The load and the store of `self._seq += 1`, which is not atomic.
ReadSeq(th) ==
  /\ pc[th] = "locked"
  /\ read' = [read EXCEPT ![th] = seq]
  /\ pc' = [pc EXCEPT ![th] = "read"]
  /\ UNCHANGED <<now, seq, lock, ev, todo, buffer, sub, ready, queue, shed, loopOpen>>

Stamp(th) ==
  /\ pc[th] = "read"
  /\ seq' = read[th] + 1
  /\ ev' = [ev EXCEPT ![th].seq = read[th] + 1]
  /\ pc' = [pc EXCEPT ![th] = "stamped"]
  /\ UNCHANGED <<now, lock, read, todo, buffer, sub, ready, queue, shed, loopOpen>>

\* Mutant: the capacity is off by one.
RingAppend_OneMore(s, e, n) == Append(IF Len(s) <= n THEN s ELSE Tail(s), e)

\* deque(maxlen=n).append(e): a full deque discards its oldest element.
RingAppend(s, e, n) == Append(IF Len(s) < n THEN s ELSE Tail(s), e)

\* buffer.append, and the list of subscribers the fan-out goes over.
AppendRing(th) ==
  /\ pc[th] = "stamped"
  /\ buffer' = RingAppend(buffer, ev[th], RingCap)
  /\ todo' = Live
  /\ pc' = [pc EXCEPT ![th] = "fanout"]
  /\ UNCHANGED <<now, seq, lock, ev, read, sub, ready, queue, shed, loopOpen>>

\* call_soon_threadsafe(_deliver, q, event); it raises once the loop is
\* closed, and the event is dropped for that subscriber.
Schedule(th, q) ==
  /\ pc[th] = "fanout"
  /\ q \in todo
  /\ todo' = todo \ {q}
  /\ ready' = IF loopOpen THEN [ready EXCEPT ![q] = Append(@, ev[th])] ELSE ready
  /\ UNCHANGED <<now, seq, lock, pc, ev, read, buffer, sub, queue, shed, loopOpen>>

Release(th) ==
  /\ pc[th] = "fanout"
  /\ todo = {}
  /\ lock' = NoThread
  /\ pc' = [pc EXCEPT ![th] = "idle"]
  /\ ev' = [ev EXCEPT ![th] = Idle]
  /\ read' = [read EXCEPT ![th] = 0]
  /\ UNCHANGED <<now, seq, todo, buffer, sub, ready, queue, shed, loopOpen>>

-----------------------------------------------------------------------------
(* What runs on the loop *)

\* Mutant: an overflow replaces the newest queued event.
Deliver_DropNewest(q) ==
  /\ OnLoop
  /\ loopOpen
  /\ ready[q] # <<>>
  /\ ready' = [ready EXCEPT ![q] = Tail(@)]
  /\ queue' = [queue EXCEPT ![q] =
       Append(IF Len(@) < QueueCap THEN @ ELSE SubSeq(@, 1, Len(@) - 1), Head(ready[q]))]
  /\ shed' = [shed EXCEPT ![q] =
       IF Len(queue[q]) < QueueCap THEN @ ELSE @ \cup {queue[q][Len(queue[q])].seq}]
  /\ UNCHANGED <<now, seq, lock, pc, ev, read, todo, buffer, sub, loopOpen>>

\* Mutant: a full queue refuses the new event.
Deliver_DropNew(q) ==
  /\ OnLoop
  /\ loopOpen
  /\ ready[q] # <<>>
  /\ ready' = [ready EXCEPT ![q] = Tail(@)]
  /\ queue' = [queue EXCEPT ![q] =
       IF Len(@) < QueueCap THEN Append(@, Head(ready[q])) ELSE @]
  /\ shed' = [shed EXCEPT ![q] =
       IF Len(queue[q]) < QueueCap THEN @ ELSE @ \cup {Head(ready[q]).seq}]
  /\ UNCHANGED <<now, seq, lock, pc, ev, read, todo, buffer, sub, loopOpen>>

\* _deliver: put_nowait, and on QueueFull drop the oldest to make room.
Deliver(q) ==
  /\ OnLoop
  /\ loopOpen
  /\ ready[q] # <<>>
  /\ ready' = [ready EXCEPT ![q] = Tail(@)]
  /\ queue' = [queue EXCEPT ![q] = RingAppend(@, Head(ready[q]), QueueCap)]
  /\ shed' = [shed EXCEPT ![q] =
                IF Len(queue[q]) < QueueCap THEN @ ELSE @ \cup {Head(queue[q]).seq}]
  /\ UNCHANGED <<now, seq, lock, pc, ev, read, todo, buffer, sub, loopOpen>>

\* subscribe(): a fresh queue, registered under the lock.
Subscribe(q) ==
  /\ OnLoop
  /\ loopOpen
  /\ sub[q] = "new"
  /\ lock = NoThread
  /\ sub' = [sub EXCEPT ![q] = "live"]
  /\ UNCHANGED <<now, seq, lock, pc, ev, read, todo, buffer, ready, queue, shed, loopOpen>>

\* unsubscribe(): callbacks already scheduled still run, into a queue nobody
\* reads.
Unsubscribe(q) ==
  /\ OnLoop
  /\ sub[q] # "new"
  /\ lock = NoThread
  /\ sub' = [sub EXCEPT ![q] = "gone"]
  /\ UNCHANGED <<now, seq, lock, pc, ev, read, todo, buffer, ready, queue, shed, loopOpen>>

\* The subscriber takes the n oldest events of its queue.
Take(q, n) ==
  /\ OnLoop
  /\ loopOpen
  /\ sub[q] # "new"
  /\ n \in 1 .. Len(queue[q])
  /\ queue' = [queue EXCEPT ![q] = SubSeq(@, n + 1, Len(@))]
  /\ UNCHANGED <<now, seq, lock, pc, ev, read, todo, buffer, sub, ready, shed, loopOpen>>

\* clear(): forget everything and number from 1 again.
Clear ==
  /\ lock = NoThread
  /\ buffer' = <<>>
  /\ sub' = [q \in Queues |-> IF sub[q] = "live" THEN "gone" ELSE sub[q]]
  /\ seq' = 0
  /\ UNCHANGED <<now, lock, pc, ev, read, todo, ready, queue, shed, loopOpen>>

\* The application's loop closes; callbacks it has not run never run.
CloseLoop ==
  /\ OnLoop
  /\ loopOpen
  /\ loopOpen' = FALSE
  /\ UNCHANGED <<now, seq, lock, pc, ev, read, todo, buffer, sub, ready, queue, shed>>

-----------------------------------------------------------------------------

Push(th) ==
  \/ Create(th)
  \/ Acquire(th)
  \/ ReadSeq(th)
  \/ Stamp(th)
  \/ AppendRing(th)
  \/ \E q \in Queues : Schedule(th, q)
  \/ Release(th)

Next ==
  \/ \E th \in Threads : Push(th)
  \/ \E q \in Queues :
       \/ Deliver(q)
       \/ Subscribe(q)
       \/ Unsubscribe(q)
       \/ \E n \in 1 .. Len(queue[q]) : Take(q, n)
  \/ Clear
  \/ CloseLoop

Spec == Init /\ [][Next]_cvars

-----------------------------------------------------------------------------
(* Properties *)

TypeOK ==
  /\ now \in Nat
  /\ seq \in Nat
  /\ lock \in Threads \cup {NoThread}
  /\ pc \in [Threads -> Steps]
  /\ ev \in [Threads -> Event]
  /\ read \in [Threads -> Nat]
  /\ todo \subseteq Queues
  /\ buffer \in Seq(Event)
  /\ sub \in [Queues -> {"new", "live", "gone"}]
  /\ ready \in [Queues -> Seq(Event)]
  /\ queue \in [Queues -> Seq(Event)]
  /\ shed \in [Queues -> SUBSET Nat]
  /\ loopOpen \in BOOLEAN

\* The seq of the newest event in the ring, and of the newest one handed to
\* the loop for q: the push in progress has a number from its Stamp on.
InRing == IF \E th \in Threads : pc[th] = "stamped" THEN seq - 1 ELSE seq
Sent(q) ==
  IF \E th \in Threads : pc[th] = "stamped" \/ (pc[th] = "fanout" /\ q \in todo)
  THEN seq - 1
  ELSE seq

\* The seqs of s are consecutive and the last one is n.
EndsAt(s, n) == \A i \in 1 .. Len(s) : s[i].seq = n - Len(s) + i

\* The ring never exceeds its capacity and holds exactly the most recently
\* numbered events, in order and without a hole, at every instant at which
\* snapshot() (which takes no lock) may read it (collector.py:40-41, 52-54).
RingIsNewest ==
  /\ Len(buffer) <= RingCap
  /\ EndsAt(buffer, InRing)

\* What a live subscriber still has in front of it, first its queue and then
\* the deliveries the loop has yet to run, is one unbroken run of seqs that
\* ends at the newest event scheduled for it: however threads interleave and
\* however often the queue overflows, an event is missing only from the old
\* end.  This is what lets a client read a gap as a drop (collector.py:44-49).
StreamIsContiguous ==
  \A q \in Live : loopOpen =>
    /\ Len(queue[q]) <= QueueCap
    /\ EndsAt(ready[q], Sent(q))
    /\ EndsAt(queue[q], Sent(q) - Len(ready[q]))

\* An event leaves the queue unread only when the queue is full, and then it
\* is the oldest: a delivery never discards an event newer than one it keeps
\* (collector.py:64-71).
ShedIsOldest ==
  \A q \in Live : \A s \in shed[q] :
    \A i \in 1 .. Len(queue[q]) : s < queue[q][i].seq

=============================================================================
