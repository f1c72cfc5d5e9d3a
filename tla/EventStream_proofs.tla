-------------------------- MODULE EventStream_proofs --------------------------
(***************************************************************************)
(* For any number of threads, subscribers, dashboards and events and for   *)
(* any capacities.  First the collector by itself: its ring and every      *)
(* subscriber's stream stay in seq order without a hole.  Then the whole   *)
(* stream: the handlers and the tab use the collector only through its     *)
(* operations, so what is proved of the collector holds of the stream;     *)
(* what a tab hears is in order, and what it does not hear it counts; and  *)
(* that is what CountedStream promises.                                    *)
(*                                                                         *)
(* The collector's three properties are not inductive.  The strengthening  *)
(* (IInv) says who owns the lock (LockInv), that the owner's copy of       *)
(* `_seq` is current (SeqInv), that a fan-out goes over live queues only   *)
(* (TodoInv), that an unregistered queue is empty (FreshInv), and that     *)
(* what overflows shed lies before what is still to come (ShedInv).        *)
(***************************************************************************)
EXTENDS EventStream, SequenceTheorems, FiniteSetTheorems, TLAPS

LockInv == \A th \in Threads : pc[th] \in InPush <=> lock = th

SeqInv ==
  \A th \in Threads :
    /\ pc[th] = "read" => read[th] = seq
    /\ pc[th] \in {"stamped", "fanout"} => ev[th].seq = seq /\ seq > 0

TodoInv ==
  /\ todo \subseteq Live
  /\ todo # {} => \E th \in Threads : pc[th] = "fanout"

FreshInv ==
  \A q \in Queues : sub[q] = "new" =>
    ready[q] = <<>> /\ queue[q] = <<>> /\ shed[q] = {}

ShedInv ==
  \A q \in Live : loopOpen =>
    \A s \in shed[q] : s <= Sent(q) - Len(ready[q]) - Len(queue[q])

IInv ==
  /\ TypeOK
  /\ LockInv
  /\ SeqInv
  /\ TodoInv
  /\ FreshInv
  /\ RingIsNewest
  /\ StreamIsContiguous
  /\ ShedInv
  /\ ShedIsOldest

-----------------------------------------------------------------------------
(* Sequences of events with consecutive numbers *)

\* Appending the next number keeps a run a run.
LEMMA EndsAtAppend ==
  ASSUME NEW s \in Seq(Event), NEW n \in Int, NEW e \in Event,
         EndsAt(s, n), e.seq = n + 1
  PROVE  EndsAt(Append(s, e), n + 1)
BY AppendProperties DEF EndsAt, Event

\* Dropping the oldest element keeps a run a run.
LEMMA EndsAtTail ==
  ASSUME NEW s \in Seq(Event), NEW n \in Int, EndsAt(s, n), s # <<>>
  PROVE  /\ EndsAt(Tail(s), n)
         /\ Head(s).seq = n - Len(s) + 1
<1>1. /\ Tail(s) \in Seq(Event)
      /\ Len(Tail(s)) = Len(s) - 1
      /\ \A i \in 1 .. Len(Tail(s)) : Tail(s)[i] = s[i + 1]
  BY HeadTailProperties
<1>2. Len(s) \in Nat \ {0}
  BY EmptySeq
<1>3. Head(s) = s[1]
  BY <1>2
<1>4. Head(s).seq = n - Len(s) + 1
  BY <1>2, <1>3 DEF EndsAt
<1>5. ASSUME NEW i \in 1 .. Len(Tail(s))
      PROVE  Tail(s)[i].seq = n - Len(Tail(s)) + i
  <2>1. i + 1 \in 1 .. Len(s)
    BY <1>1, <1>2
  <2>2. s[i + 1].seq = n - Len(s) + (i + 1)
    BY <2>1 DEF EndsAt
  <2> QED BY <1>1, <1>2, <2>2
<1> QED BY <1>4, <1>5 DEF EndsAt

\* A deque of capacity c keeps the newest c elements of a run.
LEMMA EndsAtRingAppend ==
  ASSUME NEW s \in Seq(Event), NEW n \in Int, NEW e \in Event,
         NEW c \in Nat \ {0}, Len(s) <= c, EndsAt(s, n), e.seq = n + 1
  PROVE  /\ RingAppend(s, e, c) \in Seq(Event)
         /\ Len(RingAppend(s, e, c)) <= c
         /\ EndsAt(RingAppend(s, e, c), n + 1)
         /\ Len(RingAppend(s, e, c)) = IF Len(s) < c THEN Len(s) + 1 ELSE Len(s)
<1>1. CASE Len(s) < c
  BY <1>1, EndsAtAppend, AppendProperties, LenProperties DEF RingAppend
<1>2. CASE ~ (Len(s) < c)
  <2>1. Len(s) = c /\ s # <<>>
    BY <1>2, LenProperties, EmptySeq
  <2>2. /\ Tail(s) \in Seq(Event)
        /\ Len(Tail(s)) = Len(s) - 1
    BY <2>1, HeadTailProperties
  <2>3. EndsAt(Append(Tail(s), e), n + 1)
    BY <2>1, <2>2, EndsAtTail, EndsAtAppend
  <2>4. /\ Append(Tail(s), e) \in Seq(Event)
        /\ Len(Append(Tail(s), e)) = Len(s)
    BY <2>1, <2>2, AppendProperties
  <2> QED BY <1>2, <2>1, <2>3, <2>4 DEF RingAppend
<1> QED BY <1>1, <1>2

\* Whatever is appended, a ring of events stays a sequence of events.
LEMMA RingAppendType ==
  ASSUME NEW s \in Seq(Event), NEW e \in Event, NEW c \in Nat \ {0}
  PROVE  RingAppend(s, e, c) \in Seq(Event)
<1>1. CASE Len(s) < c
  BY <1>1, AppendProperties DEF RingAppend
<1>2. CASE ~ (Len(s) < c)
  <2>1. s # <<>>
    BY <1>2, EmptySeq
  <2>2. Tail(s) \in Seq(Event)
    BY <2>1, HeadTailProperties
  <2> QED BY <1>2, <2>2, AppendProperties DEF RingAppend
<1> QED BY <1>1, <1>2

\* Taking from the old end keeps a run a run.
LEMMA EndsAtSuffix ==
  ASSUME NEW s \in Seq(Event), NEW n \in Int, EndsAt(s, n), NEW k \in 0 .. Len(s)
  PROVE  /\ SubSeq(s, k + 1, Len(s)) \in Seq(Event)
         /\ Len(SubSeq(s, k + 1, Len(s))) = Len(s) - k
         /\ EndsAt(SubSeq(s, k + 1, Len(s)), n)
         /\ \A i \in 1 .. Len(s) - k : SubSeq(s, k + 1, Len(s))[i] = s[k + i]
<1> DEFINE r == SubSeq(s, k + 1, Len(s))
<1>1. Len(s) \in Nat
  BY LenProperties
<1>2. \A i \in k + 1 .. Len(s) : s[i] \in Event
  BY <1>1, ElementOfSeq
<1>3. /\ r \in Seq(Event)
      /\ Len(r) = IF k + 1 <= Len(s) THEN Len(s) - (k + 1) + 1 ELSE 0
      /\ \A i \in 1 .. Len(s) - (k + 1) + 1 : r[i] = s[(k + 1) + i - 1]
  BY <1>1, <1>2, SubSeqProperties
<1> HIDE DEF r
<1>4. Len(r) = Len(s) - k
  BY <1>1, <1>3
<1>5. \A i \in 1 .. Len(s) - k : r[i] = s[k + i]
  <2> TAKE i \in 1 .. Len(s) - k
  <2>1. i \in 1 .. Len(s) - (k + 1) + 1 /\ (k + 1) + i - 1 = k + i
    BY <1>1
  <2> QED BY <1>3, <2>1
<1>6. ASSUME NEW i \in 1 .. Len(r)
      PROVE  r[i].seq = n - Len(r) + i
  <2>1. k + i \in 1 .. Len(s)
    BY <1>1, <1>4
  <2>2. s[k + i].seq = n - Len(s) + (k + i)
    BY <2>1 DEF EndsAt
  <2>3. r[i] = s[k + i]
    BY <1>4, <1>5
  <2>4. n - Len(s) + (k + i) = n - Len(r) + i
    BY <1>1, <1>4
  <2> QED BY <2>2, <2>3, <2>4
<1> QED BY <1>3, <1>4, <1>5, <1>6 DEF EndsAt, r

-----------------------------------------------------------------------------
(* Type correctness *)

\* The values of every variable keep their types at every step of push(), of
\* the deliveries and of the subscribers (collector.py).
THEOREM TypeCorrect == Spec => []TypeOK
<1>1. Init => TypeOK
  BY CollectorAssumption, EmptySeq DEF Init, TypeOK, Steps, Event, Idle
<1>2. ASSUME TypeOK, [Next]_cvars
      PROVE  TypeOK'
  <2> USE <1>2 DEF TypeOK
  <2>1. ASSUME NEW th \in Threads, Create(th)
        PROVE  TypeOK'
    <3>1. PICK t \in (now + 1 - Backdate) .. (now + 1) :
            ev' = [ev EXCEPT ![th] = [seq |-> 0, t |-> t]]
      BY <2>1 DEF Create
    <3>2. [seq |-> 0, t |-> t] \in Event
      BY CollectorAssumption DEF Event
    <3> QED BY <2>1, <3>1, <3>2 DEF Create, Steps
  <2>2. ASSUME NEW th \in Threads, Acquire(th)
        PROVE  TypeOK'
    BY <2>2 DEF Acquire, Steps
  <2>3. ASSUME NEW th \in Threads, ReadSeq(th)
        PROVE  TypeOK'
    BY <2>3 DEF ReadSeq, Steps
  <2>4. ASSUME NEW th \in Threads, Stamp(th)
        PROVE  TypeOK'
    <3>1. ev[th] \in Event /\ read[th] + 1 \in Nat
      OBVIOUS
    <3>2. [ev[th] EXCEPT !.seq = read[th] + 1] \in Event
      BY <3>1 DEF Event
    <3>3. ev' = [ev EXCEPT ![th] = [ev[th] EXCEPT !.seq = read[th] + 1]]
      BY <2>4 DEF Stamp
    <3> QED BY <2>4, <3>1, <3>2, <3>3 DEF Stamp, Steps
  <2>5. ASSUME NEW th \in Threads, AppendRing(th)
        PROVE  TypeOK'
    BY <2>5, RingAppendType, CollectorAssumption DEF AppendRing, Steps, Live
  <2>6. ASSUME NEW th \in Threads, NEW q \in Queues, Schedule(th, q)
        PROVE  TypeOK'
    <3>1. Append(ready[q], ev[th]) \in Seq(Event)
      BY AppendProperties
    <3> QED BY <2>6, <3>1 DEF Schedule
  <2>7. ASSUME NEW th \in Threads, Release(th)
        PROVE  TypeOK'
    <3>1. Idle \in Event
      BY DEF Idle, Event
    <3> QED BY <2>7, <3>1 DEF Release, Steps
  <2>8. ASSUME NEW q \in Queues, Deliver(q)
        PROVE  TypeOK'
    <3>1. Tail(ready[q]) \in Seq(Event) /\ Head(ready[q]) \in Event
      BY <2>8, HeadTailProperties DEF Deliver
    <3>2. RingAppend(queue[q], Head(ready[q]), QueueCap) \in Seq(Event)
      BY <3>1, RingAppendType, CollectorAssumption
    <3>3. ASSUME ~ (Len(queue[q]) < QueueCap)
          PROVE  Head(queue[q]).seq \in Nat
      <4>1. queue[q] # <<>>
        BY <3>3, CollectorAssumption, EmptySeq
      <4>2. Head(queue[q]) \in Event
        BY <4>1, HeadTailProperties
      <4> QED BY <4>2 DEF Event
    <3> QED BY <2>8, <3>1, <3>2, <3>3 DEF Deliver
  <2>9. ASSUME NEW q \in Queues, Subscribe(q)
        PROVE  TypeOK'
    BY <2>9 DEF Subscribe
  <2>10. ASSUME NEW q \in Queues, Unsubscribe(q)
         PROVE  TypeOK'
    BY <2>10 DEF Unsubscribe
  <2>11. ASSUME NEW q \in Queues, NEW n \in 1 .. Len(queue[q]), Take(q, n)
         PROVE  TypeOK'
    <3>1. \A i \in n + 1 .. Len(queue[q]) : queue[q][i] \in Event
      BY ElementOfSeq
    <3>2. SubSeq(queue[q], n + 1, Len(queue[q])) \in Seq(Event)
      BY <3>1, LenProperties, SubSeqProperties
    <3> QED BY <2>11, <3>2 DEF Take
  <2>12. CASE Clear
    BY <2>12, EmptySeq DEF Clear
  <2>13. CASE CloseLoop
    BY <2>13 DEF CloseLoop
  <2>14. CASE UNCHANGED cvars
    BY <2>14 DEF cvars
  <2> QED
    BY <2>1, <2>2, <2>3, <2>4, <2>5, <2>6, <2>7, <2>8, <2>9, <2>10, <2>11,
       <2>12, <2>13, <2>14 DEF Next, Push
<1> QED BY <1>1, <1>2, PTL DEF Spec

-----------------------------------------------------------------------------
(* The inductive invariant *)

\* How far the ring and a stream have got, in terms of what the owner of the
\* lock is doing.
Position ==
  /\ lock = NoThread =>
       InRing = seq /\ \A q \in Queues : q \notin todo => Sent(q) = seq
  /\ \A th \in Threads : pc[th] \in {"locked", "read"} =>
       InRing = seq /\ \A q \in Queues : q \notin todo => Sent(q) = seq
  /\ \A th \in Threads : pc[th] = "stamped" =>
       InRing = seq - 1 /\ \A q \in Queues : Sent(q) = seq - 1
  /\ \A th \in Threads : pc[th] = "fanout" =>
       /\ InRing = seq
       /\ \A q \in Queues : Sent(q) = IF q \in todo THEN seq - 1 ELSE seq

\* The positions follow from who holds the lock.
LEMMA Progress == LockInv => Position
BY CollectorAssumption DEF Position, LockInv, InRing, Sent, InPush

\* A subscriber whose queue, pending deliveries and position do not change
\* keeps its stream.
LEMMA StreamFrame ==
  ASSUME StreamIsContiguous, ShedInv, ShedIsOldest,
         UNCHANGED <<ready, queue, shed, loopOpen>>,
         \A q \in Live' : q \in Live /\ (loopOpen => Sent(q)' = Sent(q))
  PROVE  StreamIsContiguous' /\ ShedInv' /\ ShedIsOldest'
BY DEF StreamIsContiguous, ShedInv, ShedIsOldest, EndsAt

\* Every step keeps IInv.
LEMMA Inductive == IInv /\ TypeOK' /\ [Next]_cvars => IInv'
<1> SUFFICES ASSUME IInv, TypeOK', [Next]_cvars
             PROVE  IInv'
  OBVIOUS
<1> USE DEF TypeOK, IInv
<1>0. LockInv' => Position'
  BY Progress, PTL
<1>1. ASSUME NEW th \in Threads, Create(th)
      PROVE  IInv'
  <2>1. LockInv' /\ SeqInv' /\ TodoInv' /\ FreshInv'
    BY <1>1 DEF Create, LockInv, SeqInv, TodoInv, FreshInv, Live, InPush
  <2>2. InRing' = InRing /\ \A q \in Queues : Sent(q)' = Sent(q)
    BY <1>1 DEF Create, InRing, Sent
  <2>3. RingIsNewest'
    BY <1>1, <2>2 DEF Create, RingIsNewest, EndsAt
  <2>4. StreamIsContiguous' /\ ShedInv' /\ ShedIsOldest'
    BY <1>1, <2>2, StreamFrame DEF Create, Live
  <2> QED BY <2>1, <2>3, <2>4
<1>2. ASSUME NEW th \in Threads, Acquire(th)
      PROVE  IInv'
  <2>1. LockInv' /\ SeqInv' /\ TodoInv' /\ FreshInv'
    BY <1>2, CollectorAssumption
    DEF Acquire, LockInv, SeqInv, TodoInv, FreshInv, Live, InPush
  <2>2. InRing' = InRing /\ \A q \in Queues : Sent(q)' = Sent(q)
    BY <1>2 DEF Acquire, InRing, Sent
  <2>3. RingIsNewest'
    BY <1>2, <2>2 DEF Acquire, RingIsNewest, EndsAt
  <2>4. StreamIsContiguous' /\ ShedInv' /\ ShedIsOldest'
    BY <1>2, <2>2, StreamFrame DEF Acquire, Live
  <2> QED BY <2>1, <2>3, <2>4
<1>3. ASSUME NEW th \in Threads, ReadSeq(th)
      PROVE  IInv'
  <2>1. LockInv' /\ SeqInv' /\ TodoInv' /\ FreshInv'
    BY <1>3 DEF ReadSeq, LockInv, SeqInv, TodoInv, FreshInv, Live, InPush
  <2>2. InRing' = InRing /\ \A q \in Queues : Sent(q)' = Sent(q)
    BY <1>3 DEF ReadSeq, InRing, Sent
  <2>3. RingIsNewest'
    BY <1>3, <2>2 DEF ReadSeq, RingIsNewest, EndsAt
  <2>4. StreamIsContiguous' /\ ShedInv' /\ ShedIsOldest'
    BY <1>3, <2>2, StreamFrame DEF ReadSeq, Live
  <2> QED BY <2>1, <2>3, <2>4
<1>4. ASSUME NEW th \in Threads, Stamp(th)
      PROVE  IInv'
  <2>0. /\ read[th] = seq /\ seq' = seq + 1
        /\ lock = th
        /\ todo = {}
    BY <1>4 DEF Stamp, SeqInv, LockInv, TodoInv, InPush
  <2>1. LockInv' /\ TodoInv' /\ FreshInv'
    BY <1>4, <2>0 DEF Stamp, LockInv, TodoInv, FreshInv, Live, InPush
  <2>2. SeqInv'
    <3>1. ASSUME NEW o \in Threads, o # th
          PROVE  pc'[o] \notin InPush
      BY <1>4, <2>0, <3>1 DEF Stamp, LockInv
    <3>2. pc'[th] = "stamped" /\ ev'[th].seq = seq'
      <4>1. ev[th] \in Event
        OBVIOUS
      <4> QED BY <1>4, <4>1 DEF Stamp, Event
    <3> QED BY <2>0, <3>1, <3>2 DEF SeqInv, InPush
  <2>3. InRing' = InRing /\ \A q \in Queues : Sent(q)' = Sent(q)
    <3>1. InRing = seq /\ \A q \in Queues : Sent(q) = seq
      BY <1>4, <2>0, Progress DEF Position, Stamp
    <3>2. pc'[th] = "stamped"
      BY <1>4 DEF Stamp
    <3>3. InRing' = seq' - 1 /\ \A q \in Queues : Sent(q)' = seq' - 1
      BY <1>0, <2>1, <3>2 DEF Position
    <3> QED BY <2>0, <3>1, <3>3
  <2>4. RingIsNewest'
    BY <1>4, <2>3 DEF Stamp, RingIsNewest, EndsAt
  <2>5. StreamIsContiguous' /\ ShedInv' /\ ShedIsOldest'
    BY <1>4, <2>3, StreamFrame DEF Stamp, Live
  <2> QED BY <2>1, <2>2, <2>4, <2>5
<1>5. ASSUME NEW th \in Threads, AppendRing(th)
      PROVE  IInv'
  <2>1. LockInv' /\ SeqInv' /\ TodoInv' /\ FreshInv'
    BY <1>5 DEF AppendRing, LockInv, SeqInv, TodoInv, FreshInv, Live, InPush
  <2>2. /\ InRing = seq - 1
        /\ \A q \in Queues : Sent(q) = seq - 1
    BY <1>5, Progress DEF Position, AppendRing
  <2>3. /\ InRing' = seq
        /\ \A q \in Queues : Sent(q)' = IF q \in todo' THEN seq - 1 ELSE seq
    BY <1>0, <1>5, <2>1 DEF Position, AppendRing
  <2>4. RingIsNewest'
    <3>1. ev[th].seq = (seq - 1) + 1 /\ seq - 1 \in Int
      BY <1>5 DEF AppendRing, SeqInv
    <3>2. /\ Len(RingAppend(buffer, ev[th], RingCap)) <= RingCap
          /\ EndsAt(RingAppend(buffer, ev[th], RingCap), (seq - 1) + 1)
      BY <2>2, <3>1, EndsAtRingAppend, CollectorAssumption DEF RingIsNewest
    <3> QED BY <1>5, <2>3, <3>2 DEF AppendRing, RingIsNewest, EndsAt
  <2>5. StreamIsContiguous' /\ ShedInv' /\ ShedIsOldest'
    <3>1. \A q \in Live' : q \in Live /\ Sent(q)' = Sent(q)
      BY <1>5, <2>2, <2>3 DEF AppendRing, Live
    <3> QED BY <1>5, <3>1, StreamFrame DEF AppendRing
  <2> QED BY <2>1, <2>4, <2>5
<1>6. ASSUME NEW th \in Threads, NEW q \in Queues, Schedule(th, q)
      PROVE  IInv'
  <2>1. LockInv' /\ SeqInv' /\ TodoInv'
    BY <1>6 DEF Schedule, LockInv, SeqInv, TodoInv, Live, InPush
  <2>2. q \in Live
    BY <1>6 DEF Schedule, TodoInv
  <2>3. FreshInv'
    BY <1>6, <2>2 DEF Schedule, FreshInv, Live
  <2>4. /\ InRing' = InRing
        /\ Sent(q) = seq - 1
        /\ Sent(q)' = seq
        /\ \A o \in Queues : o # q => Sent(o)' = Sent(o)
    <3>1. /\ InRing = seq
          /\ \A o \in Queues : Sent(o) = IF o \in todo THEN seq - 1 ELSE seq
      BY <1>6, Progress DEF Position, Schedule
    <3>2. /\ InRing' = seq
          /\ \A o \in Queues : Sent(o)' = IF o \in todo' THEN seq - 1 ELSE seq
      BY <1>0, <1>6, <2>1 DEF Position, Schedule
    <3> QED BY <1>6, <3>1, <3>2 DEF Schedule
  <2>5. RingIsNewest'
    BY <1>6, <2>4 DEF Schedule, RingIsNewest, EndsAt
  <2>6. ASSUME NEW o \in Live', loopOpen'
        PROVE  /\ Len(queue'[o]) <= QueueCap
               /\ EndsAt(ready'[o], Sent(o)')
               /\ EndsAt(queue'[o], Sent(o)' - Len(ready'[o]))
               /\ \A s \in shed'[o] : s <= Sent(o)' - Len(ready'[o]) - Len(queue'[o])
    <3>1. o \in Live /\ o \in Queues /\ loopOpen
      BY <1>6, <2>6 DEF Schedule, Live
    <3>2. CASE o # q
      BY <1>6, <2>4, <3>1, <3>2 DEF Schedule, StreamIsContiguous, ShedInv
    <3>3. CASE o = q
      <4>1. ready'[q] = Append(ready[q], ev[th])
        BY <1>6, <3>1 DEF Schedule
      <4>2. ev[th].seq = (seq - 1) + 1 /\ seq - 1 \in Int
        BY <1>6 DEF Schedule, SeqInv
      <4>3. EndsAt(ready[q], seq - 1)
        BY <2>2, <2>4, <3>1 DEF StreamIsContiguous
      <4>4. EndsAt(ready'[q], seq)
        BY <4>1, <4>2, <4>3, EndsAtAppend
      <4>5. /\ Len(ready'[q]) = Len(ready[q]) + 1
            /\ Len(ready[q]) \in Nat
        BY <4>1, AppendProperties, LenProperties
      <4>6. Sent(q)' - Len(ready'[q]) = Sent(q) - Len(ready[q])
        BY <2>4, <4>5
      <4>7. queue' = queue /\ shed' = shed
        BY <1>6 DEF Schedule
      <4> QED
        BY <2>2, <2>4, <3>1, <3>3, <4>4, <4>6, <4>7 DEF StreamIsContiguous, ShedInv
    <3> QED BY <3>2, <3>3
  <2>7. StreamIsContiguous' /\ ShedInv'
    BY <2>6 DEF StreamIsContiguous, ShedInv
  <2>8. ShedIsOldest'
    BY <1>6 DEF Schedule, ShedIsOldest, Live
  <2> QED BY <2>1, <2>3, <2>5, <2>7, <2>8
<1>7. ASSUME NEW th \in Threads, Release(th)
      PROVE  IInv'
  <2>1. LockInv' /\ SeqInv' /\ TodoInv' /\ FreshInv'
    BY <1>7, CollectorAssumption
    DEF Release, LockInv, SeqInv, TodoInv, FreshInv, Live, InPush
  <2>2. InRing' = InRing /\ \A q \in Queues : Sent(q)' = Sent(q)
    <3>1. /\ InRing = seq
          /\ \A q \in Queues : Sent(q) = seq
      BY <1>7, Progress DEF Position, Release
    <3>2. /\ InRing' = seq
          /\ \A q \in Queues : Sent(q)' = seq
      BY <1>0, <1>7, <2>1 DEF Position, Release
    <3> QED BY <3>1, <3>2
  <2>3. RingIsNewest'
    BY <1>7, <2>2 DEF Release, RingIsNewest, EndsAt
  <2>4. StreamIsContiguous' /\ ShedInv' /\ ShedIsOldest'
    BY <1>7, <2>2, StreamFrame DEF Release, Live
  <2> QED BY <2>1, <2>3, <2>4
<1>8. ASSUME NEW q \in Queues, Deliver(q)
      PROVE  IInv'
  <2>1. LockInv' /\ SeqInv' /\ TodoInv'
    BY <1>8 DEF Deliver, LockInv, SeqInv, TodoInv, Live, InPush
  <2>2. FreshInv'
    BY <1>8 DEF Deliver, FreshInv
  <2>3. InRing' = InRing /\ \A o \in Queues : Sent(o)' = Sent(o)
    BY <1>8 DEF Deliver, InRing, Sent
  <2>4. RingIsNewest'
    BY <1>8, <2>3 DEF Deliver, RingIsNewest, EndsAt
  <2>5. ASSUME NEW o \in Live'
        PROVE  /\ Len(queue'[o]) <= QueueCap
               /\ EndsAt(ready'[o], Sent(o)')
               /\ EndsAt(queue'[o], Sent(o)' - Len(ready'[o]))
               /\ \A s \in shed'[o] : s <= Sent(o)' - Len(ready'[o]) - Len(queue'[o])
    <3>1. o \in Live /\ o \in Queues /\ loopOpen
      BY <1>8 DEF Deliver, Live
    <3>2. CASE o # q
      BY <1>8, <2>3, <3>1, <3>2 DEF Deliver, StreamIsContiguous, ShedInv
    <3>3. CASE o = q
      <4> DEFINE e == Head(ready[q])
                 r == Len(ready[q])
                 n == Sent(q) - Len(ready[q])
      <4>1. /\ ready[q] # <<>>
            /\ ready'[q] = Tail(ready[q])
            /\ queue'[q] = RingAppend(queue[q], e, QueueCap)
            /\ shed'[q] = IF Len(queue[q]) < QueueCap
                          THEN shed[q] ELSE shed[q] \cup {Head(queue[q]).seq}
        BY <1>8 DEF Deliver
      <4>2. /\ Len(queue[q]) <= QueueCap
            /\ EndsAt(ready[q], Sent(q))
            /\ EndsAt(queue[q], n)
            /\ \A s \in shed[q] : s <= n - Len(queue[q])
        BY <3>1, <3>3 DEF StreamIsContiguous, ShedInv
      <4>3. r \in Nat \ {0} /\ Len(queue[q]) \in Nat /\ n \in Int /\ Sent(q) \in Int
        BY <4>1, EmptySeq, LenProperties DEF Sent
      <4>4. /\ EndsAt(Tail(ready[q]), Sent(q))
            /\ e.seq = n + 1
            /\ e \in Event
            /\ Len(Tail(ready[q])) = r - 1
        BY <4>1, <4>2, <4>3, EndsAtTail, HeadTailProperties
      <4>5. /\ Len(queue'[q]) <= QueueCap
            /\ EndsAt(queue'[q], n + 1)
            /\ Len(queue'[q]) = IF Len(queue[q]) < QueueCap
                                THEN Len(queue[q]) + 1 ELSE Len(queue[q])
        <5> HIDE DEF e, r, n
        <5>1. queue[q] \in Seq(Event)
          OBVIOUS
        <5> QED BY <4>1, <4>2, <4>3, <4>4, <5>1, EndsAtRingAppend, CollectorAssumption, SMTT(30)
      <4>6. Sent(q)' - Len(ready'[q]) = n + 1
        BY <2>3, <4>1, <4>3, <4>4
      <4>7. \A s \in shed'[q] : s <= (n + 1) - Len(queue'[q])
        <5>0. (\A s \in shed[q] : s \in Nat) /\ QueueCap \in Nat
          BY CollectorAssumption
        <5> HIDE DEF e, r, n
        <5>1. CASE Len(queue[q]) < QueueCap
          BY <5>0, <4>1, <4>2, <4>3, <4>5, <5>1
        <5>2. CASE ~ (Len(queue[q]) < QueueCap)
          <6>1. queue[q] # <<>>
            BY <5>2, CollectorAssumption, EmptySeq
          <6>2. queue[q] \in Seq(Event)
            OBVIOUS
          <6>3. Head(queue[q]).seq = n - Len(queue[q]) + 1
            BY <4>2, <4>3, <6>1, <6>2, EndsAtTail
          <6>4. Len(queue'[q]) = Len(queue[q])
            BY <4>5, <5>2
          <6>5. ASSUME NEW s \in shed[q]
                PROVE  s <= (n + 1) - Len(queue[q])
            BY <4>2, <4>3, <5>0
          <6>6. Head(queue[q]).seq <= (n + 1) - Len(queue[q])
            BY <4>3, <6>3
          <6> QED BY <4>1, <5>2, <6>4, <6>5, <6>6
        <5> QED BY <5>1, <5>2
      <4> QED BY <2>3, <3>3, <4>1, <4>4, <4>5, <4>6, <4>7
    <3> QED BY <3>2, <3>3
  <2>6. StreamIsContiguous' /\ ShedInv'
    BY <2>5 DEF StreamIsContiguous, ShedInv
  <2>7. ShedIsOldest'
    <3> SUFFICES ASSUME NEW o \in Live', NEW s \in shed'[o],
                        NEW i \in 1 .. Len(queue'[o])
                 PROVE  s < queue'[o][i].seq
      BY DEF ShedIsOldest
    <3> DEFINE m == Sent(o)' - Len(ready'[o]) - Len(queue'[o])
    <3>1. EndsAt(queue'[o], Sent(o)' - Len(ready'[o])) /\ s <= m
      BY <2>5
    <3>2. /\ Len(queue'[o]) \in Nat /\ Len(ready'[o]) \in Nat
          /\ Sent(o)' \in Int /\ s \in Nat
      BY LenProperties, <2>3 DEF Live, Sent
    <3> HIDE DEF TypeOK, IInv
    <3>3. m \in Int /\ i \in Int /\ i >= 1
      BY <3>2
    <3>4. queue'[o][i].seq = m + i
      BY <3>1 DEF EndsAt
    <3> HIDE DEF m
    <3> QED BY <3>1, <3>2, <3>3, <3>4
  <2> QED BY <2>1, <2>2, <2>4, <2>6, <2>7
<1>9. ASSUME NEW q \in Queues, Subscribe(q)
      PROVE  IInv'
  <2>1. LockInv' /\ SeqInv' /\ TodoInv' /\ FreshInv'
    BY <1>9 DEF Subscribe, LockInv, SeqInv, TodoInv, FreshInv, Live, InPush
  <2>2. InRing' = InRing /\ \A o \in Queues : Sent(o)' = Sent(o)
    BY <1>9 DEF Subscribe, InRing, Sent
  <2>3. RingIsNewest'
    BY <1>9, <2>2 DEF Subscribe, RingIsNewest, EndsAt
  <2>4. ready[q] = <<>> /\ queue[q] = <<>> /\ shed[q] = {}
    BY <1>9 DEF Subscribe, FreshInv
  <2>5. \A o \in Live' : o = q \/ o \in Live
    BY <1>9 DEF Subscribe, Live
  <2>6. StreamIsContiguous' /\ ShedInv' /\ ShedIsOldest'
    <3>1. UNCHANGED <<ready, queue, shed, loopOpen>> /\ Len(<<>>) = 0
      BY <1>9, EmptySeq DEF Subscribe
    <3>2. ASSUME NEW o \in Live', loopOpen'
          PROVE  /\ Len(queue'[o]) <= QueueCap
                 /\ EndsAt(ready'[o], Sent(o)')
                 /\ EndsAt(queue'[o], Sent(o)' - Len(ready'[o]))
                 /\ \A s \in shed'[o] : s <= Sent(o)' - Len(ready'[o]) - Len(queue'[o])
      <4>1. CASE o = q
        BY <2>4, <3>1, <4>1, CollectorAssumption DEF EndsAt
      <4>2. CASE o # q
        <5>1. o \in Live /\ o \in Queues /\ Sent(o)' = Sent(o)
          BY <2>2, <2>5, <4>2 DEF Live
        <5> QED BY <3>1, <3>2, <5>1 DEF StreamIsContiguous, ShedInv
      <4> QED BY <4>1, <4>2
    <3>3. StreamIsContiguous' /\ ShedInv'
      BY <3>2 DEF StreamIsContiguous, ShedInv
    <3>4. ShedIsOldest'
      BY <2>4, <2>5, <3>1 DEF ShedIsOldest
    <3> QED BY <3>3, <3>4
  <2> QED BY <2>1, <2>3, <2>6
<1>10. ASSUME NEW q \in Queues, Unsubscribe(q)
       PROVE  IInv'
  <2>1. LockInv' /\ SeqInv' /\ FreshInv'
    BY <1>10 DEF Unsubscribe, LockInv, SeqInv, FreshInv, InPush
  <2>2. TodoInv'
    BY <1>10, CollectorAssumption DEF Unsubscribe, LockInv, TodoInv, Live, InPush
  <2>3. InRing' = InRing /\ \A o \in Queues : Sent(o)' = Sent(o)
    BY <1>10 DEF Unsubscribe, InRing, Sent
  <2>4. RingIsNewest'
    BY <1>10, <2>3 DEF Unsubscribe, RingIsNewest, EndsAt
  <2>5. \A o \in Live' : o \in Live
    BY <1>10 DEF Unsubscribe, Live
  <2>6. StreamIsContiguous' /\ ShedInv' /\ ShedIsOldest'
    BY <1>10, <2>3, <2>5, StreamFrame DEF Unsubscribe, Live
  <2> QED BY <2>1, <2>2, <2>4, <2>6
<1>11. ASSUME NEW q \in Queues, NEW k \in 1 .. Len(queue[q]), Take(q, k)
       PROVE  IInv'
  <2>1. LockInv' /\ SeqInv' /\ TodoInv'
    BY <1>11 DEF Take, LockInv, SeqInv, TodoInv, Live, InPush
  <2>2. FreshInv'
    BY <1>11 DEF Take, FreshInv
  <2>3. InRing' = InRing /\ \A o \in Queues : Sent(o)' = Sent(o)
    BY <1>11 DEF Take, InRing, Sent
  <2>4. RingIsNewest'
    BY <1>11, <2>3 DEF Take, RingIsNewest, EndsAt
  <2>5. ASSUME NEW o \in Live'
        PROVE  /\ Len(queue'[o]) <= QueueCap
               /\ EndsAt(ready'[o], Sent(o)')
               /\ EndsAt(queue'[o], Sent(o)' - Len(ready'[o]))
               /\ \A s \in shed'[o] : s <= Sent(o)' - Len(ready'[o]) - Len(queue'[o])
               /\ \A s \in shed'[o] : \A i \in 1 .. Len(queue'[o]) : s < queue'[o][i].seq
    <3>1. o \in Live /\ o \in Queues /\ loopOpen
      BY <1>11 DEF Take, Live
    <3>2. /\ Len(queue[o]) <= QueueCap
          /\ EndsAt(ready[o], Sent(o))
          /\ EndsAt(queue[o], Sent(o) - Len(ready[o]))
          /\ \A s \in shed[o] : s <= Sent(o) - Len(ready[o]) - Len(queue[o])
          /\ \A s \in shed[o] : \A i \in 1 .. Len(queue[o]) : s < queue[o][i].seq
      BY <3>1 DEF StreamIsContiguous, ShedInv, ShedIsOldest
    <3>3. CASE o # q
      BY <1>11, <2>3, <3>1, <3>2, <3>3 DEF Take
    <3>4. CASE o = q
      <4>1. k \in 0 .. Len(queue[q]) /\ Len(queue[q]) \in Nat /\ Len(ready[q]) \in Nat
            /\ Sent(q) \in Int
        BY LenProperties DEF Sent
      <4>2. /\ queue'[q] = SubSeq(queue[q], k + 1, Len(queue[q]))
            /\ ready' = ready /\ shed' = shed
        BY <1>11 DEF Take
      <4>3. /\ Len(queue'[q]) = Len(queue[q]) - k
            /\ EndsAt(queue'[q], Sent(q) - Len(ready[q]))
            /\ \A i \in 1 .. Len(queue[q]) - k : queue'[q][i] = queue[q][k + i]
        <5>1. queue[q] \in Seq(Event) /\ Sent(q) - Len(ready[q]) \in Int
          BY <4>1
        <5> QED BY <3>2, <3>4, <4>1, <4>2, <5>1, EndsAtSuffix, SMTT(30)
      <4>4. \A s \in shed[q] : s \in Nat
        OBVIOUS
      <4>5. \A i \in 1 .. Len(queue'[q]) : k + i \in 1 .. Len(queue[q])
        BY <4>1, <4>3
      <4>6. \A s \in shed'[q] : \A i \in 1 .. Len(queue'[q]) : s < queue'[q][i].seq
        BY <3>2, <3>4, <4>2, <4>3, <4>5
      <4>7. \A s \in shed'[q] : s <= Sent(q)' - Len(ready'[q]) - Len(queue'[q])
        BY <2>3, <3>2, <3>4, <4>1, <4>2, <4>3, <4>4, SMTT(30)
      <4>8. Len(queue'[q]) <= QueueCap
        BY <3>2, <3>4, <4>1, <4>3, CollectorAssumption
      <4> QED BY <2>3, <3>2, <3>4, <4>2, <4>3, <4>6, <4>7, <4>8
    <3> QED BY <3>3, <3>4
  <2>6. StreamIsContiguous' /\ ShedInv' /\ ShedIsOldest'
    BY <2>5 DEF StreamIsContiguous, ShedInv, ShedIsOldest
  <2> QED BY <2>1, <2>2, <2>4, <2>6
<1>12. CASE Clear
  <2>1. \A th \in Threads : pc[th] \notin InPush
    BY <1>12, CollectorAssumption DEF Clear, LockInv
  <2>2. LockInv' /\ SeqInv' /\ TodoInv' /\ FreshInv'
    BY <1>12, <2>1 DEF Clear, LockInv, SeqInv, TodoInv, FreshInv, Live, InPush
  <2>3. Live' = {}
    BY <1>12 DEF Clear, Live
  <2>4. RingIsNewest'
    BY <1>12, EmptySeq, CollectorAssumption DEF Clear, RingIsNewest, EndsAt
  <2>5. StreamIsContiguous' /\ ShedInv' /\ ShedIsOldest'
    BY <2>3 DEF StreamIsContiguous, ShedInv, ShedIsOldest
  <2> QED BY <2>2, <2>4, <2>5
<1>13. CASE CloseLoop
  <2>1. LockInv' /\ SeqInv' /\ TodoInv' /\ FreshInv'
    BY <1>13 DEF CloseLoop, LockInv, SeqInv, TodoInv, FreshInv, Live, InPush
  <2>2. InRing' = InRing
    BY <1>13 DEF CloseLoop, InRing
  <2>3. RingIsNewest'
    BY <1>13, <2>2 DEF CloseLoop, RingIsNewest, EndsAt
  <2>4. StreamIsContiguous' /\ ShedInv' /\ ShedIsOldest'
    BY <1>13 DEF CloseLoop, StreamIsContiguous, ShedInv, ShedIsOldest, Live
  <2> QED BY <2>1, <2>3, <2>4
<1>14. CASE UNCHANGED cvars
  <2>1. LockInv' /\ SeqInv' /\ TodoInv' /\ FreshInv'
    BY <1>14 DEF cvars, LockInv, SeqInv, TodoInv, FreshInv, Live, InPush
  <2>2. InRing' = InRing /\ \A q \in Queues : Sent(q)' = Sent(q)
    BY <1>14 DEF cvars, InRing, Sent
  <2>3. RingIsNewest'
    BY <1>14, <2>2 DEF cvars, RingIsNewest, EndsAt
  <2>4. StreamIsContiguous' /\ ShedInv' /\ ShedIsOldest'
    BY <1>14, <2>2, StreamFrame DEF cvars, Live
  <2> QED BY <2>1, <2>3, <2>4
<1> QED
  BY <1>1, <1>2, <1>3, <1>4, <1>5, <1>6, <1>7, <1>8, <1>9, <1>10, <1>11,
     <1>12, <1>13, <1>14 DEF Next, Push

\* The initial state satisfies IInv.
LEMMA Initial == Init => IInv
<1> SUFFICES ASSUME Init
             PROVE  IInv
  OBVIOUS
<1>1. TypeOK
  BY CollectorAssumption, EmptySeq DEF Init, TypeOK, Steps, Event, Idle
<1>2. LockInv /\ SeqInv /\ TodoInv /\ FreshInv
  BY CollectorAssumption
  DEF Init, LockInv, SeqInv, TodoInv, FreshInv, Live, InPush
<1>3. RingIsNewest
  BY EmptySeq, CollectorAssumption DEF Init, RingIsNewest, EndsAt
<1>4. StreamIsContiguous /\ ShedInv /\ ShedIsOldest
  BY DEF Init, StreamIsContiguous, ShedInv, ShedIsOldest, Live
<1> QED BY <1>1, <1>2, <1>3, <1>4 DEF IInv

\* Every behaviour of the collector satisfies the inductive invariant.
LEMMA Invariance == Spec => []IInv
<1>1. Init => IInv
  BY Initial
<1>2. IInv /\ TypeOK' /\ [Next]_cvars => IInv'
  BY Inductive
<1> QED BY <1>1, <1>2, TypeCorrect, PTL DEF Spec

\* snapshot() always returns the newest events, in order and without a hole,
\* although it takes no lock (collector.py:40-41, 52-54).
THEOREM RingCorrect == Spec => []RingIsNewest
<1>1. IInv => RingIsNewest
  BY DEF IInv
<1> QED BY <1>1, Invariance, PTL

\* Deliveries are scheduled, and reach every queue, in seq order with nothing
\* missing but what an overflow dropped from the old end (collector.py:43-71).
THEOREM StreamCorrect == Spec => []StreamIsContiguous
<1>1. IInv => StreamIsContiguous
  BY DEF IInv
<1> QED BY <1>1, Invariance, PTL

\* What an overflow drops is older than everything the queue keeps
\* (collector.py:64-71).
THEOREM ShedCorrect == Spec => []ShedIsOldest
<1>1. IInv => ShedIsOldest
  BY DEF IInv
<1> QED BY <1>1, Invariance, PTL

-----------------------------------------------------------------------------
(* The stream *)

\* The loops of the tab: over the seqs of a frame, over the times of a backlog,
\* and over the events to buffer.
Noting == INSTANCE LeftFold WITH Op <- NoteSeq
Edging == INSTANCE LeftFold WITH Op <- Latest
Buffering == INSTANCE LeftFold WITH Op <- Buffered

\* Seen from the collector, every step of the stream is a step of the
\* collector or none at all (app.py:138-195 against collector.py).
LEMMA StepIsCollectorStep == SNext => [Next]_cvars
<1> SUFFICES ASSUME SNext
             PROVE  [Next]_cvars
  OBVIOUS
<1>1. ASSUME NEW th \in Threads, Emit(th)
      PROVE  [Next]_cvars
  BY <1>1 DEF Emit, Next
<1>2. ASSUME NEW q \in Queues, RunDeliver(q)
      PROVE  [Next]_cvars
  BY <1>2 DEF RunDeliver, Next
<1>3. ASSUME NEW q \in Queues, Open(q)
      PROVE  [Next]_cvars
  BY <1>3 DEF Open, Next
<1>4. ASSUME NEW q \in Queues, Finish(q)
      PROVE  [Next]_cvars
  BY <1>4 DEF Finish, Next
<1>5. ASSUME NEW q \in Queues, NEW n, Take(q, n)
      PROVE  [Next]_cvars
  <2>1. n \in 1 .. Len(queue[q])
    BY <1>5 DEF Take
  <2> QED BY <1>5, <2>1 DEF Next
<1>6. ASSUME NEW q \in Queues, Handler(q)
      PROVE  [Next]_cvars
  <2>1. CASE Drain(q)
    BY <2>1, <1>5 DEF Drain, cvars
  <2>2. CASE Open(q) \/ Finish(q)
    BY <2>2, <1>3, <1>4
  <2>3. CASE \/ AcceptFails(q) \/ Snapshot(q) \/ Send(q) \/ SendFails(q)
             \/ Wait(q) \/ LoopEnds(q) \/ Leave(q) \/ Wake(q)
    BY <2>3 DEF AcceptFails, Snapshot, Send, SendTo, SendFails, Wait, LoopEnds, Leave, Wake
  <2> QED BY <1>6, <2>1, <2>2, <2>3 DEF Handler
<1>7. ASSUME NEW q \in Queues, Get(q)
      PROVE  [Next]_cvars
  BY <1>5, <1>7 DEF Get
<1>8. ASSUME NEW q \in Queues, SeeDisconnect(q) \/ Connect(q) \/ Disconnect(q) \/ Receive(q)
      PROVE  [Next]_cvars
  BY <1>8 DEF SeeDisconnect, Connect, Disconnect, Receive
<1> QED BY <1>1, <1>2, <1>6, <1>7, <1>8 DEF SNext

\* The stream implements the collector's specification.
THEOREM StreamImplementsCollector == SSpec => Spec
<1>1. SInit => Init
  BY DEF SInit
<1>2. [SNext]_vars => [Next]_cvars
  <2>1. UNCHANGED vars => UNCHANGED cvars
    BY DEF vars
  <2> QED BY <2>1, StepIsCollectorStep
<1> QED BY <1>1, <1>2, PTL DEF SSpec, Spec

\* However many dashboards connect, disconnect and reconnect, each one's queue
\* and pending deliveries stay an unbroken run of seqs (collector.py:43-71).
THEOREM StreamStaysContiguous == SSpec => []StreamIsContiguous
BY StreamImplementsCollector, StreamCorrect, PTL

-----------------------------------------------------------------------------
(* The inductive invariant *)

\* The seqs of a sequence of events, in the order of their numbers, and all of
\* one set of numbers below all of another.
Seqs(s) == {s[i].seq : i \in 1 .. Len(s)}
Ascends(s) == \A i, j \in 1 .. Len(s) : i < j => s[i].seq < s[j].seq
Below(A, B) == \A a \in A, b \in B : a < b

\* The numbers that H passes over.
Gaps(H) == {s \in Nat : s \notin H /\ (\E h \in H : h < s) /\ (\E h \in H : s < h)}

\* Where a handler is, for what it holds and how its connection stands.
PhaseInv ==
  /\ loopOpen
  /\ \A q \in Queues :
       /\ tab = q <=> conn[q] = "open"
       /\ conn[q] = "new" <=> hpc[q] = "none"
       /\ hpc[q] \in {"none", "accept"} => sub[q] = "new"
       /\ hpc[q] \in {"subscribed", "backlog", "loop", "wait", "send", "sleep", "final"}
            => sub[q] = "live"
       /\ hpc[q] = "gone" => sub[q] # "live"
       /\ slice = q <=> hpc[q] = "subscribed"
       /\ reader[q] \/ hpc[q] \in {"final", "gone"} => conn[q] = "closed"
       /\ getter[q] # "none" <=> hpc[q] = "wait"
       /\ hpc[q] \notin {"backlog", "send"} /\ getter[q] # "done" => batch[q] = <<>>
       /\ conn[q] # "open" => wire[q] = <<>>

\* The first frame of a connection is its backlog.
FirstInv ==
  \A q \in Queues : tab = q =>
    /\ hpc[q] \in {"accept", "subscribed", "backlog"} => ~ view.saw /\ wire[q] = <<>>
    /\ hpc[q] \notin {"accept", "subscribed", "backlog"} => view.saw \/ wire[q] # <<>>
    /\ ~ view.saw => heard = {}

\* What a sequence of frames carries from its frame b on, and that it carries
\* it in order.
Carried(w, b) == UNION {Seqs(w[i]) : i \in b .. Len(w)}
Tidy(w, b) ==
  /\ \A i \in b .. Len(w) : Ascends(w[i])
  /\ \A i, j \in b .. Len(w) : i < j => Below(Seqs(w[i]), Seqs(w[j]))

\* What is under way to the tab once it has left the queue: in frames on the
\* wire, the backlog apart, and in the hands of the handler.
FirstLive == IF view.saw THEN 1 ELSE 2
OnWire(q) == Carried(wire[q], FirstLive)
InHand(q) == IF hpc[q] = "backlog" THEN {} ELSE Seqs(batch[q])
Known(q) == heard \cup OnWire(q) \cup InHand(q)

\* The newest event that has left the queue of q, one way or the other.
Frontier(q) == Sent(q) - Len(ready[q]) - Len(queue[q])

\* It is under way in order.
Order(q) ==
  /\ Tidy(wire[q], FirstLive)
  /\ hpc[q] # "backlog" => Ascends(batch[q])
  /\ Below(heard, OnWire(q)) /\ Below(heard, InHand(q)) /\ Below(OnWire(q), InHand(q))

\* Of the numbers up to f, nothing after the first known one is missing that was
\* not shed, and nothing shed is known.
Unbroken(known, f, lost) ==
  /\ f \in Nat /\ known \subseteq 1 .. f
  /\ \A s \in 1 .. f : (\E h \in known : h < s) => s \in known \cup lost
  /\ known \cap lost = {}

Line(q) ==
  IF hpc[q] = "accept" THEN Known(q) = {} ELSE Unbroken(Known(q), Frontier(q), shed[q])

\* What is buffered for playback is older than anything under way.
Pend(q) ==
  /\ hpc[q] # "accept" => \A s \in Seqs(pending) : s <= Frontier(q)
  /\ Below(Seqs(pending), OnWire(q) \cup InHand(q))

LineInv == \A q \in Queues : tab = q => Order(q) /\ Line(q) /\ Pend(q)

PendInv == Ascends(pending) /\ \A s \in Seqs(pending) : s <= seq

\* The tab's counters are those of what it has heard.
Notes(v, H) ==
  /\ H = {} => v.last = 0
  /\ H # {} => v.last \in H /\ v.last > 0 /\ \A h \in H : h <= v.last
  /\ v.dropped - v.droppedBefore = Cardinality(Gaps(H))

CountInv == Notes(view, heard)


-----------------------------------------------------------------------------
(* What the tab's loops compute *)

ViewType == [saw : BOOLEAN, baseline : Int, last : Nat, dropped : Nat, droppedBefore : Nat,
             edge : Nat]

\* The seqs of the first k events of s.
FirstSeqs(s, k) == {s[i].seq : i \in 1 .. k}

\* An event of a sequence is an event.
LEMMA ElementIsEvent ==
  ASSUME NEW s \in Seq(Event), NEW k \in 1 .. Len(s)
  PROVE  s[k] \in Event /\ s[k].seq \in Nat /\ s[k].t \in Int
<1>1. s[k] \in Event
  BY ElementOfSeq
<1> QED BY <1>1 DEF Event

\* The tab's counters stay what they are when two of them change.
LEMMA ViewChanged ==
  ASSUME NEW v \in ViewType, NEW a \in Nat, NEW b \in Nat
  PROVE  [v EXCEPT !.dropped = a, !.last = b] \in ViewType
BY DEF ViewType

\* noteSeq() is called for one event of a frame after the other.
LEMMA NotingTrail ==
  ASSUME NEW s \in Seq(Event), NEW v
  PROVE  \E f : /\ f[0] = v
                /\ \A k \in 1 .. Len(s) : f[k] = NoteSeq(f[k - 1], s[k])
                /\ FoldLeft(NoteSeq, v, s) = f[Len(s)]
<1>1. Len(s) \in Nat /\ DOMAIN s = 1 .. Len(s)
  OBVIOUS
<1>2. FoldLeft(NoteSeq, v, s) = Noting!Folded(v, s, 1 .. Len(s))
  BY <1>1 DEF FoldLeft, MapThenFoldSet, Max, Noting!Folded, Noting!IsFold, Noting!Top
<1>3. \E f : Noting!IsTrail(f, v, s, Len(s)) /\ Noting!Folded(v, s, 1 .. Len(s)) = f[Len(s)]
  BY <1>1, Noting!FoldHasTrail
<1> QED BY <1>2, <1>3 DEF Noting!IsTrail

\* The live edge is taken over one event of the backlog after the other.
LEMMA EdgingTrail ==
  ASSUME NEW s \in Seq(Event), NEW v
  PROVE  \E f : /\ f[0] = v
                /\ \A k \in 1 .. Len(s) : f[k] = Latest(f[k - 1], s[k])
                /\ FoldLeft(Latest, v, s) = f[Len(s)]
<1>1. Len(s) \in Nat /\ DOMAIN s = 1 .. Len(s)
  OBVIOUS
<1>2. FoldLeft(Latest, v, s) = Edging!Folded(v, s, 1 .. Len(s))
  BY <1>1 DEF FoldLeft, MapThenFoldSet, Max, Edging!Folded, Edging!IsFold, Edging!Top
<1>3. \E f : Edging!IsTrail(f, v, s, Len(s)) /\ Edging!Folded(v, s, 1 .. Len(s)) = f[Len(s)]
  BY <1>1, Edging!FoldHasTrail
<1> QED BY <1>2, <1>3 DEF Edging!IsTrail

\* bufferEvents() goes over one event of a frame after the other.
LEMMA BufferingTrail ==
  ASSUME NEW s \in Seq(Event), NEW v
  PROVE  \E f : /\ f[0] = v
                /\ \A k \in 1 .. Len(s) : f[k] = Buffered(f[k - 1], s[k])
                /\ FoldLeft(Buffered, v, s) = f[Len(s)]
<1>1. Len(s) \in Nat /\ DOMAIN s = 1 .. Len(s)
  OBVIOUS
<1>2. FoldLeft(Buffered, v, s) = Buffering!Folded(v, s, 1 .. Len(s))
  BY <1>1 DEF FoldLeft, MapThenFoldSet, Max, Buffering!Folded, Buffering!IsFold, Buffering!Top
<1>3. \E f : Buffering!IsTrail(f, v, s, Len(s))
             /\ Buffering!Folded(v, s, 1 .. Len(s)) = f[Len(s)]
  BY <1>1, Buffering!FoldHasTrail
<1> QED BY <1>2, <1>3 DEF Buffering!IsTrail

\* The numbers passed over are finitely many if there is a greatest one heard.
LEMMA GapsFinite ==
  ASSUME NEW H \in SUBSET Nat, NEW m \in Nat, \A h \in H : h <= m
  PROVE  IsFiniteSet(Gaps(H)) /\ Cardinality(Gaps(H)) \in Nat
<1>1. Gaps(H) \in SUBSET Nat /\ \A s \in Gaps(H) : s <= m
  BY DEF Gaps
<1> QED BY <1>1, FS_BoundedSetOfNaturals, FS_CardinalityType

\* Hearing a number above all others passes over those in between.
LEMMA GapsGrow ==
  ASSUME NEW H \in SUBSET Nat, NEW n \in Nat, NEW m \in H, m < n, \A h \in H : h <= m
  PROVE  Cardinality(Gaps(H \cup {n})) = Cardinality(Gaps(H)) + (n - m - 1)
<1>1. m \in Nat /\ m + 1 \in Int /\ n - 1 \in Int
  OBVIOUS
<1>2. ASSUME NEW s \in Gaps(H \cup {n})
      PROVE  s \in Gaps(H) \cup (m + 1 .. n - 1)
  <2>1. s \in Nat /\ s \notin H /\ s # n
    BY DEF Gaps
  <2>2. PICK lo \in H \cup {n}, hi \in H \cup {n} : lo < s /\ s < hi
    BY DEF Gaps
  <2>3. s < n
    BY <2>1, <2>2
  <2>4. lo \in H
    BY <2>1, <2>2, <2>3
  <2>5. CASE s > m
    BY <1>1, <2>1, <2>3, <2>5
  <2>6. CASE ~ (s > m)
    BY <2>1, <2>2, <2>4, <2>6 DEF Gaps
  <2> QED BY <2>5, <2>6
<1>3. ASSUME NEW s \in Gaps(H)
      PROVE  s \in Gaps(H \cup {n})
  BY DEF Gaps
<1>4. ASSUME NEW s \in m + 1 .. n - 1
      PROVE  s \in Gaps(H \cup {n})
  <2>1. s \in Nat /\ s # n /\ m < s /\ s < n
    BY <1>1
  <2>2. s \notin H
    BY <2>1
  <2> QED BY <2>1, <2>2 DEF Gaps
<1>5. Gaps(H \cup {n}) = Gaps(H) \cup (m + 1 .. n - 1)
  BY <1>2, <1>3, <1>4
<1>6. Gaps(H) \cap (m + 1 .. n - 1) = {}
  BY DEF Gaps
<1>7. IsFiniteSet(Gaps(H)) /\ Cardinality(Gaps(H)) \in Nat
  BY <1>1, GapsFinite
<1>8. IsFiniteSet(m + 1 .. n - 1) /\ Cardinality(m + 1 .. n - 1) = n - m - 1
  <2>1. m + 1 > n - 1 => n - m - 1 = 0
    BY <1>1
  <2>2. (n - 1) - (m + 1) + 1 = n - m - 1
    BY <1>1
  <2> QED BY <1>1, <2>1, <2>2, FS_Interval
<1>9. Cardinality(Gaps(H) \cup (m + 1 .. n - 1)) =
        Cardinality(Gaps(H)) + Cardinality(m + 1 .. n - 1) - Cardinality({})
  BY <1>6, <1>7, <1>8, FS_Union
<1>10. Cardinality({}) = 0
  BY FS_EmptySet
<1> DEFINE a == Cardinality(Gaps(H))
           b == Cardinality(m + 1 .. n - 1)
           c == Cardinality(Gaps(H \cup {n}))
<1>11. a \in Nat /\ b = n - m - 1 /\ c = a + b - 0
  BY <1>5, <1>7, <1>8, <1>9, <1>10
<1> HIDE DEF a, b, c
<1>12. c = a + (n - m - 1)
  BY <1>1, <1>11
<1> QED BY <1>12 DEF a, c

\* noteSeq() counts what it passes over, for an event newer than all before.
LEMMA NotesOne ==
  ASSUME NEW v \in ViewType, NEW H \in SUBSET Nat, Notes(v, H),
         NEW e \in Event, e.seq > 0, \A h \in H : h < e.seq
  PROVE  /\ NoteSeq(v, e) \in ViewType
         /\ Notes(NoteSeq(v, e), H \cup {e.seq})
         /\ NoteSeq(v, e).saw = v.saw
         /\ NoteSeq(v, e).droppedBefore = v.droppedBefore
<1> DEFINE w == NoteSeq(v, e)
<1>1. e.seq \in Nat
  BY DEF Event
<1>2. /\ v.last \in Nat /\ v.dropped \in Nat /\ v.droppedBefore \in Nat /\ v.saw \in BOOLEAN
      /\ v.baseline \in Int /\ v.edge \in Nat
  BY DEF ViewType
<1>3. v.last = 0 \/ e.seq > v.last
  BY DEF Notes
<1>4. /\ w.dropped = IF v.last # 0 /\ e.seq > v.last + 1
                     THEN v.dropped + e.seq - v.last - 1 ELSE v.dropped
      /\ w.last = e.seq
      /\ w.droppedBefore = v.droppedBefore /\ w.saw = v.saw
      /\ w.baseline = v.baseline /\ w.edge = v.edge
  BY <1>3 DEF NoteSeq, ViewType
<1>5. w = [v EXCEPT !.dropped = w.dropped, !.last = w.last]
  BY DEF NoteSeq, ViewType
<1> HIDE DEF w
<1>6. w.dropped \in Nat
  BY <1>1, <1>2, <1>4
<1>7. w \in ViewType
  <2>1. \E a, b \in Nat : w = [v EXCEPT !.dropped = a, !.last = b]
    BY <1>1, <1>4, <1>5, <1>6
  <2> QED BY <2>1, ViewChanged
<1>8. w.dropped - w.droppedBefore = Cardinality(Gaps(H \cup {e.seq}))
  <2>1. CASE H = {}
    <3>1. Gaps(H) = {} /\ Gaps(H \cup {e.seq}) = {}
      BY <1>1, <2>1 DEF Gaps
    <3> QED BY <1>4, <2>1, <3>1 DEF Notes
  <2>2. CASE H # {}
    <3>1. v.last \in H /\ v.last > 0 /\ \A h \in H : h <= v.last
      BY <2>2 DEF Notes
    <3>2. v.dropped - v.droppedBefore = Cardinality(Gaps(H))
      BY DEF Notes
    <3>3. Cardinality(Gaps(H \cup {e.seq})) = Cardinality(Gaps(H)) + (e.seq - v.last - 1)
      BY <1>1, <3>1, GapsGrow
    <3>4. w.dropped = v.dropped + (e.seq - v.last - 1)
      BY <1>1, <1>2, <1>4, <3>1
    <3>5. Cardinality(Gaps(H)) \in Int
      BY <1>2, <3>2
    <3> QED BY <1>1, <1>2, <1>4, <3>2, <3>3, <3>4, <3>5
  <2> QED BY <2>1, <2>2
<1>9. Notes(w, H \cup {e.seq})
  BY <1>1, <1>4, <1>8 DEF Notes
<1> QED BY <1>4, <1>7, <1>9 DEF w

\* And so it does for a whole frame.
LEMMA NotesAll ==
  ASSUME NEW v \in ViewType, NEW H \in SUBSET Nat, Notes(v, H),
         NEW s \in Seq(Event), Ascends(s), Below(H, Seqs(s)), \A n \in Seqs(s) : n > 0
  PROVE  /\ FoldLeft(NoteSeq, v, s) \in ViewType
         /\ Notes(FoldLeft(NoteSeq, v, s), H \cup Seqs(s))
         /\ FoldLeft(NoteSeq, v, s).saw = v.saw
         /\ FoldLeft(NoteSeq, v, s).droppedBefore = v.droppedBefore
<1>1. PICK f : /\ f[0] = v
               /\ \A k \in 1 .. Len(s) : f[k] = NoteSeq(f[k - 1], s[k])
               /\ FoldLeft(NoteSeq, v, s) = f[Len(s)]
  BY NotingTrail
<1> DEFINE Ok(k) == /\ f[k] \in ViewType
                    /\ Notes(f[k], H \cup FirstSeqs(s, k))
                    /\ f[k].saw = v.saw
                    /\ f[k].droppedBefore = v.droppedBefore
           U == {k \in 0 .. Len(s) : Ok(k)}
<1>2. Len(s) \in Nat
  OBVIOUS
<1>3. 0 \in U
  <2>1. FirstSeqs(s, 0) = {}
    BY DEF FirstSeqs
  <2>2. H \cup FirstSeqs(s, 0) = H
    BY <2>1
  <2>3. Ok(0)
    BY <1>1, <2>2
  <2> HIDE DEF Ok
  <2> QED BY <1>2, <2>3
<1>4. ASSUME NEW k \in 1 .. Len(s), k - 1 \in U
      PROVE  k \in U
  <2> DEFINE K == H \cup FirstSeqs(s, k - 1)
  <2>1. s[k] \in Event /\ s[k].seq \in Nat
    BY ElementIsEvent
  <2>2. \A i \in 1 .. k - 1 : s[i].seq < s[k].seq
    BY <1>2 DEF Ascends
  <2>3. s[k].seq \in Seqs(s)
    BY DEF Seqs
  <2>4. s[k].seq > 0 /\ \A h \in K : h < s[k].seq
    BY <2>2, <2>3 DEF FirstSeqs, Below
  <2>5. \A i \in 1 .. k - 1 : s[i] \in Event
    BY <1>2
  <2>6. K \in SUBSET Nat
    BY <2>5 DEF FirstSeqs, Event
  <2>7. Ok(k - 1)
    BY <1>4
  <2>8. f[k] = NoteSeq(f[k - 1], s[k])
    BY <1>1
  <2>9. K \cup {s[k].seq} = H \cup FirstSeqs(s, k)
    <3>1. 1 .. k = (1 .. k - 1) \cup {k}
      BY <1>2
    <3> QED BY <3>1 DEF FirstSeqs
  <2>10. /\ NoteSeq(f[k - 1], s[k]) \in ViewType
         /\ Notes(NoteSeq(f[k - 1], s[k]), K \cup {s[k].seq})
         /\ NoteSeq(f[k - 1], s[k]).saw = f[k - 1].saw
         /\ NoteSeq(f[k - 1], s[k]).droppedBefore = f[k - 1].droppedBefore
    <3> HIDE DEF K
    <3>1. Notes(f[k - 1], K)
      BY <2>7 DEF K
    <3> QED BY <2>1, <2>4, <2>6, <2>7, <3>1, NotesOne
  <2>11. Ok(k)
    <3> HIDE DEF K
    <3> QED BY <2>7, <2>8, <2>9, <2>10
  <2> HIDE DEF Ok
  <2> QED BY <1>2, <2>11
<1>5. \A k \in 0 .. Len(s) : k \in U
  <2> HIDE DEF U
  <2> QED BY <1>2, <1>3, <1>4, Noting!Induction
<1>6. Ok(Len(s))
  <2>1. Len(s) \in 0 .. Len(s)
    BY <1>2
  <2>2. Len(s) \in U
    BY <1>5, <2>1
  <2> HIDE DEF Ok
  <2> QED BY <2>2
<1>7. FirstSeqs(s, Len(s)) = Seqs(s)
  BY DEF FirstSeqs, Seqs
<1> QED BY <1>1, <1>6, <1>7

\* The live edge is a time.
LEMMA EdgeType ==
  ASSUME NEW t \in Int, NEW s \in Seq(Event)
  PROVE  FoldLeft(Latest, t, s) \in Int
<1>1. PICK f : /\ f[0] = t
               /\ \A k \in 1 .. Len(s) : f[k] = Latest(f[k - 1], s[k])
               /\ FoldLeft(Latest, t, s) = f[Len(s)]
  BY EdgingTrail
<1> DEFINE U == {k \in 0 .. Len(s) : f[k] \in Int}
<1>2. Len(s) \in Nat
  OBVIOUS
<1>3. 0 \in U
  BY <1>1, <1>2
<1>4. ASSUME NEW k \in 1 .. Len(s), k - 1 \in U
      PROVE  k \in U
  <2>1. s[k].t \in Int
    BY ElementIsEvent
  <2>2. f[k - 1] \in Int /\ f[k] = Latest(f[k - 1], s[k])
    BY <1>1, <1>4
  <2>3. f[k] \in Int
    BY <2>1, <2>2 DEF Latest
  <2> QED BY <1>2, <2>3
<1>5. \A k \in 0 .. Len(s) : k \in U
  <2> HIDE DEF U
  <2> QED BY <1>2, <1>3, <1>4, Noting!Induction
<1> QED BY <1>1, <1>2, <1>5

\* What is buffered of a frame comes after what was buffered before, in order.
LEMMA BufferedAll ==
  ASSUME NEW p \in Seq(Event), NEW s \in Seq(Event)
  PROVE  /\ FoldLeft(Buffered, p, s) \in Seq(Event)
         /\ Seqs(FoldLeft(Buffered, p, s)) \subseteq Seqs(p) \cup Seqs(s)
         /\ Ascends(p) /\ Ascends(s) /\ Below(Seqs(p), Seqs(s))
              => Ascends(FoldLeft(Buffered, p, s))
<1>1. PICK f : /\ f[0] = p
               /\ \A k \in 1 .. Len(s) : f[k] = Buffered(f[k - 1], s[k])
               /\ FoldLeft(Buffered, p, s) = f[Len(s)]
  BY BufferingTrail
<1> DEFINE Orderly == Ascends(p) /\ Ascends(s) /\ Below(Seqs(p), Seqs(s))
           Ok(k) == /\ f[k] \in Seq(Event)
                    /\ Seqs(f[k]) \subseteq Seqs(p) \cup FirstSeqs(s, k)
                    /\ Orderly => Ascends(f[k])
           U == {k \in 0 .. Len(s) : Ok(k)}
<1>2. Len(s) \in Nat
  OBVIOUS
<1>3. 0 \in U
  <2>1. Ok(0)
    BY <1>1
  <2> HIDE DEF Ok
  <2> QED BY <1>2, <2>1
<1>4. ASSUME NEW k \in 1 .. Len(s), k - 1 \in U
      PROVE  k \in U
  <2> DEFINE g == f[k - 1]
             e == s[k]
  <2>1. e \in Event /\ e.seq \in Nat
    BY ElementIsEvent
  <2>2. FirstSeqs(s, k) = FirstSeqs(s, k - 1) \cup {e.seq}
    <3>1. 1 .. k = (1 .. k - 1) \cup {k}
      BY <1>2
    <3> QED BY <3>1 DEF FirstSeqs
  <2>3. Ok(k - 1)
    BY <1>4
  <2>4. f[k] = g \/ f[k] = Append(g, e)
    BY <1>1 DEF Buffered
  <2>5. CASE f[k] = g
    <3>1. Ok(k)
      BY <2>2, <2>3, <2>5
    <3> HIDE DEF Ok
    <3> QED BY <1>2, <3>1
  <2>6. CASE f[k] = Append(g, e)
    <3>1. Orderly => \A n \in Seqs(p) \cup FirstSeqs(s, k - 1) : n < e.seq
      <4>1. e.seq \in Seqs(s)
        BY DEF Seqs
      <4>2. Orderly => \A i \in 1 .. k - 1 : s[i].seq < e.seq
        BY <1>2 DEF Ascends
      <4> QED BY <4>1, <4>2 DEF FirstSeqs, Below
    <3> HIDE DEF e, g
    <3>2. g \in Seq(Event) /\ Seqs(g) \subseteq Seqs(p) \cup FirstSeqs(s, k - 1)
          /\ (Orderly => Ascends(g))
      BY <2>3 DEF g
    <3> HIDE DEF Orderly
    <3>3. /\ f[k] \in Seq(Event) /\ Len(f[k]) = Len(g) + 1 /\ Len(g) \in Nat
          /\ f[k][Len(g) + 1] = e
          /\ \A i \in 1 .. Len(g) : f[k][i] = g[i]
      BY <2>1, <2>6, <3>2, AppendProperties
    <3>4. Seqs(f[k]) \subseteq Seqs(g) \cup {e.seq}
      BY <3>3 DEF Seqs
    <3>5. \A i \in 1 .. Len(g) : g[i].seq \in Seqs(g)
      BY DEF Seqs
    <3>6. ASSUME Orderly PROVE Ascends(f[k])
      <4> SUFFICES ASSUME NEW i \in 1 .. Len(f[k]), NEW j \in 1 .. Len(f[k]), i < j
                   PROVE  f[k][i].seq < f[k][j].seq
        BY DEF Ascends
      <4>1. i \in 1 .. Len(g)
        BY <3>3
      <4>2. CASE j = Len(g) + 1
        BY <3>1, <3>2, <3>3, <3>5, <3>6, <4>1, <4>2
      <4>3. CASE j \in 1 .. Len(g)
        BY <3>2, <3>3, <3>6, <4>1, <4>3 DEF Ascends
      <4> QED BY <3>3, <4>2, <4>3
    <3>7. Ok(k)
      BY <2>2, <3>2, <3>3, <3>4, <3>6
    <3> HIDE DEF Ok
    <3> QED BY <1>2, <3>7
  <2> QED BY <2>4, <2>5, <2>6
<1>5. \A k \in 0 .. Len(s) : k \in U
  <2> HIDE DEF U
  <2> QED BY <1>2, <1>3, <1>4, Noting!Induction
<1>6. Ok(Len(s))
  <2>1. Len(s) \in 0 .. Len(s)
    BY <1>2
  <2>2. Len(s) \in U
    BY <1>5, <2>1
  <2> HIDE DEF Ok
  <2> QED BY <2>2
<1>7. FirstSeqs(s, Len(s)) = Seqs(s)
  BY DEF FirstSeqs, Seqs
<1> QED BY <1>1, <1>6, <1>7

\* Whatever the frame, the tab's counters keep their types.
LEMMA NotedType ==
  ASSUME NEW v \in ViewType, NEW s \in Seq(Event)
  PROVE  FoldLeft(NoteSeq, v, s) \in ViewType /\ FoldLeft(NoteSeq, v, s).saw = v.saw
<1>1. PICK f : /\ f[0] = v
               /\ \A k \in 1 .. Len(s) : f[k] = NoteSeq(f[k - 1], s[k])
               /\ FoldLeft(NoteSeq, v, s) = f[Len(s)]
  BY NotingTrail
<1> DEFINE U == {k \in 0 .. Len(s) : f[k] \in ViewType /\ f[k].saw = v.saw}
<1>2. Len(s) \in Nat
  OBVIOUS
<1>3. 0 \in U
  BY <1>1, <1>2
<1>4. ASSUME NEW k \in 1 .. Len(s), k - 1 \in U
      PROVE  k \in U
  <2>1. s[k].seq \in Nat
    BY ElementIsEvent
  <2> DEFINE u == f[k - 1]
  <2>2. u \in ViewType /\ u.saw = v.saw /\ f[k] = NoteSeq(u, s[k])
    BY <1>1, <1>4
  <2> HIDE DEF u
  <2>3. u.last \in Nat /\ u.dropped \in Nat
    BY <2>2 DEF ViewType
  <2> DEFINE a == IF u.last # 0 /\ s[k].seq > u.last + 1
                  THEN u.dropped + s[k].seq - u.last - 1 ELSE u.dropped
             b == IF u.last = 0 \/ s[k].seq > u.last THEN s[k].seq ELSE u.last
  <2>4. a \in Nat /\ b \in Nat
    BY <2>1, <2>3
  <2>5. NoteSeq(u, s[k]) = [u EXCEPT !.dropped = a, !.last = b]
    BY DEF NoteSeq
  <2> HIDE DEF a, b
  <2>6. [u EXCEPT !.dropped = a, !.last = b] \in ViewType
    BY <2>2, <2>4, ViewChanged
  <2>7. f[k] \in ViewType /\ f[k].saw = v.saw
    <3>1. [u EXCEPT !.dropped = a, !.last = b].saw = u.saw
      BY <2>2 DEF ViewType
    <3> QED BY <2>2, <2>5, <2>6, <3>1
  <2> QED BY <1>2, <2>7
<1>5. \A k \in 0 .. Len(s) : k \in U
  <2> HIDE DEF U
  <2> QED BY <1>2, <1>3, <1>4, Noting!Induction
<1>6. Len(s) \in 0 .. Len(s)
  BY <1>2
<1> QED BY <1>1, <1>5, <1>6

-----------------------------------------------------------------------------
(* Types and phases *)

\* The part of StreamTypeOK that is not the collector's.
TabTypeOK ==
  /\ conn \in [Queues -> {"new", "open", "closed"}]
  /\ hpc \in [Queues -> {"none", "accept", "subscribed", "backlog", "loop", "wait",
                         "send", "sleep", "final", "gone"}]
  /\ reader \in [Queues -> BOOLEAN]
  /\ getter \in [Queues -> {"none", "waiting", "done"}]
  /\ batch \in [Queues -> Seq(Event)]
  /\ wire \in [Queues -> Seq(Seq(Event))]
  /\ slice \in Queues \cup {NoQueue}
  /\ tab \in Queues \cup {NoQueue}
  /\ view \in ViewType
  /\ pending \in Seq(Event)
  /\ heard \in SUBSET Nat

\* A queue that is taken from is left shorter, and what is taken are events.
LEMMA HandlerTypes ==
  ASSUME TypeOK, TabTypeOK, NEW q \in Queues, Handler(q)
  PROVE  TabTypeOK'
<1>1. CASE Open(q) \/ AcceptFails(q) \/ Wait(q) \/ LoopEnds(q) \/ Leave(q) \/ Wake(q) \/ Finish(q)
  BY <1>1 DEF Open, AcceptFails, Wait, LoopEnds, Leave, Wake, Finish, At, TabTypeOK, tvars
<1>2. CASE Snapshot(q)
  BY <1>2 DEF Snapshot, At, TabTypeOK, tvars, TypeOK
<1>3. ASSUME NEW from, NEW to \in {"loop", "sleep"}, SendTo(q, from, to)
      PROVE  TabTypeOK'
  <2>1. Append(wire[q], batch[q]) \in Seq(Seq(Event)) /\ <<>> \in Seq(Event)
    BY AppendProperties, EmptySeq DEF TabTypeOK
  <2> QED BY <1>3, <2>1 DEF SendTo, At, TabTypeOK, tvars
<1>4. CASE SendFails(q)
  <2>1. <<>> \in Seq(Event)
    BY EmptySeq
  <2> QED BY <1>4, <2>1 DEF SendFails, At, TabTypeOK, tvars
<1>5. CASE Drain(q)
  <2>1. batch[q] \o queue[q] \in Seq(Event)
    BY ConcatProperties DEF TabTypeOK, TypeOK
  <2> QED BY <1>5, <2>1 DEF Drain, At, TabTypeOK, tvars
<1> QED BY <1>1, <1>2, <1>3, <1>4, <1>5 DEF Handler, Send

\* What the tab receives are frames of events.
LEMMA ReceiveTypes ==
  ASSUME TypeOK, TabTypeOK, NEW q \in Queues, Receive(q)
  PROVE  /\ TabTypeOK'
         /\ Head(wire[q]) \in Seq(Event)
<1>1. wire[q] \in Seq(Seq(Event)) /\ wire[q] # <<>>
  BY DEF Receive, TabTypeOK
<1>2. Head(wire[q]) \in Seq(Event) /\ Tail(wire[q]) \in Seq(Seq(Event))
  BY <1>1, HeadTailProperties
<1> DEFINE frame == Head(wire[q])
<1>3. view' \in ViewType /\ pending' \in Seq(Event) /\ heard' \in SUBSET Nat
  <2>1. CASE ~ view.saw
    <3>1. FoldLeft(Latest, view.baseline, frame) \in Int
      BY <1>2, EdgeType DEF TabTypeOK, ViewType
    <3>2. (IF frame = <<>> THEN 0 ELSE Last(frame).seq) \in Nat
      <4> HIDE DEF frame
      <4>1. frame # <<>> => Len(frame) \in 1 .. Len(frame)
        BY <1>2, EmptySeq, LenProperties DEF frame
      <4> QED BY <1>2, <4>1, ElementIsEvent DEF Last, frame
    <3> HIDE DEF frame
    <3>3. view' = [view EXCEPT !.saw = TRUE,
                               !.baseline = FoldLeft(Latest, view.baseline, frame),
                               !.edge = IF frame = <<>> THEN 0 ELSE Last(frame).seq]
          /\ pending' = pending /\ heard' = heard
      BY <2>1 DEF Receive, FirstFrame, frame
    <3> QED BY <3>1, <3>2, <3>3 DEF TabTypeOK, ViewType
  <2>2. CASE view.saw
    <3>1. /\ view' = FoldLeft(NoteSeq, view, frame)
          /\ heard' = heard \cup {e.seq : e \in ToSet(frame)}
          /\ pending' = FoldLeft(Buffered, pending, frame)
      BY <2>2 DEF Receive, NextFrame
    <3>2. {e.seq : e \in ToSet(frame)} \in SUBSET Nat
      BY <1>2, ElementIsEvent DEF ToSet
    <3>3. pending' \in Seq(Event)
      BY <1>2, <3>1, BufferedAll DEF TabTypeOK
    <3>4. view' \in ViewType
      BY <1>2, <3>1, NotedType DEF TabTypeOK
    <3> QED BY <3>1, <3>2, <3>3, <3>4 DEF TabTypeOK
  <2> QED BY <2>1, <2>2 DEF TabTypeOK, ViewType
<1>4. TabTypeOK'
  BY <1>2, <1>3 DEF Receive, TabTypeOK
<1> QED BY <1>2, <1>4

\* Every step keeps the types.
LEMMA StepTabTypes ==
  ASSUME TypeOK, TabTypeOK, [SNext]_vars
  PROVE  TabTypeOK'
<1>1. ASSUME NEW th \in Threads, Emit(th)
      PROVE  TabTypeOK'
  BY <1>1 DEF Emit, TabTypeOK, hvars, tvars
<1>2. ASSUME NEW q \in Queues, RunDeliver(q)
      PROVE  TabTypeOK'
  BY <1>2 DEF RunDeliver, TabTypeOK, hvars, tvars
<1>3. ASSUME NEW q \in Queues, Handler(q)
      PROVE  TabTypeOK'
  BY <1>3, HandlerTypes
<1>4. ASSUME NEW q \in Queues, Get(q)
      PROVE  TabTypeOK'
  <2>1. <<Head(queue[q])>> \in Seq(Event)
    BY <1>4, HeadTailProperties DEF Get, TypeOK
  <2> QED BY <1>4, <2>1 DEF Get, TabTypeOK, tvars
<1>5. ASSUME NEW q \in Queues, SeeDisconnect(q)
      PROVE  TabTypeOK'
  BY <1>5 DEF SeeDisconnect, TabTypeOK, tvars
<1>6. ASSUME NEW q \in Queues, Connect(q)
      PROVE  TabTypeOK'
  <2>1. Fresh(view.dropped) \in ViewType
    BY CollectorAssumption DEF Fresh, TabTypeOK, ViewType
  <2> QED BY <1>6, <2>1 DEF Connect, TabTypeOK
<1>7. ASSUME NEW q \in Queues, Disconnect(q)
      PROVE  TabTypeOK'
  <2>1. <<>> \in Seq(Seq(Event))
    BY EmptySeq
  <2> QED BY <1>7, <2>1 DEF Disconnect, TabTypeOK
<1>8. ASSUME NEW q \in Queues, Receive(q)
      PROVE  TabTypeOK'
  BY <1>8, ReceiveTypes
<1>9. CASE UNCHANGED vars
  BY <1>9 DEF vars, hvars, tvars, TabTypeOK
<1> QED BY <1>1, <1>2, <1>3, <1>4, <1>5, <1>6, <1>7, <1>8, <1>9 DEF SNext

\* Every variable of the stream keeps its type.
THEOREM StreamTypeCorrect == SSpec => []StreamTypeOK
<1>1. SInit => TabTypeOK
  <2> SUFFICES ASSUME SInit PROVE TabTypeOK
    OBVIOUS
  <2>1. <<>> \in Seq(Event) /\ <<>> \in Seq(Seq(Event))
    BY EmptySeq
  <2>2. Fresh(0) \in ViewType
    BY CollectorAssumption DEF Fresh, ViewType
  <2> QED BY <2>1, <2>2 DEF SInit, TabTypeOK
<1>2. TypeOK /\ TabTypeOK /\ [SNext]_vars => TabTypeOK'
  BY StepTabTypes
<1>3. TypeOK /\ TabTypeOK => StreamTypeOK
  BY DEF StreamTypeOK, TabTypeOK, ViewType
<1> QED BY <1>1, <1>2, <1>3, StreamImplementsCollector, TypeCorrect, PTL DEF SSpec

\* The phase of one connection.
Phase(q) ==
  /\ tab = q <=> conn[q] = "open"
  /\ conn[q] = "new" <=> hpc[q] = "none"
  /\ hpc[q] \in {"none", "accept"} => sub[q] = "new"
  /\ hpc[q] \in {"subscribed", "backlog", "loop", "wait", "send", "sleep", "final"}
       => sub[q] = "live"
  /\ hpc[q] = "gone" => sub[q] # "live"
  /\ slice = q <=> hpc[q] = "subscribed"
  /\ reader[q] \/ hpc[q] \in {"final", "gone"} => conn[q] = "closed"
  /\ getter[q] # "none" <=> hpc[q] = "wait"
  /\ hpc[q] \notin {"backlog", "send"} /\ getter[q] # "done" => batch[q] = <<>>
  /\ conn[q] # "open" => wire[q] = <<>>

\* Nothing is known of a connection before its first frame, which is sent when
\* the handler enters its loop.
First(q) ==
  tab = q =>
    /\ hpc[q] \in {"accept", "subscribed", "backlog"} => ~ view.saw /\ wire[q] = <<>>
    /\ hpc[q] \notin {"accept", "subscribed", "backlog"} => view.saw \/ wire[q] # <<>>
    /\ ~ view.saw => heard = {}

\* A step of one connection leaves the phase of every other one alone.
LEMMA OthersPhase ==
  ASSUME TabTypeOK, NEW q \in Queues, NEW p \in Queues, p # q, Phase(p), First(p),
         slice' = slice \/ ({slice, slice'} \subseteq {q, NoQueue}),
         tab' = tab \/ ({tab, tab'} \subseteq {q, NoQueue}),
         tab # p \/ UNCHANGED <<view, heard>>,
         conn'[p] = conn[p], hpc'[p] = hpc[p], sub'[p] = sub[p], reader'[p] = reader[p],
         getter'[p] = getter[p], batch'[p] = batch[p], wire'[p] = wire[p]
  PROVE  Phase(p)' /\ First(p)'
BY StreamAssumption DEF Phase, First

\* What is sent is there.
LEMMA AppendIsNotEmpty ==
  ASSUME NEW S, NEW s \in Seq(S), NEW e \in S
  PROVE  Append(s, e) # <<>>
BY AppendProperties

\* A handler goes from phase to phase.
LEMMA HandlerPhase ==
  ASSUME TypeOK, TabTypeOK, NEW q \in Queues, Phase(q), First(q), Handler(q)
  PROVE  Phase(q)' /\ First(q)'
<1>0. wire[q] \in Seq(Seq(Event)) /\ batch[q] \in Seq(Event)
  BY DEF TabTypeOK
<1>13. Append(wire[q], batch[q]) # <<>>
  <2> DEFINE Frames == Seq(Event)
  <2> HIDE DEF Frames
  <2>1. wire[q] \in Seq(Frames) /\ batch[q] \in Frames
    BY <1>0 DEF Frames
  <2> QED BY <2>1, AppendIsNotEmpty
<1> USE StreamAssumption DEF TabTypeOK, Phase, First, At, tvars, cvars
<1>1. CASE Open(q)
  BY <1>1 DEF Open, Subscribe, TypeOK, LoopFree
<1>2. CASE AcceptFails(q)
  BY <1>2 DEF AcceptFails, LoopFree
<1>3. CASE Snapshot(q)
  BY <1>3 DEF Snapshot
<1>4. CASE SendTo(q, "backlog", "loop")
  BY <1>4, <1>13 DEF SendTo, LoopFree
<1>5. CASE SendTo(q, "send", "sleep")
  BY <1>5, <1>13 DEF SendTo, LoopFree
<1>6. CASE SendFails(q)
  BY <1>6 DEF SendFails, LoopFree
<1>7. CASE Wait(q)
  BY <1>7 DEF Wait, LoopFree
<1>8. CASE LoopEnds(q)
  BY <1>8 DEF LoopEnds, LoopFree
<1>9. CASE Drain(q)
  BY <1>9 DEF Drain, Take
<1>10. CASE Leave(q)
  BY <1>10 DEF Leave, LoopFree
<1>11. CASE Wake(q)
  BY <1>11 DEF Wake, LoopFree
<1>12. CASE Finish(q)
  BY <1>12 DEF Finish, Unsubscribe, TypeOK
<1> QED
  BY <1>1, <1>2, <1>3, <1>4, <1>5, <1>6, <1>7, <1>8, <1>9, <1>10, <1>11, <1>12
  DEF Handler, Send

\* It does nothing to the others.
LEMMA HandlerOthers ==
  ASSUME TypeOK, TabTypeOK, NEW q \in Queues, NEW p \in Queues, p # q, Phase(p), First(p),
         Handler(q)
  PROVE  Phase(p)' /\ First(p)'
<1> DEFINE Aloof ==
      /\ slice' = slice \/ ({slice, slice'} \subseteq {q, NoQueue})
      /\ tab' = tab /\ UNCHANGED <<view, heard, conn>>
      /\ hpc'[p] = hpc[p] /\ sub'[p] = sub[p] /\ reader'[p] = reader[p]
      /\ getter'[p] = getter[p] /\ batch'[p] = batch[p] /\ wire'[p] = wire[p]
<1> USE DEF At, LoopFree, TabTypeOK, tvars, cvars
<1>2. Open(q) => Aloof
  BY DEF Open, Subscribe, TypeOK
<1>3. AcceptFails(q) => Aloof
  BY DEF AcceptFails
<1>4. Snapshot(q) => Aloof
  BY DEF Snapshot
<1>5. Send(q) => Aloof
  BY DEF Send, SendTo
<1>6. SendFails(q) => Aloof
  BY DEF SendFails
<1>7. Wait(q) => Aloof
  BY DEF Wait
<1>8. LoopEnds(q) => Aloof
  BY DEF LoopEnds
<1>9. Drain(q) => Aloof
  BY DEF Drain, Take
<1>10. Leave(q) => Aloof
  BY DEF Leave
<1>11. Wake(q) => Aloof
  BY DEF Wake
<1>12. Finish(q) => Aloof
  BY DEF Finish, Unsubscribe, TypeOK
<1> HIDE DEF At, LoopFree, TabTypeOK, tvars, cvars, Aloof
<1>1. Aloof
  BY <1>2, <1>3, <1>4, <1>5, <1>6, <1>7, <1>8, <1>9, <1>10, <1>11, <1>12 DEF Handler
<1> QED BY <1>1, OthersPhase DEF Aloof

\* What a step of the server's side of a connection calls in the collector.
LEMMA ServerCalls ==
  ASSUME NEW p \in Queues, Handler(p) \/ Get(p) \/ SeeDisconnect(p)
  PROVE  UNCHANGED cvars \/ (\E n : Take(p, n)) \/ Subscribe(p) \/ Unsubscribe(p)
<1>1. CASE Open(p) \/ Finish(p)
  BY <1>1 DEF Open, Finish
<1>2. CASE Drain(p) \/ Get(p)
  BY <1>2 DEF Drain, Get
<1>3. CASE \/ AcceptFails(p) \/ Snapshot(p) \/ Send(p) \/ SendFails(p)
           \/ Wait(p) \/ LoopEnds(p) \/ Leave(p) \/ Wake(p) \/ SeeDisconnect(p)
  BY <1>3 DEF AcceptFails, Snapshot, Send, SendTo, SendFails, Wait, LoopEnds, Leave, Wake,
              SeeDisconnect
<1> QED BY <1>1, <1>2, <1>3 DEF Handler

\* Every step keeps every connection in its phase.
LEMMA StepPhases ==
  ASSUME TypeOK, TabTypeOK, PhaseInv, FirstInv, [SNext]_vars
  PROVE  PhaseInv' /\ FirstInv'
<1>1. \A q \in Queues : Phase(q) /\ First(q)
  BY DEF PhaseInv, FirstInv, Phase, First
<1>2. loopOpen'
  <2>1. ASSUME NEW th \in Threads, Emit(th) PROVE UNCHANGED loopOpen
    BY <2>1 DEF Emit, Push, Create, Acquire, ReadSeq, Stamp, AppendRing, Schedule, Release
  <2>2. ASSUME NEW q \in Queues, RunDeliver(q) PROVE UNCHANGED loopOpen
    BY <2>2 DEF RunDeliver, Deliver
  <2>3. ASSUME NEW q \in Queues, Handler(q) \/ Get(q) \/ SeeDisconnect(q)
        PROVE  UNCHANGED loopOpen
    BY <2>3, ServerCalls DEF Take, Subscribe, Unsubscribe, cvars
  <2>4. ASSUME NEW q \in Queues, Connect(q) \/ Disconnect(q) \/ Receive(q)
        PROVE  UNCHANGED loopOpen
    BY <2>4 DEF Connect, Disconnect, Receive, cvars
  <2>5. UNCHANGED vars => UNCHANGED loopOpen
    BY DEF vars, cvars
  <2> QED BY <2>1, <2>2, <2>3, <2>4, <2>5 DEF PhaseInv, SNext
<1>3. ASSUME NEW p \in Queues
      PROVE  Phase(p)' /\ First(p)'
  <2>1. ASSUME NEW th \in Threads, Emit(th)
        PROVE  Phase(p)' /\ First(p)'
    <3>1. UNCHANGED sub
      BY <2>1 DEF Emit, Push, Create, Acquire, ReadSeq, Stamp, AppendRing, Schedule, Release
    <3> QED BY <1>1, <2>1, <3>1 DEF Emit, hvars, tvars, Phase, First
  <2>2. ASSUME NEW q \in Queues, RunDeliver(q)
        PROVE  Phase(p)' /\ First(p)'
    BY <1>1, <2>2 DEF RunDeliver, Deliver, hvars, tvars, Phase, First
  <2>3. ASSUME NEW q \in Queues, Handler(q)
        PROVE  Phase(p)' /\ First(p)'
    BY <1>1, <2>3, HandlerPhase, HandlerOthers
  <2>4. ASSUME NEW q \in Queues, Get(q)
        PROVE  Phase(p)' /\ First(p)'
    <3>1. /\ getter[q] = "waiting" /\ getter' = [getter EXCEPT ![q] = "done"]
          /\ batch' = [batch EXCEPT ![q] = <<Head(queue[q])>>]
          /\ UNCHANGED <<sub, conn, hpc, reader, wire, slice, tvars>>
      BY <2>4 DEF Get, Take
    <3>2. CASE p = q
      BY <1>1, <3>1, <3>2 DEF Phase, First, tvars, TabTypeOK
    <3>3. CASE p # q
      BY <1>1, <3>1, <3>3 DEF Phase, First, tvars, TabTypeOK
    <3> QED BY <3>2, <3>3
  <2>5. ASSUME NEW q \in Queues, SeeDisconnect(q)
        PROVE  Phase(p)' /\ First(p)'
    <3>1. /\ conn[q] = "closed" /\ reader' = [reader EXCEPT ![q] = TRUE]
          /\ UNCHANGED <<sub, conn, hpc, getter, batch, wire, slice, tvars>>
      BY <2>5 DEF SeeDisconnect, cvars
    <3> QED BY <1>1, <3>1 DEF Phase, First, tvars, TabTypeOK
  <2>6. ASSUME NEW q \in Queues, Connect(q)
        PROVE  Phase(p)' /\ First(p)'
    <3>1. /\ tab = NoQueue /\ conn[q] = "new" /\ tab' = q
          /\ conn' = [conn EXCEPT ![q] = "open"]
          /\ hpc' = [hpc EXCEPT ![q] = "accept"]
          /\ view'.saw = FALSE /\ heard' = {}
          /\ UNCHANGED <<sub, reader, getter, batch, wire, slice>>
      BY <2>6 DEF Connect, Fresh, cvars
    <3>2. CASE p = q
      BY <1>1, <3>1, <3>2, StreamAssumption DEF Phase, First, TabTypeOK
    <3>3. CASE p # q
      BY <1>1, <3>1, <3>3, StreamAssumption DEF Phase, First, TabTypeOK
    <3> QED BY <3>2, <3>3
  <2>7. ASSUME NEW q \in Queues, Disconnect(q)
        PROVE  Phase(p)' /\ First(p)'
    <3>1. /\ tab = q /\ tab' = NoQueue
          /\ conn' = [conn EXCEPT ![q] = "closed"]
          /\ wire' = [wire EXCEPT ![q] = <<>>]
          /\ UNCHANGED <<sub, hpc, reader, getter, batch, slice, view, heard>>
      BY <2>7 DEF Disconnect, cvars
    <3>2. CASE p = q
      BY <1>1, <3>1, <3>2, StreamAssumption DEF Phase, First, TabTypeOK
    <3>3. CASE p # q
      BY <1>1, <3>1, <3>3, StreamAssumption DEF Phase, First, TabTypeOK
    <3> QED BY <3>2, <3>3
  <2>8. ASSUME NEW q \in Queues, Receive(q)
        PROVE  Phase(p)' /\ First(p)'
    <3>1. /\ tab = q /\ wire' = [wire EXCEPT ![q] = Tail(@)]
          /\ UNCHANGED <<sub, conn, hpc, reader, getter, batch, slice, tab>>
      BY <2>8 DEF Receive, cvars
    <3>2. CASE p # q
      BY <1>1, <3>1, <3>2, StreamAssumption DEF Phase, First, TabTypeOK
    <3>3. CASE p = q
      <4>1. view'.saw
        <5>1. CASE ~ view.saw
          BY <2>8, <5>1 DEF Receive, FirstFrame, TabTypeOK, ViewType
        <5>2. CASE view.saw
          BY <2>8, <5>2, ReceiveTypes, NotedType DEF Receive, NextFrame, TabTypeOK
        <5> QED BY <5>1, <5>2 DEF TabTypeOK, ViewType
      <4>2. wire[q] # <<>>
        BY <2>8 DEF Receive
      <4> QED BY <1>1, <3>1, <3>3, <4>1, <4>2 DEF Phase, First, TabTypeOK
    <3> QED BY <3>2, <3>3
  <2>9. CASE UNCHANGED vars
    BY <1>1, <2>9 DEF vars, cvars, hvars, tvars, Phase, First
  <2> QED BY <2>1, <2>2, <2>3, <2>4, <2>5, <2>6, <2>7, <2>8, <2>9 DEF SNext
<1> QED BY <1>2, <1>3 DEF PhaseInv, FirstInv, Phase, First

\* No connection is there at first.
LEMMA InitPhases == SInit => PhaseInv /\ FirstInv
BY StreamAssumption DEF SInit, Init, PhaseInv, FirstInv

-----------------------------------------------------------------------------
(* The frontier of a queue *)

\* A push changes neither what has left a queue nor what it has shed.
LEMMA PushKeepsFrontier ==
  ASSUME IInv, IInv', loopOpen, NEW th \in Threads, Push(th), NEW q \in Live
  PROVE  /\ Frontier(q)' = Frontier(q)
         /\ UNCHANGED <<queue, shed, sub, loopOpen>>
         /\ seq' >= seq
<1> USE DEF Live
<1>0. /\ LockInv /\ SeqInv /\ TodoInv /\ LockInv'
      /\ seq \in Nat /\ ready \in [Queues -> Seq(Event)] /\ queue \in [Queues -> Seq(Event)]
      /\ pc \in [Threads -> Steps] /\ ev \in [Threads -> Event]
  BY DEF IInv, TypeOK
<1>1. Position
  BY <1>0, Progress
<1>2. Position'
  <2>1. LockInv' => Position'
    BY Progress, PTL
  <2> QED BY <1>0, <2>1
<1>3. ASSUME NEW from \in {"idle", "made", "locked", "fanout"},
             NEW to \in {"made", "locked", "read", "idle"},
             pc[th] = from, pc' = [pc EXCEPT ![th] = to], from = "fanout" => todo = {},
             UNCHANGED <<seq, todo, ready, queue>>
      PROVE  Frontier(q)' = Frontier(q)
  <2>1. Sent(q)' = Sent(q)
    BY <1>0, <1>3 DEF Sent
  <2> QED BY <1>3, <2>1 DEF Frontier
<1>7. ASSUME Create(th)
      PROVE  Frontier(q)' = Frontier(q) /\ UNCHANGED <<queue, shed, sub, loopOpen, seq>>
  BY <1>3, <1>7 DEF Create
<1>8. ASSUME Acquire(th)
      PROVE  Frontier(q)' = Frontier(q) /\ UNCHANGED <<queue, shed, sub, loopOpen, seq>>
  BY <1>3, <1>8 DEF Acquire
<1>9. ASSUME ReadSeq(th)
      PROVE  Frontier(q)' = Frontier(q) /\ UNCHANGED <<queue, shed, sub, loopOpen, seq>>
  BY <1>3, <1>9 DEF ReadSeq
<1>10. ASSUME Release(th)
      PROVE  Frontier(q)' = Frontier(q) /\ UNCHANGED <<queue, shed, sub, loopOpen, seq>>
  BY <1>3, <1>10 DEF Release
<1>4. ASSUME Stamp(th)
      PROVE  Frontier(q)' = Frontier(q) /\ UNCHANGED <<queue, shed, sub, loopOpen>> /\ seq' >= seq
  <2>1. read[th] = seq /\ seq' = seq + 1 /\ lock = th /\ todo = {}
    BY <1>0, <1>4 DEF Stamp, SeqInv, LockInv, TodoInv, InPush
  <2>2. Sent(q) = seq
    BY <1>1, <1>4, <2>1 DEF Position, Stamp
  <2>3. Sent(q)' = seq' - 1
    BY <1>0, <1>2, <1>4 DEF Position, Stamp
  <2>4. UNCHANGED <<queue, ready, shed, sub, loopOpen>>
    BY <1>4 DEF Stamp
  <2> QED BY <1>0, <2>1, <2>2, <2>3, <2>4 DEF Frontier
<1>5. ASSUME AppendRing(th)
      PROVE  Frontier(q)' = Frontier(q) /\ UNCHANGED <<queue, shed, sub, loopOpen, seq>>
  <2>1. Sent(q) = seq - 1
    BY <1>1, <1>5 DEF Position, AppendRing
  <2>2. Sent(q)' = seq' - 1
    BY <1>2, <1>5 DEF Position, AppendRing
  <2>3. UNCHANGED <<queue, ready, shed, sub, loopOpen, seq>>
    BY <1>5 DEF AppendRing
  <2> QED BY <1>0, <2>1, <2>2, <2>3 DEF Frontier
<1>6. ASSUME NEW p \in Queues, Schedule(th, p)
      PROVE  Frontier(q)' = Frontier(q) /\ UNCHANGED <<queue, shed, sub, loopOpen, seq>>
  <2>1. /\ pc[th] = "fanout" /\ p \in todo /\ todo' = todo \ {p}
        /\ ready' = [ready EXCEPT ![p] = Append(@, ev[th])]
        /\ UNCHANGED <<pc, seq, queue, shed, sub, loopOpen>>
    BY <1>6 DEF Schedule
  <2>2. Sent(q) = IF q \in todo THEN seq - 1 ELSE seq
    BY <1>1, <2>1 DEF Position
  <2>3. Sent(q)' = IF q \in todo' THEN seq' - 1 ELSE seq'
    BY <1>2, <2>1 DEF Position
  <2>4. CASE p = q
    <3>1. Len(ready'[q]) = Len(ready[q]) + 1 /\ Len(ready[q]) \in Nat
      BY <1>0, <2>1, <2>4, AppendProperties, LenProperties
    <3>2. Sent(q)' = Sent(q) + 1
      BY <1>0, <2>1, <2>2, <2>3, <2>4
    <3>3. Sent(q) \in Int /\ Len(queue[q]) \in Nat
      BY <1>0, <2>2, LenProperties
    <3> QED BY <2>1, <3>1, <3>2, <3>3 DEF Frontier
  <2>5. CASE p # q
    BY <1>0, <2>1, <2>2, <2>3, <2>5 DEF Frontier
  <2> QED BY <2>1, <2>4, <2>5
<1>11. seq >= seq
  BY <1>0
<1>12. CASE \E p \in Queues : Schedule(th, p)
  BY <1>6, <1>11, <1>12
<1> QED BY <1>4, <1>5, <1>7, <1>8, <1>9, <1>10, <1>11, <1>12 DEF Push

\* What is known of a live queue: its number and what is in it.
LEMMA FrontierFacts ==
  ASSUME IInv, loopOpen, NEW q \in Live
  PROVE  /\ Frontier(q) \in Int /\ Len(queue[q]) \in Nat /\ Len(ready[q]) \in Nat
         /\ Frontier(q) <= seq
         /\ \A i \in 1 .. Len(queue[q]) :
              queue[q][i] \in Event /\ queue[q][i].seq = Frontier(q) + i
         /\ \A s \in shed[q] : s \in Nat /\ s <= Frontier(q)
<1> USE DEF IInv, TypeOK, Live
<1>1. Sent(q) \in Int /\ Sent(q) <= seq
  BY DEF Sent
<1>2. Len(queue[q]) \in Nat /\ Len(ready[q]) \in Nat
  BY LenProperties
<1>3. EndsAt(queue[q], Sent(q) - Len(ready[q]))
  BY DEF StreamIsContiguous
<1>4. ASSUME NEW i \in 1 .. Len(queue[q])
      PROVE  queue[q][i] \in Event /\ queue[q][i].seq = Frontier(q) + i
  <2>1. queue[q][i] \in Event
    BY ElementIsEvent
  <2>2. queue[q][i].seq = Sent(q) - Len(ready[q]) - Len(queue[q]) + i
    BY <1>3 DEF EndsAt
  <2> QED BY <1>1, <1>2, <2>1, <2>2 DEF Frontier
<1>5. \A s \in shed[q] : s \in Nat /\ s <= Frontier(q)
  BY DEF ShedInv, Frontier
<1>6. Frontier(q) \in Int /\ Frontier(q) <= seq
  <2>1. seq \in Nat
    OBVIOUS
  <2> QED BY <1>1, <1>2, <2>1 DEF Frontier
<1> HIDE DEF IInv, TypeOK
<1> QED BY <1>2, <1>4, <1>5, <1>6

\* A delivery sheds what it moves past the end of the queue.
LEMMA DeliverSheds ==
  ASSUME IInv, IInv', NEW p \in Queues, Deliver(p), NEW q \in Live
  PROVE  /\ Frontier(q)' \in Int /\ Frontier(q)' >= Frontier(q)
         /\ shed'[q] = shed[q] \cup (Frontier(q) + 1 .. Frontier(q)')
         /\ UNCHANGED <<seq, sub, loopOpen>>
<1> USE DEF Live
<1>1. /\ loopOpen /\ ready[p] # <<>>
      /\ ready' = [ready EXCEPT ![p] = Tail(@)]
      /\ queue' = [queue EXCEPT ![p] = RingAppend(@, Head(ready[p]), QueueCap)]
      /\ shed' = [shed EXCEPT ![p] =
                    IF Len(queue[p]) < QueueCap THEN @ ELSE @ \cup {Head(queue[p]).seq}]
      /\ UNCHANGED <<pc, seq, todo, sub, loopOpen>>
  BY DEF Deliver
<1>2. Sent(q)' = Sent(q) /\ Sent(q) \in Int
  BY <1>1 DEF Sent, IInv, TypeOK
<1>3. /\ ready \in [Queues -> Seq(Event)] /\ queue \in [Queues -> Seq(Event)]
      /\ shed \in [Queues -> SUBSET Nat] /\ QueueCap \in Nat \ {0}
  BY CollectorAssumption DEF IInv, TypeOK
<1>4. Frontier(q) \in Int /\ Len(queue[q]) \in Nat /\ Len(ready[q]) \in Nat
  BY <1>1, FrontierFacts
<1>5. CASE p # q
  BY <1>1, <1>2, <1>3, <1>4, <1>5 DEF Frontier
<1>6. CASE p = q
  <2>1. Len(ready'[q]) = Len(ready[q]) - 1
    BY <1>1, <1>3, <1>6, HeadTailProperties
  <2>2. Head(ready[q]) \in Event
    BY <1>1, <1>3, <1>6, HeadTailProperties
  <2>3. Len(queue[q]) <= QueueCap
    BY <1>1 DEF IInv, StreamIsContiguous
  <2>4. CASE Len(queue[q]) < QueueCap
    <3>1. Len(queue'[q]) = Len(queue[q]) + 1 /\ shed'[q] = shed[q]
      BY <1>1, <1>3, <1>6, <2>2, <2>4, AppendProperties DEF RingAppend
    <3>2. Frontier(q)' = Frontier(q)
      <4>1. /\ Frontier(q) = Sent(q) - Len(ready[q]) - Len(queue[q])
            /\ Frontier(q)' = Sent(q)' - Len(ready'[q]) - Len(queue'[q])
        BY DEF Frontier
      <4> QED BY <1>2, <1>4, <2>1, <3>1, <4>1
    <3> QED BY <1>1, <1>4, <3>1, <3>2
  <2>5. CASE ~ (Len(queue[q]) < QueueCap)
    <3>1. Len(queue[q]) \in Nat \ {0} /\ queue[q] # <<>>
      BY <1>3, <1>4, <2>5, EmptySeq
    <3>2. Len(queue'[q]) = Len(queue[q])
      <4>1. Tail(queue[q]) \in Seq(Event) /\ Len(Tail(queue[q])) = Len(queue[q]) - 1
        BY <1>3, <3>1, HeadTailProperties
      <4>2. queue'[q] = Append(Tail(queue[q]), Head(ready[q]))
        BY <1>1, <1>3, <1>6, <2>5 DEF RingAppend
      <4> QED BY <1>4, <2>2, <4>1, <4>2, AppendProperties
    <3>3. Head(queue[q]) = queue[q][1] /\ queue[q][1].seq = Frontier(q) + 1
      BY <1>1, <3>1, FrontierFacts
    <3>4. shed'[q] = shed[q] \cup {Frontier(q) + 1}
      BY <1>1, <1>3, <1>6, <2>5, <3>3
    <3>5. Frontier(q)' = Frontier(q) + 1
      BY <1>2, <1>4, <2>1, <3>2 DEF Frontier
    <3>6. Frontier(q) + 1 .. Frontier(q) + 1 = {Frontier(q) + 1}
      BY <1>4
    <3> QED BY <1>1, <1>4, <3>4, <3>5, <3>6
  <2> QED BY <2>4, <2>5
<1> QED BY <1>5, <1>6

\* Taking from a queue moves its frontier, and no other's.
LEMMA TakeMoves ==
  ASSUME IInv, NEW p \in Queues, NEW n, Take(p, n), NEW q \in Live
  PROVE  /\ Frontier(q)' = IF p = q THEN Frontier(q) + n ELSE Frontier(q)
         /\ n \in 1 .. Len(queue[p])
         /\ UNCHANGED <<seq, shed, sub, loopOpen>>
<1> USE DEF Live
<1>1. /\ loopOpen /\ n \in 1 .. Len(queue[p])
      /\ queue' = [queue EXCEPT ![p] = SubSeq(@, n + 1, Len(@))]
      /\ UNCHANGED <<pc, seq, todo, sub, ready, shed, loopOpen>>
  BY DEF Take
<1>2. Sent(q)' = Sent(q) /\ Sent(q) \in Int
  BY <1>1 DEF Sent, IInv, TypeOK
<1>3. queue \in [Queues -> Seq(Event)]
  BY DEF IInv, TypeOK
<1>4. Frontier(q) \in Int /\ Len(queue[q]) \in Nat /\ Len(ready[q]) \in Nat
  BY <1>1, FrontierFacts
<1>5. CASE p # q
  BY <1>1, <1>2, <1>3, <1>5 DEF Frontier
<1>6. CASE p = q
  <2>1. EndsAt(queue[q], Sent(q) - Len(ready[q]))
    BY <1>1 DEF IInv, StreamIsContiguous
  <2>2. n \in 0 .. Len(queue[q]) /\ Sent(q) - Len(ready[q]) \in Int
    BY <1>1, <1>2, <1>4, <1>6
  <2>3. Len(SubSeq(queue[q], n + 1, Len(queue[q]))) = Len(queue[q]) - n
    BY <1>3, <2>1, <2>2, EndsAtSuffix
  <2>4. queue'[q] = SubSeq(queue[q], n + 1, Len(queue[q]))
    BY <1>1, <1>3, <1>6
  <2> QED BY <1>1, <1>2, <1>4, <1>6, <2>2, <2>3, <2>4 DEF Frontier
<1> QED BY <1>1, <1>5, <1>6

\* A queue begins empty, at the newest event.
LEMMA SubscribeStarts ==
  ASSUME IInv, NEW q \in Queues, Subscribe(q)
  PROVE  Frontier(q)' = seq /\ shed'[q] = {} /\ UNCHANGED seq
<1>1. /\ sub[q] = "new" /\ lock = NoThread
      /\ UNCHANGED <<pc, seq, lock, todo, ready, queue, shed>>
  BY DEF Subscribe
<1>2. Sent(q) = seq
  BY <1>1, Progress DEF Position, IInv, TodoInv, Live
<1>3. ready[q] = <<>> /\ queue[q] = <<>> /\ shed[q] = {}
  BY <1>1 DEF IInv, FreshInv
<1>4. Sent(q)' = seq
  BY <1>1, <1>2 DEF Sent
<1>5. Len(<<>>) = 0 /\ seq \in Nat
  BY DEF IInv, TypeOK
<1> QED BY <1>1, <1>3, <1>4, <1>5 DEF Frontier

\* Another dashboard that comes or goes moves nothing.
LEMMA OthersComeAndGo ==
  ASSUME IInv, NEW p \in Queues, Subscribe(p) \/ Unsubscribe(p), NEW q \in Queues
  PROVE  Frontier(q)' = Frontier(q) /\ UNCHANGED <<seq, shed>>
BY DEF Subscribe, Unsubscribe, Frontier, Sent

-----------------------------------------------------------------------------
(* Frames, and runs of numbers *)

\* The seqs of a sequence of events are numbers, and those of two sequences one
\* after the other are those of both.
LEMMA SeqsFacts ==
  ASSUME NEW s \in Seq(Event)
  PROVE  /\ Seqs(s) \in SUBSET Nat
         /\ Seqs(<<>>) = {}
         /\ {e.seq : e \in ToSet(s)} = Seqs(s)
<1>1. \A i \in 1 .. Len(s) : s[i].seq \in Nat
  BY ElementIsEvent
<1>2. Seqs(<<>>) = {}
  BY DEF Seqs
<1>3. DOMAIN s = 1 .. Len(s)
  BY LenProperties
<1> QED BY <1>1, <1>2, <1>3 DEF Seqs, ToSet

\* Past the last frame nothing is carried.
LEMMA CarriedNone ==
  ASSUME NEW w \in Seq(Seq(Event)), NEW b \in Nat, b > Len(w)
  PROVE  Carried(w, b) = {} /\ Tidy(w, b)
<1>1. Len(w) \in Nat
  BY LenProperties
<1>2. b .. Len(w) = {}
  BY <1>1
<1> QED BY <1>2 DEF Carried, Tidy

\* Each frame's part in what is carried.
LEMMA CarriedBy ==
  ASSUME NEW w \in Seq(Seq(Event)), NEW b \in Nat, NEW i \in b .. Len(w)
  PROVE  Seqs(w[i]) \subseteq Carried(w, b)
BY DEF Carried

\* A frame sent after the others.
LEMMA CarriedAppend ==
  ASSUME NEW w \in Seq(Seq(Event)), NEW e \in Seq(Event), NEW b \in 1 .. Len(w) + 1,
         Tidy(w, b), Ascends(e), Below(Carried(w, b), Seqs(e))
  PROVE  /\ Carried(Append(w, e), b) = Carried(w, b) \cup Seqs(e)
         /\ Tidy(Append(w, e), b)
<1> DEFINE a == Append(w, e)
<1>1. /\ Len(w) \in Nat /\ Len(a) = Len(w) + 1
      /\ \A i \in 1 .. Len(w) : a[i] = w[i]
      /\ a[Len(w) + 1] = e
  BY AppendProperties, LenProperties
<1> HIDE DEF a
<1>2. \A i \in b .. Len(a) : (i \in b .. Len(w) /\ a[i] = w[i]) \/ (i = Len(w) + 1 /\ a[i] = e)
  BY <1>1
<1>3. \A i \in b .. Len(w) : i \in b .. Len(a) /\ a[i] = w[i]
  BY <1>1
<1>4. Len(w) + 1 \in b .. Len(a) /\ a[Len(w) + 1] = e
  BY <1>1
<1>5. Carried(a, b) = Carried(w, b) \cup Seqs(e)
  <2>1. ASSUME NEW x \in Carried(a, b) PROVE x \in Carried(w, b) \cup Seqs(e)
    <3>1. PICK i \in b .. Len(a) : x \in Seqs(a[i])
      BY <2>1 DEF Carried
    <3>2. i \in b .. Len(w) => Seqs(w[i]) \subseteq Carried(w, b)
      BY <1>1 DEF Carried
    <3> QED BY <1>2, <3>1, <3>2
  <2>2. ASSUME NEW x \in Carried(w, b) PROVE x \in Carried(a, b)
    <3>1. PICK i \in b .. Len(w) : x \in Seqs(w[i])
      BY <2>2 DEF Carried
    <3> QED BY <1>3, <3>1 DEF Carried
  <2>3. ASSUME NEW x \in Seqs(e) PROVE x \in Carried(a, b)
    BY <1>4, <2>3 DEF Carried
  <2> QED BY <2>1, <2>2, <2>3
<1>6. Tidy(a, b)
  <2>1. ASSUME NEW i \in b .. Len(a) PROVE Ascends(a[i])
    BY <1>2, <2>1 DEF Tidy
  <2>2. ASSUME NEW i \in b .. Len(a), NEW j \in b .. Len(a), i < j
        PROVE  Below(Seqs(a[i]), Seqs(a[j]))
    <3>1. i \in b .. Len(w) /\ a[i] = w[i]
      BY <1>1, <2>2
    <3>2. CASE j \in b .. Len(w) /\ a[j] = w[j]
      BY <2>2, <3>1, <3>2 DEF Tidy
    <3>3. CASE a[j] = e
      <4>1. Seqs(w[i]) \subseteq Carried(w, b)
        BY <3>1 DEF Carried
      <4> QED BY <3>1, <3>3, <4>1 DEF Below
    <3> QED BY <1>2, <3>2, <3>3
  <2> QED BY <2>1, <2>2 DEF Tidy
<1> QED BY <1>5, <1>6 DEF a

\* The first frame, and the frames left once it has been received.
LEMMA CarriedTail ==
  ASSUME NEW w \in Seq(Seq(Event)), w # <<>>
  PROVE  /\ Head(w) \in Seq(Event) /\ Tail(w) \in Seq(Seq(Event))
         /\ Carried(Tail(w), 1) = Carried(w, 2)
         /\ Carried(w, 1) = Seqs(Head(w)) \cup Carried(w, 2)
         /\ Tidy(w, 2) => Tidy(Tail(w), 1)
         /\ Tidy(w, 1) =>
              Tidy(w, 2) /\ Ascends(Head(w)) /\ Below(Seqs(Head(w)), Carried(w, 2))
<1> DEFINE r == Tail(w)
<1>1. /\ Head(w) \in Seq(Event) /\ r \in Seq(Seq(Event)) /\ Len(r) = Len(w) - 1
      /\ \A i \in 1 .. Len(r) : r[i] = w[i + 1]
  BY HeadTailProperties
<1>2. Len(w) \in Nat /\ Len(w) >= 1
  <2>1. Len(w) \in Nat /\ Len(w) # 0
    BY LenProperties, EmptySeq
  <2> QED BY <2>1
<1>3. Head(w) = w[1]
  BY <1>2
<1> HIDE DEF r
<1>4. \A i \in 1 .. Len(r) : i + 1 \in 2 .. Len(w) /\ r[i] = w[i + 1]
  BY <1>1, <1>2
<1>5. \A i \in 2 .. Len(w) : i - 1 \in 1 .. Len(r) /\ r[i - 1] = w[i]
  <2> TAKE i \in 2 .. Len(w)
  <2>1. i - 1 \in 1 .. Len(r) /\ (i - 1) + 1 = i
    BY <1>1, <1>2
  <2> QED BY <1>1, <2>1
<1>6. Carried(r, 1) = Carried(w, 2)
  <2>1. ASSUME NEW x \in Carried(r, 1) PROVE x \in Carried(w, 2)
    <3>1. PICK i \in 1 .. Len(r) : x \in Seqs(r[i])
      BY <2>1 DEF Carried
    <3>2. i + 1 \in 2 .. Len(w) /\ x \in Seqs(w[i + 1])
      BY <1>4, <3>1
    <3> QED BY <3>2 DEF Carried
  <2>2. ASSUME NEW x \in Carried(w, 2) PROVE x \in Carried(r, 1)
    <3>1. PICK i \in 2 .. Len(w) : x \in Seqs(w[i])
      BY <2>2 DEF Carried
    <3>2. i - 1 \in 1 .. Len(r) /\ x \in Seqs(r[i - 1])
      BY <1>5, <3>1
    <3> QED BY <3>2 DEF Carried
  <2> QED BY <2>1, <2>2
<1>7. Carried(w, 1) = Seqs(Head(w)) \cup Carried(w, 2)
  <2>1. 1 .. Len(w) = {1} \cup 2 .. Len(w)
    BY <1>2
  <2> QED BY <1>3, <2>1 DEF Carried
<1>8. ASSUME Tidy(w, 2) PROVE Tidy(r, 1)
  <2>1. ASSUME NEW i \in 1 .. Len(r) PROVE Ascends(r[i])
    BY <1>4, <1>8 DEF Tidy
  <2>2. ASSUME NEW i \in 1 .. Len(r), NEW j \in 1 .. Len(r), i < j
        PROVE  Below(Seqs(r[i]), Seqs(r[j]))
    <3>1. i + 1 < j + 1 /\ i + 1 \in 2 .. Len(w) /\ j + 1 \in 2 .. Len(w)
      BY <1>4, <2>2
    <3>2. Below(Seqs(w[i + 1]), Seqs(w[j + 1]))
      BY <1>8, <3>1 DEF Tidy
    <3> QED BY <1>4, <3>2
  <2> QED BY <2>1, <2>2 DEF Tidy
<1>9. ASSUME Tidy(w, 1)
      PROVE  Tidy(w, 2) /\ Ascends(Head(w)) /\ Below(Seqs(Head(w)), Carried(w, 2))
  <2>1. \A i \in 2 .. Len(w) : i \in 1 .. Len(w) /\ 1 < i
    BY <1>2
  <2>2. 1 \in 1 .. Len(w)
    BY <1>2
  <2>3. Tidy(w, 2)
    BY <1>9, <2>1 DEF Tidy
  <2>4. Ascends(Head(w))
    BY <1>3, <1>9, <2>2 DEF Tidy
  <2>5. ASSUME NEW x \in Seqs(Head(w)), NEW y \in Carried(w, 2) PROVE x < y
    <3>1. PICK i \in 2 .. Len(w) : y \in Seqs(w[i])
      BY <2>5 DEF Carried
    <3>2. Below(Seqs(w[1]), Seqs(w[i]))
      BY <1>9, <2>1, <2>2 DEF Tidy
    <3> QED BY <1>3, <3>1, <3>2 DEF Below
  <2> QED BY <2>3, <2>4, <2>5 DEF Below
<1> QED BY <1>1, <1>6, <1>7, <1>8, <1>9 DEF r

\* An event shed at the frontier does not break the line.
LEMMA UnbrokenShed ==
  ASSUME NEW K, NEW f, NEW D, NEW g \in Int, Unbroken(K, f, D), g >= f
  PROVE  Unbroken(K, g, D \cup (f + 1 .. g))
<1>1. f \in Nat /\ g \in Nat /\ K \subseteq 1 .. f /\ K \subseteq 1 .. g
  BY DEF Unbroken
<1>2. ASSUME NEW s \in 1 .. g, \E h \in K : h < s
      PROVE  s \in K \cup D \cup (f + 1 .. g)
  <2>1. CASE s <= f
    <3>1. s \in 1 .. f
      BY <1>1, <2>1
    <3> QED BY <1>2, <3>1 DEF Unbroken
  <2>2. CASE ~ (s <= f)
    BY <1>1, <2>2
  <2> QED BY <2>1, <2>2
<1>3. K \cap (D \cup (f + 1 .. g)) = {}
  <2>1. K \cap (f + 1 .. g) = {}
    BY <1>1
  <2> QED BY <2>1 DEF Unbroken
<1> QED BY <1>1, <1>2, <1>3 DEF Unbroken

\* Taking from the queue makes known what comes next.
LEMMA UnbrokenKnown ==
  ASSUME NEW K, NEW f, NEW D \in SUBSET Nat, NEW n \in Nat, Unbroken(K, f, D),
         \A s \in D : s <= f
  PROVE  Unbroken(K \cup (f + 1 .. f + n), f + n, D)
<1>1. f \in Nat /\ f + n \in Nat /\ K \subseteq 1 .. f
  BY DEF Unbroken
<1>2. K \cup (f + 1 .. f + n) \subseteq 1 .. f + n
  BY <1>1
<1>3. ASSUME NEW s \in 1 .. f + n, NEW h \in K \cup (f + 1 .. f + n), h < s
      PROVE  s \in (K \cup (f + 1 .. f + n)) \cup D
  <2>1. CASE s <= f
    <3>1. s \in 1 .. f /\ h \in K
      BY <1>1, <1>3, <2>1
    <3> QED BY <1>3, <3>1 DEF Unbroken
  <2>2. CASE ~ (s <= f)
    BY <1>1, <2>2
  <2> QED BY <2>1, <2>2
<1>4. (K \cup (f + 1 .. f + n)) \cap D = {}
  <2>1. (f + 1 .. f + n) \cap D = {}
    BY <1>1
  <2> QED BY <2>1 DEF Unbroken
<1> QED BY <1>1, <1>2, <1>3, <1>4 DEF Unbroken

-----------------------------------------------------------------------------
(* The line from the queue to the tab *)

Path(q) == Order(q) /\ Line(q) /\ Pend(q)

\* The connection the tab is on is subscribed unless it is being accepted.
LEMMA OnTab ==
  ASSUME TabTypeOK, NEW q \in Queues, tab = q, Phase(q), First(q)
  PROVE  /\ conn[q] = "open" /\ ~ reader[q]
         /\ hpc[q] \in {"accept", "subscribed", "backlog", "loop", "wait", "send", "sleep"}
         /\ hpc[q] # "accept" => q \in Live
BY StreamAssumption DEF TabTypeOK, Phase, First, Live

\* What is known are numbers.
LEMMA KnownTypes ==
  ASSUME TabTypeOK, NEW q \in Queues
  PROVE  /\ OnWire(q) \in SUBSET Nat /\ InHand(q) \in SUBSET Nat /\ heard \in SUBSET Nat
         /\ wire[q] \in Seq(Seq(Event)) /\ batch[q] \in Seq(Event) /\ FirstLive \in 1 .. 2
<1>1. wire[q] \in Seq(Seq(Event)) /\ batch[q] \in Seq(Event) /\ heard \in SUBSET Nat
  BY DEF TabTypeOK
<1>2. \A i \in 1 .. Len(wire[q]) : wire[q][i] \in Seq(Event)
  BY <1>1, ElementOfSeq
<1>3. FirstLive \in 1 .. 2
  BY DEF FirstLive
<1>4. \A i \in FirstLive .. Len(wire[q]) : Seqs(wire[q][i]) \in SUBSET Nat
  BY <1>1, <1>2, <1>3, SeqsFacts, LenProperties
<1>5. OnWire(q) \in SUBSET Nat
  BY <1>4 DEF OnWire, Carried
<1>6. InHand(q) \in SUBSET Nat
  BY <1>1, SeqsFacts DEF InHand
<1> QED BY <1>1, <1>3, <1>5, <1>6

\* A step that touches neither the wire nor the handler's hands keeps the line,
\* whatever the queue sheds meanwhile.
LEMMA PathCalm ==
  ASSUME IInv, loopOpen, TabTypeOK, NEW q \in Queues, hpc[q] # "accept" => q \in Live,
         Path(q), UNCHANGED <<view, heard, pending>>,
         wire'[q] = wire[q], batch'[q] = batch[q],
         hpc'[q] = "backlog" <=> hpc[q] = "backlog", hpc'[q] = "accept" <=> hpc[q] = "accept",
         hpc[q] # "accept" =>
           /\ Frontier(q)' \in Int /\ Frontier(q)' >= Frontier(q)
           /\ shed'[q] = shed[q] \cup (Frontier(q) + 1 .. Frontier(q)')
  PROVE  Path(q)'
<1>1. OnWire(q)' = OnWire(q) /\ InHand(q)' = InHand(q) /\ Known(q)' = Known(q)
  BY DEF OnWire, InHand, Known, FirstLive
<1>2. FirstLive' = FirstLive
  BY DEF FirstLive
<1>3. Order(q)'
  BY <1>1, <1>2 DEF Path, Order
<1>4. CASE hpc[q] = "accept"
  BY <1>1, <1>3, <1>4 DEF Path, Line, Pend
<1>5. CASE hpc[q] # "accept"
  <2>1. Unbroken(Known(q)', Frontier(q)', shed'[q])
    <3>1. Unbroken(Known(q), Frontier(q), shed[q])
      BY <1>5 DEF Path, Line
    <3> QED BY <1>1, <1>5, <3>1, UnbrokenShed
  <2>2. Line(q)'
    BY <1>5, <2>1 DEF Line
  <2>3. Pend(q)'
    <3>1. \A s \in Seqs(pending) : s \in Nat /\ s <= Frontier(q)
      BY <1>5, SeqsFacts DEF Path, Pend, TabTypeOK
    <3>2. Frontier(q) \in Int
      BY <1>5, FrontierFacts
    <3>3. \A s \in Seqs(pending) : s <= Frontier(q)'
      BY <1>5, <3>1, <3>2
    <3> QED BY <1>1, <3>3 DEF Path, Pend
  <2> QED BY <1>3, <2>2, <2>3 DEF Path
<1> QED BY <1>4, <1>5

\* Nothing is shed by a step that leaves the frontier alone.
LEMMA PathStill ==
  ASSUME IInv, loopOpen, TabTypeOK, NEW q \in Queues, hpc[q] # "accept" => q \in Live,
         Path(q), UNCHANGED <<view, heard, pending>>,
         wire'[q] = wire[q], batch'[q] = batch[q],
         hpc'[q] = "backlog" <=> hpc[q] = "backlog", hpc'[q] = "accept" <=> hpc[q] = "accept",
         hpc[q] # "accept" => Frontier(q)' = Frontier(q) /\ shed'[q] = shed[q]
  PROVE  Path(q)'
<1>1. hpc[q] # "accept" => Frontier(q) \in Int
  BY FrontierFacts
<1>2. hpc[q] # "accept" => Frontier(q) + 1 .. Frontier(q) = {}
  BY <1>1
<1> QED BY <1>1, <1>2, PathCalm

\* The handler takes the next events into its hands.
LEMMA PathTakes ==
  ASSUME IInv, loopOpen, TabTypeOK, NEW q \in Live, Path(q), UNCHANGED <<view, heard, pending>>,
         hpc[q] \notin {"accept", "backlog"}, hpc'[q] \notin {"accept", "backlog"},
         wire'[q] = wire[q], NEW n \in Nat,
         Frontier(q)' = Frontier(q) + n, shed'[q] = shed[q],
         Seqs(batch'[q]) = Seqs(batch[q]) \cup (Frontier(q) + 1 .. Frontier(q) + n),
         Ascends(batch'[q])
  PROVE  Path(q)'
<1> DEFINE new == Frontier(q) + 1 .. Frontier(q) + n
<1>0. q \in Queues /\ shed[q] \in SUBSET Nat
  BY DEF Live, IInv, TypeOK
<1>1. OnWire(q)' = OnWire(q) /\ FirstLive' = FirstLive
  BY DEF OnWire, FirstLive
<1>2. InHand(q)' = InHand(q) \cup new /\ Known(q)' = Known(q) \cup new
  BY <1>1 DEF InHand, Known
<1>3. Unbroken(Known(q), Frontier(q), shed[q])
  BY DEF Path, Line
<1>4. Frontier(q) \in Nat /\ \A h \in Known(q) : h \in Nat /\ h <= Frontier(q)
  BY <1>3 DEF Unbroken
<1>5. \A s \in Seqs(pending) : s \in Nat /\ s <= Frontier(q)
  BY SeqsFacts DEF Path, Pend, TabTypeOK
<1>6. \A s \in new : s > Frontier(q) /\ s \in Nat
  BY <1>4
<1>7. Order(q)'
  <2>1. Below(heard, InHand(q)') /\ Below(OnWire(q), InHand(q)')
    BY <1>2, <1>4, <1>6 DEF Below, Known, Path, Order
  <2> QED BY <1>1, <2>1 DEF Path, Order
<1>8. Line(q)'
  <2>1. \A s \in shed[q] : s <= Frontier(q)
    BY FrontierFacts
  <2>2. Unbroken(Known(q) \cup new, Frontier(q) + n, shed[q])
    BY <1>0, <1>3, <2>1, UnbrokenKnown
  <2> QED BY <1>2, <2>2 DEF Line
<1>9. Pend(q)'
  <2>1. \A s \in Seqs(pending) : s <= Frontier(q) + n
    BY <1>4, <1>5
  <2>2. Below(Seqs(pending), OnWire(q)' \cup InHand(q)')
    BY <1>1, <1>2, <1>5, <1>6, <1>4 DEF Path, Pend, Below
  <2> QED BY <2>1, <2>2 DEF Pend
<1> QED BY <1>7, <1>8, <1>9 DEF Path

\* queue.get() takes one event.
LEMMA PathGet ==
  ASSUME IInv, TabTypeOK, NEW q \in Queues, tab = q, Phase(q), First(q), Path(q), Get(q)
  PROVE  Path(q)'
<1>1. q \in Live /\ hpc[q] = "wait" /\ batch[q] = <<>>
  BY OnTab DEF Get, Phase
<1>2. Take(q, 1) /\ queue[q] # <<>> /\ loopOpen
  BY DEF Get, Take
<1>3. /\ hpc' = hpc /\ wire' = wire /\ UNCHANGED <<view, heard, pending>>
      /\ batch'[q] = <<Head(queue[q])>>
  BY DEF Get, tvars, TabTypeOK
<1>4. Frontier(q)' = Frontier(q) + 1 /\ 1 \in 1 .. Len(queue[q]) /\ shed' = shed
  BY <1>1, <1>2, TakeMoves
<1>5. Head(queue[q]) = queue[q][1] /\ queue[q][1].seq = Frontier(q) + 1 /\ Frontier(q) \in Int
  BY <1>1, <1>2, <1>4, FrontierFacts
<1>6. Seqs(batch'[q]) = {Frontier(q) + 1} /\ Ascends(batch'[q]) /\ Seqs(batch[q]) = {}
  <2> DEFINE b == <<Head(queue[q])>>
  <2>1. Len(b) = 1 /\ b[1] = Head(queue[q])
    OBVIOUS
  <2> HIDE DEF b
  <2>2. Seqs(b) = {Frontier(q) + 1} /\ Ascends(b)
    BY <1>5, <2>1 DEF Seqs, Ascends
  <2>3. Seqs(<<>>) = {}
    BY DEF Seqs
  <2> QED BY <1>1, <1>3, <2>2, <2>3 DEF b
<1>7. Frontier(q) + 1 .. Frontier(q) + 1 = {Frontier(q) + 1}
  BY <1>5
<1> QED BY <1>1, <1>2, <1>3, <1>4, <1>6, <1>7, PathTakes

\* A batch, and the queue after it.
LEMMA ConcatRun ==
  ASSUME NEW s \in Seq(Event), NEW r \in Seq(Event), NEW f \in Int,
         Ascends(s), \A n \in Seqs(s) : n <= f,
         \A i \in 1 .. Len(r) : r[i].seq = f + i
  PROVE  /\ Seqs(s \o r) = Seqs(s) \cup (f + 1 .. f + Len(r))
         /\ Ascends(s \o r)
<1> DEFINE c == s \o r
<1>1. /\ Len(c) = Len(s) + Len(r) /\ Len(s) \in Nat /\ Len(r) \in Nat
      /\ \A i \in 1 .. Len(s) + Len(r) :
           c[i] = IF i <= Len(s) THEN s[i] ELSE r[i - Len(s)]
  BY ConcatProperties, LenProperties
<1> HIDE DEF c
<1>2. \A i \in 1 .. Len(s) : i \in 1 .. Len(c) /\ c[i] = s[i] /\ s[i].seq \in Nat /\ s[i].seq <= f
  BY <1>1, ElementIsEvent DEF Seqs
<1>3. \A i \in 1 .. Len(c) : i > Len(s) =>
        i - Len(s) \in 1 .. Len(r) /\ c[i].seq = f + (i - Len(s))
  <2> TAKE i \in 1 .. Len(c)
  <2> HAVE i > Len(s)
  <2>1. i - Len(s) \in 1 .. Len(r) /\ c[i] = r[i - Len(s)]
    BY <1>1
  <2> QED BY <2>1
<1>4. \A n \in f + 1 .. f + Len(r) : \E i \in 1 .. Len(c) : c[i].seq = n
  <2> TAKE n \in f + 1 .. f + Len(r)
  <2> DEFINE i == n - f + Len(s)
  <2>1. i \in 1 .. Len(c) /\ i > Len(s) /\ f + (i - Len(s)) = n
    BY <1>1
  <2> QED BY <1>3, <2>1
<1>5. Seqs(c) = Seqs(s) \cup (f + 1 .. f + Len(r))
  <2>1. ASSUME NEW i \in 1 .. Len(c)
        PROVE  c[i].seq \in Seqs(s) \cup (f + 1 .. f + Len(r))
    <3>1. CASE i <= Len(s)
      BY <1>1, <1>2, <3>1 DEF Seqs
    <3>2. CASE ~ (i <= Len(s))
      BY <1>1, <1>3, <3>2
    <3> QED BY <3>1, <3>2
  <2>2. \A i \in 1 .. Len(s) : \E j \in 1 .. Len(c) : c[j].seq = s[i].seq
    BY <1>2
  <2>3. Seqs(c) \subseteq Seqs(s) \cup (f + 1 .. f + Len(r))
    BY <2>1 DEF Seqs
  <2>4. Seqs(s) \subseteq Seqs(c)
    <3>1. ASSUME NEW i \in 1 .. Len(s) PROVE s[i].seq \in Seqs(c)
      BY <2>2 DEF Seqs
    <3> QED BY <3>1 DEF Seqs
  <2>5. f + 1 .. f + Len(r) \subseteq Seqs(c)
    BY <1>4 DEF Seqs
  <2> QED BY <2>3, <2>4, <2>5
<1>6. ASSUME NEW i \in 1 .. Len(c), NEW j \in 1 .. Len(c), i < j
      PROVE  c[i].seq < c[j].seq
  <2>1. CASE j <= Len(s)
    <3>1. i \in 1 .. Len(s) /\ j \in 1 .. Len(s)
      BY <1>1, <1>6, <2>1
    <3> QED BY <1>2, <1>6, <3>1 DEF Ascends
  <2>2. CASE i <= Len(s) /\ ~ (j <= Len(s))
    <3>1. c[i].seq \in Nat /\ c[i].seq <= f
      BY <1>1, <1>2, <2>2
    <3>2. c[j].seq = f + (j - Len(s)) /\ j - Len(s) >= 1
      BY <1>1, <1>3, <2>2
    <3> QED BY <1>1, <3>1, <3>2
  <2>3. CASE ~ (i <= Len(s)) /\ ~ (j <= Len(s))
    <3>1. c[i].seq = f + (i - Len(s)) /\ c[j].seq = f + (j - Len(s))
      BY <1>1, <1>3, <2>3
    <3> QED BY <1>1, <1>6, <3>1
  <2> QED BY <1>1, <1>6, <2>1, <2>2, <2>3
<1> QED BY <1>5, <1>6 DEF Ascends, c

\* The drain takes all that is queued.
LEMMA PathDrain ==
  ASSUME IInv, loopOpen, TabTypeOK, NEW q \in Queues, tab = q, Phase(q), First(q), Path(q),
         Drain(q)
  PROVE  Path(q)'
<1>1. q \in Live /\ hpc[q] = "wait" /\ hpc'[q] = "send"
  BY OnTab DEF Drain, At, TabTypeOK
<1>2. /\ wire' = wire /\ UNCHANGED <<view, heard, pending>>
      /\ batch'[q] = batch[q] \o queue[q]
  BY DEF Drain, tvars, TabTypeOK
<1>3. /\ Frontier(q) \in Int /\ Len(queue[q]) \in Nat
      /\ \A i \in 1 .. Len(queue[q]) : queue[q][i].seq = Frontier(q) + i
  BY <1>1, FrontierFacts
<1>4. Frontier(q)' = Frontier(q) + Len(queue[q]) /\ shed' = shed
  <2>1. CASE queue[q] = <<>>
    <3>1. UNCHANGED cvars
      BY <2>1 DEF Drain
    <3>2. Frontier(q)' = Frontier(q) /\ shed' = shed
      BY <3>1 DEF cvars, Frontier, Sent
    <3> QED BY <1>3, <2>1, <3>2
  <2>2. CASE queue[q] # <<>>
    <3>1. Take(q, Len(queue[q]))
      BY <2>2 DEF Drain
    <3> QED BY <1>1, <3>1, TakeMoves
  <2> QED BY <2>1, <2>2
<1>5. /\ batch[q] \in Seq(Event) /\ queue[q] \in Seq(Event)
      /\ Ascends(batch[q]) /\ \A n \in Seqs(batch[q]) : n <= Frontier(q)
  <2>1. Seqs(batch[q]) \subseteq Known(q)
    BY <1>1 DEF Known, InHand
  <2>2. Known(q) \subseteq 1 .. Frontier(q)
    BY <1>1 DEF Path, Line, Unbroken
  <2>3. batch[q] \in Seq(Event) /\ queue[q] \in Seq(Event)
    BY DEF TabTypeOK, IInv, TypeOK
  <2>4. Ascends(batch[q])
    BY <1>1 DEF Path, Order
  <2>5. \A n \in Seqs(batch[q]) : n <= Frontier(q)
    BY <1>3, <2>1, <2>2
  <2> QED BY <2>3, <2>4, <2>5
<1>6. /\ Seqs(batch'[q]) = Seqs(batch[q]) \cup (Frontier(q) + 1 .. Frontier(q) + Len(queue[q]))
      /\ Ascends(batch'[q])
  <2> DEFINE c == batch[q] \o queue[q]
  <2>1. /\ Seqs(c) = Seqs(batch[q]) \cup (Frontier(q) + 1 .. Frontier(q) + Len(queue[q]))
        /\ Ascends(c)
    BY <1>3, <1>5, ConcatRun
  <2> QED BY <1>2, <2>1
<1> QED BY <1>1, <1>2, <1>3, <1>4, <1>6, PathTakes

-----------------------------------------------------------------------------
(* Every step keeps the line *)

\* The handler subscribes: the line begins at the newest event.
LEMMA PathOpen ==
  ASSUME IInv, TabTypeOK, PendInv, NEW q \in Queues, tab = q, Phase(q), First(q), Path(q), Open(q)
  PROVE  Path(q)'
<1>1. /\ hpc[q] = "accept" /\ hpc'[q] = "subscribed" /\ Subscribe(q)
      /\ UNCHANGED <<batch, wire, view, heard, pending>>
  BY DEF Open, At, TabTypeOK, tvars
<1>2. Frontier(q)' = seq /\ shed'[q] = {} /\ seq' = seq /\ seq \in Nat
  BY <1>1, SubscribeStarts DEF IInv, TypeOK
<1>3. OnWire(q)' = OnWire(q) /\ InHand(q)' = InHand(q) /\ FirstLive' = FirstLive
  BY <1>1 DEF OnWire, InHand, FirstLive
<1>4. Known(q)' = {} /\ Known(q) = {} /\ OnWire(q) = {} /\ InHand(q) = {}
  BY <1>1, <1>3 DEF Known, Path, Line
<1>5. Order(q)'
  BY <1>1, <1>3 DEF Path, Order
<1>6. Line(q)'
  BY <1>1, <1>2, <1>4 DEF Line, Unbroken
<1>7. Pend(q)'
  BY <1>1, <1>2, <1>3, <1>4 DEF Pend, Below, PendInv
<1> QED BY <1>5, <1>6, <1>7 DEF Path

\* The backlog is taken in hand, and nothing of it is counted as under way.
LEMMA PathSnapshot ==
  ASSUME IInv, loopOpen, TabTypeOK, NEW q \in Queues, tab = q, Phase(q), First(q), Path(q),
         Snapshot(q)
  PROVE  Path(q)'
<1>1. /\ hpc[q] = "subscribed" /\ hpc'[q] = "backlog" /\ batch[q] = <<>>
      /\ UNCHANGED <<wire, view, heard, pending, cvars>>
  BY DEF Snapshot, At, TabTypeOK, tvars, Phase
<1>2. Frontier(q)' = Frontier(q) /\ shed' = shed
  BY <1>1 DEF Frontier, Sent, cvars
<1>3. OnWire(q)' = OnWire(q) /\ FirstLive' = FirstLive
  BY <1>1 DEF OnWire, FirstLive
<1>4. InHand(q) = {} /\ InHand(q)' = {}
  <2>1. Seqs(<<>>) = {}
    BY DEF Seqs
  <2> QED BY <1>1, <2>1 DEF InHand
<1>5. Known(q)' = Known(q)
  BY <1>1, <1>3, <1>4 DEF Known
<1>6. Order(q)'
  BY <1>1, <1>3, <1>4 DEF Path, Order
<1>7. Line(q)'
  BY <1>1, <1>2, <1>5 DEF Path, Line
<1>8. Pend(q)'
  BY <1>1, <1>2, <1>3, <1>4 DEF Path, Pend
<1> QED BY <1>6, <1>7, <1>8 DEF Path

\* The backlog is sent as the first frame.
LEMMA PathSendBacklog ==
  ASSUME IInv, loopOpen, TabTypeOK, NEW q \in Queues, tab = q, Phase(q), First(q), Path(q),
         SendTo(q, "backlog", "loop")
  PROVE  Path(q)'
<1>0. wire[q] \in Seq(Seq(Event)) /\ batch[q] \in Seq(Event)
  BY KnownTypes
<1>1. /\ hpc[q] = "backlog" /\ hpc'[q] = "loop" /\ batch'[q] = <<>>
      /\ wire'[q] = Append(wire[q], batch[q]) /\ wire[q] = <<>> /\ ~ view.saw
      /\ UNCHANGED <<view, heard, pending, cvars>>
  BY OnTab DEF SendTo, At, TabTypeOK, tvars, First
<1>2. Frontier(q)' = Frontier(q) /\ shed' = shed
  BY <1>1 DEF Frontier, Sent, cvars
<1>3. FirstLive' = 2 /\ FirstLive = 2
  BY <1>1 DEF FirstLive
<1>4. Len(wire'[q]) = 1 /\ wire'[q] \in Seq(Seq(Event))
  <2>1. Len(wire[q]) = 0
    BY <1>1
  <2> QED BY <1>0, <1>1, <2>1, AppendProperties
<1>5. OnWire(q)' = {} /\ Tidy(wire'[q], 2)
  <2>1. 2 \in Nat /\ 2 > Len(wire'[q])
    BY <1>4
  <2>2. Carried(wire'[q], 2) = {} /\ Tidy(wire'[q], 2)
    BY <1>4, <2>1, CarriedNone
  <2> QED BY <1>3, <2>2 DEF OnWire
<1>6. OnWire(q) = {}
  <2>1. Len(wire[q]) = 0
    BY <1>1
  <2> QED BY <1>0, <1>3, <2>1, CarriedNone DEF OnWire
<1>7. InHand(q) = {} /\ InHand(q)' = {} /\ Ascends(batch'[q])
  <2>1. Seqs(<<>>) = {} /\ Ascends(<<>>)
    BY DEF Seqs, Ascends
  <2> QED BY <1>1, <2>1 DEF InHand
<1>8. Known(q)' = Known(q)
  BY <1>1, <1>5, <1>6, <1>7 DEF Known
<1>9. Order(q)'
  BY <1>1, <1>3, <1>5, <1>7 DEF Order, Below
<1>10. Line(q)'
  BY <1>1, <1>2, <1>8 DEF Path, Line
<1>11. Pend(q)'
  BY <1>1, <1>2, <1>5, <1>7 DEF Path, Pend, Below
<1> QED BY <1>9, <1>10, <1>11 DEF Path

\* A batch is sent behind the frames under way.
LEMMA PathSend ==
  ASSUME IInv, loopOpen, TabTypeOK, NEW q \in Queues, tab = q, Phase(q), First(q), Path(q),
         SendTo(q, "send", "sleep")
  PROVE  Path(q)'
<1>0. /\ wire[q] \in Seq(Seq(Event)) /\ batch[q] \in Seq(Event) /\ FirstLive \in 1 .. 2
      /\ Len(wire[q]) \in Nat
  BY KnownTypes, LenProperties
<1>1. /\ hpc[q] = "send" /\ hpc'[q] = "sleep" /\ batch'[q] = <<>>
      /\ wire'[q] = Append(wire[q], batch[q]) /\ (view.saw \/ wire[q] # <<>>)
      /\ UNCHANGED <<view, heard, pending, cvars>>
  BY OnTab DEF SendTo, At, TabTypeOK, tvars, First
<1>2. Frontier(q)' = Frontier(q) /\ shed' = shed
  BY <1>1 DEF Frontier, Sent, cvars
<1>3. FirstLive' = FirstLive /\ FirstLive \in 1 .. Len(wire[q]) + 1
  <2>1. wire[q] # <<>> => Len(wire[q]) # 0
    BY <1>0, EmptySeq
  <2> QED BY <1>0, <1>1, <2>1 DEF FirstLive
<1>4. InHand(q) = Seqs(batch[q]) /\ InHand(q)' = {} /\ Ascends(batch'[q])
  <2>1. Seqs(<<>>) = {} /\ Ascends(<<>>)
    BY DEF Seqs, Ascends
  <2> QED BY <1>1, <2>1 DEF InHand
<1>5. OnWire(q)' = OnWire(q) \cup InHand(q) /\ Tidy(wire'[q], FirstLive)
  <2>1. Tidy(wire[q], FirstLive) /\ Ascends(batch[q])
        /\ Below(Carried(wire[q], FirstLive), Seqs(batch[q]))
    BY <1>1, <1>4 DEF Path, Order, OnWire
  <2> QED BY <1>0, <1>1, <1>3, <1>4, <2>1, CarriedAppend DEF OnWire
<1>6. Known(q)' = Known(q)
  BY <1>1, <1>4, <1>5 DEF Known
<1>7. Order(q)'
  BY <1>1, <1>3, <1>4, <1>5 DEF Path, Order, Below
<1>8. Line(q)'
  BY <1>1, <1>2, <1>6 DEF Path, Line
<1>9. Pend(q)'
  BY <1>1, <1>2, <1>4, <1>5 DEF Path, Pend
<1> QED BY <1>7, <1>8, <1>9 DEF Path

\* Every step of the handler keeps the line of its own connection.
LEMMA PathHandler ==
  ASSUME IInv, loopOpen, TabTypeOK, PendInv, NEW q \in Queues, tab = q, Phase(q), First(q), Path(q),
         Handler(q)
  PROVE  Path(q)'
<1>1. CASE Open(q) \/ Snapshot(q) \/ Drain(q)
  BY <1>1, PathOpen, PathSnapshot, PathDrain
<1>2. CASE Send(q)
  BY <1>2, PathSendBacklog, PathSend DEF Send
<1>3. CASE Wait(q) \/ Wake(q)
  <2>1. /\ hpc[q] \in {"loop", "sleep"} /\ hpc'[q] \in {"wait", "loop"}
        /\ UNCHANGED <<cvars, batch, wire, view, heard, pending>>
    BY <1>3 DEF Wait, Wake, At, TabTypeOK, tvars
  <2>2. Frontier(q)' = Frontier(q) /\ shed' = shed
    BY <2>1 DEF Frontier, Sent, cvars
  <2>3. q \in Live
    BY <2>1, OnTab
  <2> QED BY <2>1, <2>2, <2>3, PathStill
<1>4. CASE AcceptFails(q) \/ SendFails(q) \/ LoopEnds(q) \/ Leave(q) \/ Finish(q)
  BY <1>4, OnTab DEF AcceptFails, SendFails, LoopEnds, Leave, Finish, At
<1> QED BY <1>1, <1>2, <1>3, <1>4 DEF Handler

\* A step of another connection's handler, or its queue.get(), leaves it alone.
LEMMA PathOthers ==
  ASSUME IInv, loopOpen, TabTypeOK, NEW q \in Queues, tab = q, Phase(q), First(q), Path(q),
         NEW p \in Queues, p # q, Handler(p) \/ Get(p) \/ SeeDisconnect(p)
  PROVE  Path(q)'
<1>1. /\ hpc'[q] = hpc[q] /\ batch'[q] = batch[q] /\ wire'[q] = wire[q]
      /\ UNCHANGED <<view, heard, pending>>
  BY DEF Handler, Open, AcceptFails, Snapshot, Send, SendTo, SendFails, Wait, LoopEnds, Drain,
         Leave, Wake, Finish, Get, SeeDisconnect, At, TabTypeOK, tvars
<1>2. hpc[q] # "accept" => q \in Live
  BY OnTab
<1>3. UNCHANGED cvars \/ (\E n : Take(p, n)) \/ Subscribe(p) \/ Unsubscribe(p)
  BY ServerCalls
<1>4. q \in Live => Frontier(q)' = Frontier(q) /\ shed' = shed
  <2>1. CASE UNCHANGED cvars
    BY <2>1 DEF Frontier, Sent, cvars
  <2>2. ASSUME NEW n, Take(p, n), q \in Live
        PROVE  Frontier(q)' = Frontier(q) /\ shed' = shed
    BY <2>2, TakeMoves
  <2>3. CASE Subscribe(p) \/ Unsubscribe(p)
    BY <2>3, OthersComeAndGo
  <2> QED BY <1>3, <2>1, <2>2, <2>3
<1> QED BY <1>1, <1>2, <1>4, PathStill

\* The first frame is the backlog: nothing of it is heard.
LEMMA PathFirst ==
  ASSUME IInv, loopOpen, TabTypeOK, NEW q \in Queues, tab = q, Phase(q), First(q), Path(q),
         Receive(q), ~ view.saw
  PROVE  Path(q)' /\ UNCHANGED <<heard, pending>>
         /\ view'.last = view.last /\ view'.dropped = view.dropped
         /\ view'.droppedBefore = view.droppedBefore
<1>1. /\ wire[q] # <<>> /\ wire'[q] = Tail(wire[q]) /\ heard = {}
      /\ UNCHANGED <<cvars, hpc, batch, heard, pending>>
  BY DEF Receive, FirstFrame, First, TabTypeOK
<1>2. /\ view'.saw /\ view'.last = view.last /\ view'.dropped = view.dropped
      /\ view'.droppedBefore = view.droppedBefore
  BY DEF Receive, FirstFrame, TabTypeOK, ViewType
<1>3. hpc[q] \notin {"accept", "backlog"} /\ q \in Live
  BY <1>1, OnTab DEF First
<1>4. Frontier(q)' = Frontier(q) /\ shed' = shed
  BY <1>1 DEF Frontier, Sent, cvars
<1>5. FirstLive = 2 /\ FirstLive' = 1
  BY <1>2 DEF FirstLive
<1>6. wire[q] \in Seq(Seq(Event))
  BY KnownTypes
<1>7. OnWire(q)' = OnWire(q) /\ (Tidy(wire[q], 2) => Tidy(wire'[q], 1))
  BY <1>1, <1>5, <1>6, CarriedTail DEF OnWire
<1>8. InHand(q)' = InHand(q) /\ Known(q)' = Known(q)
  BY <1>1, <1>7 DEF InHand, Known
<1>9. Order(q)'
  BY <1>1, <1>5, <1>7, <1>8 DEF Path, Order
<1>10. Line(q)'
  BY <1>1, <1>4, <1>8 DEF Path, Line
<1>11. Pend(q)'
  BY <1>1, <1>4, <1>7, <1>8 DEF Path, Pend
<1> QED BY <1>1, <1>2, <1>9, <1>10, <1>11 DEF Path

\* A later frame is heard: its events are newer than all heard before, and
\* older than all that is still under way.
LEMMA PathNext ==
  ASSUME IInv, loopOpen, TabTypeOK, PendInv, CountInv,
         NEW q \in Queues, tab = q, Phase(q), First(q), Path(q), Receive(q), view.saw
  PROVE  /\ Path(q)' /\ CountInv' /\ PendInv'
         /\ Seqs(Head(wire[q])) \subseteq 1 .. seq
         /\ Below(heard, Seqs(Head(wire[q])))
         /\ heard' = heard \cup Seqs(Head(wire[q]))
         /\ view'.droppedBefore = view.droppedBefore
<1> DEFINE frame == Head(wire[q])
<1>1. /\ wire[q] # <<>> /\ wire'[q] = Tail(wire[q])
      /\ UNCHANGED <<cvars, hpc, batch>>
      /\ view' = FoldLeft(NoteSeq, view, frame)
      /\ heard' = heard \cup {e.seq : e \in ToSet(frame)}
      /\ pending' = FoldLeft(Buffered, pending, frame)
  BY DEF Receive, NextFrame, TabTypeOK
<1>2. wire[q] \in Seq(Seq(Event)) /\ view \in ViewType /\ heard \in SUBSET Nat /\ pending \in Seq(Event)
  BY KnownTypes DEF TabTypeOK
<1>3. FirstLive = 1 /\ OnWire(q) = Carried(wire[q], 1) /\ Tidy(wire[q], 1)
  BY DEF FirstLive, OnWire, Path, Order
<1>4. /\ frame \in Seq(Event) /\ Ascends(frame)
      /\ OnWire(q) = Seqs(frame) \cup Carried(wire'[q], 1)
      /\ Below(Seqs(frame), Carried(wire'[q], 1))
      /\ Tidy(wire'[q], 1)
  BY <1>1, <1>2, <1>3, CarriedTail
<1> HIDE DEF frame
<1>5. heard' = heard \cup Seqs(frame)
  BY <1>1, <1>4, SeqsFacts
<1>7. hpc[q] \notin {"accept", "backlog"} /\ q \in Live
  BY OnTab DEF First
<1>8. Frontier(q)' = Frontier(q) /\ shed' = shed /\ seq' = seq
  BY <1>1 DEF Frontier, Sent, cvars
<1>9. Unbroken(Known(q), Frontier(q), shed[q]) /\ Frontier(q) <= seq /\ seq \in Nat
  BY <1>7, FrontierFacts DEF Path, Line, IInv, TypeOK
<1>10. Seqs(frame) \subseteq Known(q) /\ Known(q) \subseteq 1 .. Frontier(q)
  BY <1>4, <1>9 DEF Known, Unbroken
<1>11. Seqs(frame) \subseteq 1 .. seq
  BY <1>9, <1>10 DEF Unbroken
<1>12. Below(heard, Seqs(frame))
  BY <1>4 DEF Path, Order, Below
<1>13. /\ view'.saw /\ CountInv' /\ view'.droppedBefore = view.droppedBefore
  <2>1. \A n \in Seqs(frame) : n > 0
    BY <1>9, <1>11
  <2> QED BY <1>1, <1>2, <1>4, <1>5, <1>12, <2>1, NotesAll DEF CountInv
<1>14. FirstLive' = 1 /\ OnWire(q)' = Carried(wire'[q], 1)
  BY <1>13 DEF FirstLive, OnWire
<1>15. InHand(q)' = InHand(q) /\ Known(q)' = Known(q)
  BY <1>1, <1>4, <1>5, <1>14 DEF InHand, Known
<1>16. /\ Seqs(pending') \subseteq Seqs(pending) \cup Seqs(frame)
       /\ Ascends(pending) /\ Ascends(frame) /\ Below(Seqs(pending), Seqs(frame))
            => Ascends(pending')
  BY <1>1, <1>2, <1>4, BufferedAll
<1>17. Below(Seqs(pending), Seqs(frame))
  BY <1>4 DEF Path, Pend, Below
<1>18. PendInv'
  BY <1>8, <1>9, <1>11, <1>16, <1>17, <1>4 DEF PendInv
<1>19. Order(q)'
  <2>1. Below(heard \cup Seqs(frame), Carried(wire'[q], 1))
    BY <1>4 DEF Path, Order, Below
  <2>2. Below(heard \cup Seqs(frame), InHand(q)) /\ Below(Carried(wire'[q], 1), InHand(q))
    BY <1>4 DEF Path, Order, Below
  <2> QED BY <1>1, <1>4, <1>5, <1>14, <1>15, <2>1, <2>2 DEF Path, Order
<1>20. Line(q)'
  BY <1>1, <1>7, <1>8, <1>9, <1>15 DEF Line
<1>21. Pend(q)'
  <2>1. \A s \in Seqs(pending') : s <= Frontier(q)
    <3>1. \A s \in Seqs(frame) : s <= Frontier(q)
      BY <1>9, <1>10 DEF Unbroken
    <3> QED BY <1>7, <1>16, <3>1 DEF Path, Pend
  <2>2. Below(Seqs(pending'), Carried(wire'[q], 1) \cup InHand(q))
    <3>1. Below(Seqs(pending), Carried(wire'[q], 1) \cup InHand(q))
      BY <1>4 DEF Path, Pend, Below
    <3>2. Below(Seqs(frame), Carried(wire'[q], 1) \cup InHand(q))
      BY <1>4 DEF Path, Order, Below
    <3> QED BY <1>16, <3>1, <3>2 DEF Below
  <2> QED BY <1>8, <1>14, <1>15, <2>1, <2>2 DEF Pend
<1> QED BY <1>5, <1>11, <1>12, <1>13, <1>18, <1>19, <1>20, <1>21 DEF Path, frame

-----------------------------------------------------------------------------
(* The invariant of the stream *)

SInv == IInv /\ TabTypeOK /\ PhaseInv /\ FirstInv /\ LineInv /\ PendInv /\ CountInv

\* Only a Stamp counts an event.
LEMMA PushNumbers ==
  ASSUME IInv, NEW th \in Threads, Push(th)
  PROVE  seq' \in {seq, seq + 1} /\ seq' >= seq
<1>1. seq \in Nat
  BY DEF IInv, TypeOK
<1>2. CASE Stamp(th)
  BY <1>1, <1>2 DEF Stamp, IInv, SeqInv
<1>3. CASE ~ Stamp(th)
  <2>1. seq' = seq
    BY <1>3 DEF Push, Create, Acquire, ReadSeq, AppendRing, Schedule, Release
  <2> QED BY <1>1, <2>1
<1> QED BY <1>2, <1>3

\* A step that changes nothing the counters and the buffer are made of.
LEMMA CountsKept ==
  ASSUME PendInv, CountInv, TabTypeOK, seq \in Nat, seq' \in Nat, seq' >= seq,
         UNCHANGED <<pending, heard>>, view'.last = view.last,
         view'.dropped = view.dropped, view'.droppedBefore = view.droppedBefore
  PROVE  PendInv' /\ CountInv'
<1>1. \A s \in Seqs(pending) : s \in Nat
  BY SeqsFacts DEF TabTypeOK
<1>2. PendInv'
  BY <1>1 DEF PendInv
<1>3. CountInv'
  BY DEF CountInv, Notes
<1> QED BY <1>2, <1>3

\* A new connection has heard nothing, and nothing is under way to it.
LEMMA ConnectStarts ==
  ASSUME TabTypeOK, NEW q \in Queues, Phase(q), Connect(q)
  PROVE  Path(q)' /\ CountInv'
<1>1. /\ hpc'[q] = "accept" /\ heard' = {} /\ ~ view'.saw
      /\ view'.last = 0 /\ view'.dropped = view'.droppedBefore /\ view'.dropped \in Nat
      /\ wire' = wire /\ batch' = batch /\ conn[q] = "new"
  BY DEF Connect, Fresh, TabTypeOK, ViewType
<1>2. wire[q] = <<>> /\ batch[q] = <<>>
  BY <1>1 DEF Phase
<1>3. FirstLive' = 2
  BY <1>1 DEF FirstLive
<1>4. Carried(<<>>, 2) = {} /\ Tidy(<<>>, 2)
  <2>1. <<>> \in Seq(Seq(Event)) /\ Len(<<>>) = 0 /\ 2 \in Nat /\ 2 > 0
    BY EmptySeq
  <2> QED BY <2>1, CarriedNone
<1>5. OnWire(q)' = {} /\ InHand(q)' = {}
  <2>1. Seqs(<<>>) = {}
    BY DEF Seqs
  <2> QED BY <1>1, <1>2, <1>3, <1>4, <2>1 DEF OnWire, InHand
<1>6. Order(q)'
  <2>1. Ascends(<<>>)
    BY DEF Ascends
  <2> QED BY <1>1, <1>2, <1>3, <1>4, <1>5, <2>1 DEF Order, Below
<1>7. Line(q)' /\ Pend(q)'
  BY <1>1, <1>5 DEF Line, Pend, Known, Below
<1>8. CountInv'
  <2>1. Cardinality(Gaps(heard')) = 0
    <3>1. Gaps({}) = {} /\ Cardinality({}) = 0
      BY FS_EmptySet DEF Gaps
    <3> QED BY <1>1, <3>1, Zenon
  <2>2. view'.dropped - view'.droppedBefore = 0
    BY <1>1
  <2> QED BY <1>1, <2>1, <2>2 DEF CountInv, Notes
<1> QED BY <1>6, <1>7, <1>8 DEF Path

\* What the tab's connection has in front of it.
LEMMA TabPath ==
  ASSUME PhaseInv, FirstInv, LineInv, NEW q \in Queues
  PROVE  Phase(q) /\ First(q) /\ (tab = q => Path(q))
BY DEF PhaseInv, FirstInv, LineInv, Phase, First, Path

\* Every step keeps the line, the counters and the buffer.
LEMMA StepLines ==
  ASSUME SInv, IInv', TabTypeOK', [SNext]_vars
  PROVE  LineInv' /\ PendInv' /\ CountInv'
<1>0. /\ IInv /\ TabTypeOK /\ loopOpen /\ PendInv /\ CountInv
      /\ seq \in Nat /\ seq' \in Nat /\ seq >= seq
  BY DEF SInv, PhaseInv, IInv, TypeOK
<1>00. \A q \in Queues : Phase(q) /\ First(q) /\ (tab = q => Path(q))
  BY TabPath DEF SInv
<1>000. \A q \in Queues : tab = q /\ hpc[q] # "accept" => q \in Live
  BY <1>0, <1>00, OnTab
<1>1. SUFFICES (\A q \in Queues : tab' = q => Path(q)') /\ PendInv' /\ CountInv'
  BY DEF LineInv, Path
<1>2. ASSUME NEW th \in Threads, Emit(th)
      PROVE  (\A q \in Queues : tab' = q => Path(q)') /\ PendInv' /\ CountInv'
  <2>1. Push(th) /\ UNCHANGED <<hpc, batch, wire, tab, view, pending, heard>>
    BY <1>2 DEF Emit, hvars, tvars
  <2>2. PendInv' /\ CountInv'
    BY <1>0, <2>1, PushNumbers, CountsKept
  <2>3. ASSUME NEW q \in Queues, tab = q PROVE Path(q)'
    <3>1. q \in Live => Frontier(q)' = Frontier(q) /\ shed' = shed
      BY <1>0, <2>1, PushKeepsFrontier
    <3> QED BY <1>0, <1>00, <1>000, <2>1, <2>3, <3>1, PathStill
  <2> QED BY <2>1, <2>2, <2>3
<1>3. ASSUME NEW p \in Queues, RunDeliver(p)
      PROVE  (\A q \in Queues : tab' = q => Path(q)') /\ PendInv' /\ CountInv'
  <2>1. Deliver(p) /\ seq' = seq /\ UNCHANGED <<hpc, batch, wire, tab, view, pending, heard>>
    BY <1>3 DEF RunDeliver, Deliver, hvars, tvars
  <2>2. PendInv' /\ CountInv'
    BY <1>0, <2>1, CountsKept
  <2>3. ASSUME NEW q \in Queues, tab = q PROVE Path(q)'
    <3>1. q \in Live => /\ Frontier(q)' \in Int /\ Frontier(q)' >= Frontier(q)
                        /\ shed'[q] = shed[q] \cup (Frontier(q) + 1 .. Frontier(q)')
      BY <1>0, <2>1, DeliverSheds
    <3> QED BY <1>0, <1>00, <1>000, <2>1, <2>3, <3>1, PathCalm
  <2> QED BY <2>1, <2>2, <2>3
<1>4. ASSUME NEW p \in Queues, Handler(p) \/ Get(p) \/ SeeDisconnect(p)
      PROVE  (\A q \in Queues : tab' = q => Path(q)') /\ PendInv' /\ CountInv'
  <2>1. seq' = seq /\ UNCHANGED <<tab, view, pending, heard>>
    BY <1>4 DEF Handler, Open, AcceptFails, Snapshot, Send, SendTo, SendFails, Wait, LoopEnds,
                Drain, Leave, Wake, Finish, Get, SeeDisconnect, At, Subscribe, Unsubscribe, Take,
                tvars, cvars
  <2>2. PendInv' /\ CountInv'
    BY <1>0, <2>1, CountsKept
  <2>3. ASSUME NEW q \in Queues, tab = q PROVE Path(q)'
    <3>1. CASE p # q
      BY <1>0, <1>00, <1>4, <2>3, <3>1, PathOthers
    <3>2. CASE p = q /\ Handler(q)
      BY <1>0, <1>00, <2>3, <3>2, PathHandler
    <3>3. CASE p = q /\ Get(q)
      BY <1>0, <1>00, <2>3, <3>3, PathGet
    <3>4. CASE p = q /\ SeeDisconnect(q)
      BY <1>0, <1>00, <2>3, <3>4, OnTab DEF SeeDisconnect
    <3> QED BY <1>4, <3>1, <3>2, <3>3, <3>4
  <2> QED BY <2>1, <2>2, <2>3
<1>5. ASSUME NEW p \in Queues, Connect(p)
      PROVE  (\A q \in Queues : tab' = q => Path(q)') /\ PendInv' /\ CountInv'
  <2>1. tab' = p /\ seq' = seq /\ pending' = pending
    BY <1>5 DEF Connect, cvars
  <2>2. Path(p)' /\ CountInv'
    BY <1>0, <1>00, <1>5, ConnectStarts
  <2>3. PendInv'
    BY <1>0, <2>1 DEF PendInv
  <2> QED BY <2>1, <2>2, <2>3
<1>6. ASSUME NEW p \in Queues, Disconnect(p)
      PROVE  (\A q \in Queues : tab' = q => Path(q)') /\ PendInv' /\ CountInv'
  <2>1. tab' = NoQueue /\ seq' = seq /\ UNCHANGED <<view, pending, heard>>
    BY <1>6 DEF Disconnect, cvars
  <2>2. PendInv' /\ CountInv'
    BY <1>0, <2>1, CountsKept
  <2> QED BY <2>1, <2>2, StreamAssumption
<1>7. ASSUME NEW p \in Queues, Receive(p)
      PROVE  (\A q \in Queues : tab' = q => Path(q)') /\ PendInv' /\ CountInv'
  <2>1. tab' = tab /\ tab = p /\ seq' = seq
    BY <1>7 DEF Receive, cvars
  <2>2. CASE ~ view.saw
    BY <1>0, <1>00, <1>7, <2>1, <2>2, PathFirst, CountsKept
  <2>3. CASE view.saw
    BY <1>0, <1>00, <1>7, <2>1, <2>3, PathNext
  <2> QED BY <2>2, <2>3
<1>8. CASE UNCHANGED vars
  <2>1. seq' = seq /\ UNCHANGED <<cvars, hpc, batch, wire, tab, view, pending, heard>>
    BY <1>8 DEF vars, hvars, tvars, cvars
  <2>2. PendInv' /\ CountInv'
    BY <1>0, <2>1, CountsKept
  <2>3. ASSUME NEW q \in Queues, tab = q PROVE Path(q)'
    <3>1. Frontier(q)' = Frontier(q) /\ shed' = shed
      BY <2>1 DEF Frontier, Sent, cvars
    <3> QED BY <1>0, <1>00, <1>000, <2>1, <2>3, <3>1, PathStill
  <2> QED BY <2>1, <2>2, <2>3
<1> QED BY <1>2, <1>3, <1>4, <1>5, <1>6, <1>7, <1>8 DEF SNext

\* It holds at first.
LEMMA InitLines == SInit => LineInv /\ PendInv /\ CountInv
<1> SUFFICES ASSUME SInit
             PROVE  LineInv /\ PendInv /\ CountInv
  OBVIOUS
<1>1. tab = NoQueue /\ view = Fresh(0) /\ pending = <<>> /\ heard = {}
  BY DEF SInit
<1>2. LineInv
  BY <1>1, StreamAssumption DEF LineInv
<1>3. PendInv
  <2>1. Ascends(<<>>) /\ Seqs(<<>>) = {}
    BY DEF Ascends, Seqs
  <2> QED BY <1>1, <2>1 DEF PendInv
<1>4. CountInv
  <2>1. Cardinality(Gaps(heard)) = 0
    <3>1. Gaps({}) = {} /\ Cardinality({}) = 0
      BY FS_EmptySet DEF Gaps
    <3> QED BY <1>1, <3>1, Zenon
  <2>2. view.dropped - view.droppedBefore = 0 /\ view.last = 0
    BY <1>1 DEF Fresh
  <2> QED BY <1>1, <2>1, <2>2 DEF CountInv, Notes
<1> QED BY <1>2, <1>3, <1>4

\* The invariant holds in every state of the stream.
LEMMA StreamInvariance == SSpec => []SInv
<1>1. SInit => PhaseInv /\ FirstInv /\ LineInv /\ PendInv /\ CountInv
  BY InitPhases, InitLines
<1>2. ASSUME SInv, IInv', TabTypeOK', [SNext]_vars
      PROVE  SInv'
  <2>1. PhaseInv' /\ FirstInv'
    BY <1>2, StepPhases DEF SInv, IInv
  <2>2. LineInv' /\ PendInv' /\ CountInv'
    BY <1>2, StepLines
  <2> QED BY <1>2, <2>1, <2>2 DEF SInv
<1>3. StreamTypeOK => TabTypeOK
  BY DEF StreamTypeOK, TabTypeOK, ViewType
<1>4. SInv <=> IInv /\ TabTypeOK /\ PhaseInv /\ FirstInv /\ LineInv /\ PendInv /\ CountInv
  BY DEF SInv
<1> QED BY <1>1, <1>2, <1>3, <1>4, StreamImplementsCollector, Invariance, StreamTypeCorrect, PTL
        DEF SSpec

-----------------------------------------------------------------------------
(* What the tab is told, and what it is promised *)

\* What a connection passed over is exactly what its queue shed in between.
LEMMA GapsAreShed ==
  ASSUME SInv, tab # NoQueue
  PROVE  Missed = Gaps(heard)
<1> DEFINE q == tab
<1>1. q \in Queues /\ TabTypeOK /\ PhaseInv /\ FirstInv /\ LineInv
  BY DEF SInv, TabTypeOK
<1>2. Path(q) /\ heard \in SUBSET Nat /\ shed[q] \in SUBSET Nat
  BY <1>1, TabPath DEF SInv, IInv, TypeOK, TabTypeOK
<1>3. CASE hpc[q] = "accept"
  <2>1. heard = {}
    BY <1>2, <1>3 DEF Path, Line, Known
  <2> QED BY <2>1 DEF Missed, Gaps
<1>4. CASE hpc[q] # "accept"
  <2>1. Unbroken(Known(q), Frontier(q), shed[q])
    BY <1>2, <1>4 DEF Path, Line
  <2>2. /\ Frontier(q) \in Nat /\ heard \subseteq Known(q) /\ Known(q) \subseteq 1 .. Frontier(q)
        /\ heard \cap shed[q] = {}
    BY <2>1 DEF Unbroken, Known
  <2>3. view.last \in Nat /\ (heard # {} => view.last \in heard /\ \A h \in heard : h <= view.last)
    BY DEF SInv, CountInv, Notes, TabTypeOK, ViewType
  <2>4. ASSUME NEW s \in Missed PROVE s \in Gaps(heard)
    <3>1. s \in shed[q] /\ s < view.last /\ \E h \in heard : h < s
      BY <2>4 DEF Missed
    <3>2. s \in Nat /\ s \notin heard /\ view.last \in heard
      BY <1>2, <2>2, <2>3, <3>1
    <3> QED BY <3>1, <3>2 DEF Gaps
  <2>5. ASSUME NEW s \in Gaps(heard) PROVE s \in Missed
    <3>1. s \in Nat /\ s \notin heard
      BY <2>5 DEF Gaps
    <3>2. PICK lo \in heard, hi \in heard : lo < s /\ s < hi
      BY <2>5 DEF Gaps
    <3>3. lo \in Nat /\ hi \in Nat /\ hi <= Frontier(q) /\ lo \in Known(q)
      BY <1>2, <2>2
    <3>4. s \in 1 .. Frontier(q)
      BY <2>2, <3>1, <3>2, <3>3
    <3>5. s \in Known(q) \cup shed[q]
      BY <2>1, <3>2, <3>3, <3>4 DEF Unbroken
    <3>6. s \notin OnWire(q) \cup InHand(q)
      BY <1>2, <3>1, <3>2, <3>3 DEF Path, Order, Below
    <3>7. s \in shed[q]
      BY <3>1, <3>5, <3>6 DEF Known
    <3>8. s < view.last
      BY <2>3, <3>1, <3>2, <3>3
    <3> QED BY <3>2, <3>7, <3>8 DEF Missed
  <2> QED BY <2>4, <2>5
<1> QED BY <1>3, <1>4

\* The banner tells the truth: droppedCount grows by exactly what the server
\* shed between the first and the latest event heard (collector.py:44-49,
\* dashboard.js:160-169).
THEOREM DropsCounted == SSpec => []DropsAreCounted
<1>1. SInv => DropsAreCounted
  BY GapsAreShed DEF DropsAreCounted, SInv, CountInv, Notes
<1> QED BY <1>1, StreamInvariance, PTL

\* Nothing disappears between the queue, the getter, the batch and the socket
\* (app.py:171-188).
THEOREM NothingLost == SSpec => []NothingVanishes
<1>1. SInv => NothingVanishes
  <2> SUFFICES ASSUME SInv, tab # NoQueue, heard # {}, NEW s \in 1 .. view.last,
                      \E h \in heard : h < s, s \notin heard
               PROVE  s \in shed[tab]
    BY DEF NothingVanishes
  <2>1. view.last \in heard /\ heard \in SUBSET Nat
    BY DEF SInv, CountInv, Notes, TabTypeOK
  <2>2. s \in Nat /\ s < view.last
    <3>1. view.last \in Nat /\ s # view.last
      BY <2>1
    <3> QED BY <3>1
  <2>3. s \in Gaps(heard)
    BY <2>1, <2>2 DEF Gaps
  <2> QED BY <2>3, GapsAreShed DEF Missed
<1> QED BY <1>1, StreamInvariance, PTL

\* A reconnect repeats nothing in the playback buffer and leaves no subscription
\* behind (app.py:165-195, dashboard.js:2434-2463).
THEOREM ReconnectClean == SSpec => []ReconnectIsClean
<1>1. SInv => ReconnectIsClean
  <2> SUFFICES ASSUME SInv PROVE NoReplay /\ NoDeadSubscriber
    BY DEF ReconnectIsClean
  <2>1. NoReplay
    BY DEF SInv, PendInv, Ascends, NoReplay
  <2>2. NoDeadSubscriber
    BY DEF SInv, PhaseInv, NoDeadSubscriber
  <2> QED BY <2>1, <2>2
<1> QED BY <1>1, StreamInvariance, PTL

\* The holes of the promise are the gaps of the stream.
LEMMA HolesAreGaps ==
  ASSUME NEW H \in SUBSET Nat, NEW m \in Nat, H # {} => m \in H, \A h \in H : h <= m
  PROVE  Promise!Holes(H) = Gaps(H)
<1>1. CASE H = {}
  BY <1>1 DEF Promise!Holes, Gaps
<1>2. CASE H # {}
  <2>1. \E x \in H : \A y \in H : x <= y
    BY <1>2, Noting!LeastOf
  <2>2. Promise!Min(H) \in H /\ \A y \in H : Promise!Min(H) <= y
    BY <2>1 DEF Promise!Min
  <2>3. Promise!Max(H) \in H /\ \A y \in H : Promise!Max(H) >= y
    <3>1. m \in H /\ \A y \in H : m >= y
      BY <1>2
    <3> QED BY <3>1 DEF Promise!Max
  <2> DEFINE lo == Promise!Min(H)
             hi == Promise!Max(H)
  <2>4. Promise!Holes(H) = (lo .. hi) \ H
    BY <1>2 DEF Promise!Holes
  <2>5. lo \in Nat /\ hi \in Nat /\ lo \in H /\ hi \in H /\ \A y \in H : lo <= y /\ y <= hi
    BY <2>2, <2>3
  <2> HIDE DEF lo, hi
  <2>6. ASSUME NEW s \in (lo .. hi) \ H PROVE s \in Gaps(H)
    <3>1. s \in Nat /\ lo < s /\ s < hi
      BY <2>5, <2>6
    <3> QED BY <2>5, <2>6, <3>1 DEF Gaps
  <2>7. ASSUME NEW s \in Gaps(H) PROVE s \in (lo .. hi) \ H
    <3>1. s \in Nat /\ s \notin H /\ (\E h \in H : h < s) /\ (\E h \in H : s < h)
      BY <2>7 DEF Gaps
    <3>2. PICK a \in H, b \in H : a < s /\ s < b
      BY <3>1
    <3>3. lo <= a /\ b <= hi /\ a \in Nat /\ b \in Nat
      BY <2>5
    <3>4. lo <= s /\ s <= hi
      BY <2>5, <3>1, <3>2, <3>3
    <3> QED BY <2>5, <3>1, <3>4
  <2> QED BY <2>4, <2>6, <2>7
<1> QED BY <1>1, <1>2

\* The promise counts as the stream does.
LEMMA SameCount == \A S : Promise!Cardinality(S) = Cardinality(S)
BY DEF Promise!Cardinality, Cardinality

\* A frame heard adds to the count what the promise adds.
LEMMA HearingCounts ==
  ASSUME SInv, TabTypeOK', NEW q \in Queues, tab = q, Receive(q), view.saw
  PROVE  Promise!Hear(Seqs(Head(wire[q]))) /\ Seqs(Head(wire[q])) \in SUBSET (1 .. seq)
<1>0. /\ IInv /\ loopOpen /\ TabTypeOK /\ PendInv /\ CountInv
      /\ Phase(q) /\ First(q) /\ Path(q)
  BY TabPath DEF SInv, PhaseInv
<1>1. /\ CountInv' /\ Seqs(Head(wire[q])) \subseteq 1 .. seq
      /\ Below(heard, Seqs(Head(wire[q])))
      /\ heard' = heard \cup Seqs(Head(wire[q]))
      /\ view'.droppedBefore = view.droppedBefore
  BY <1>0, PathNext
<1>2. /\ heard \in SUBSET Nat /\ view.last \in Nat /\ view.dropped \in Nat
      /\ view.droppedBefore \in Nat
      /\ heard' \in SUBSET Nat /\ view'.last \in Nat /\ view'.dropped \in Nat
  BY <1>0 DEF TabTypeOK, ViewType
<1>3. /\ heard # {} => view.last \in heard
      /\ \A h \in heard : h <= view.last
      /\ view.dropped - view.droppedBefore = Cardinality(Gaps(heard))
  BY <1>0 DEF CountInv, Notes
<1>4. /\ heard' # {} => view'.last \in heard'
      /\ \A h \in heard' : h <= view'.last
      /\ view'.dropped - view.droppedBefore = Cardinality(Gaps(heard'))
  BY <1>1 DEF CountInv, Notes
<1>5. Promise!Holes(heard) = Gaps(heard) /\ Promise!Holes(heard') = Gaps(heard')
  BY <1>2, <1>3, <1>4, HolesAreGaps
<1>6. view'.dropped = view.dropped + Promise!Cardinality(Promise!Holes(heard'))
                        - Promise!Cardinality(Promise!Holes(heard))
  <2>1. Cardinality(Gaps(heard)) \in Nat /\ Cardinality(Gaps(heard')) \in Nat
    BY <1>2, <1>3, <1>4, GapsFinite
  <2>2. view'.dropped = view.dropped + Cardinality(Gaps(heard')) - Cardinality(Gaps(heard))
    BY <1>2, <1>3, <1>4, <2>1
  <2> QED BY <1>5, <2>2, SameCount, Zenon
<1>7. tab # NoQueue /\ tab' # NoQueue /\ seq' = seq
  BY StreamAssumption DEF Receive, cvars
<1> QED BY <1>1, <1>6, <1>7 DEF Promise!Hear, Below

\* Every step of threads, queues, handlers and sockets is a step of the promise
\* or none at all.
LEMMA StepIsPromised ==
  ASSUME SInv, TabTypeOK', [SNext]_vars
  PROVE  [Promise!Next]_(Promise!vars)
<1> DEFINE Quiet == seq' = seq /\ tab' = tab /\ heard' = heard /\ view'.dropped = view.dropped
<1>0. ASSUME Quiet PROVE [Promise!Next]_(Promise!vars)
  BY <1>0 DEF Promise!vars
<1>1. ASSUME NEW th \in Threads, Emit(th)
      PROVE  [Promise!Next]_(Promise!vars)
  <2>1. Push(th) /\ UNCHANGED <<tab, view, heard>>
    BY <1>1 DEF Emit, tvars
  <2>2. seq' \in {seq, seq + 1}
    BY <2>1, PushNumbers DEF SInv
  <2>3. CASE seq' = seq
    BY <1>0, <2>1, <2>3
  <2>4. CASE seq' = seq + 1
    BY <2>1, <2>4 DEF Promise!Next, Promise!Emit
  <2> QED BY <2>2, <2>3, <2>4
<1>2. ASSUME NEW q \in Queues, RunDeliver(q) \/ Handler(q) \/ Get(q) \/ SeeDisconnect(q)
      PROVE  [Promise!Next]_(Promise!vars)
  <2>1. Quiet
    BY <1>2 DEF RunDeliver, Deliver, Handler, Open, AcceptFails, Snapshot, Send, SendTo, SendFails,
                Wait, LoopEnds, Drain, Leave, Wake, Finish, Get, SeeDisconnect, Subscribe,
                Unsubscribe, Take, tvars, cvars
  <2> QED BY <1>0, <2>1
<1>3. ASSUME NEW q \in Queues, Connect(q)
      PROVE  [Promise!Next]_(Promise!vars)
  <2>1. tab = NoQueue /\ tab' # NoQueue /\ heard' = {} /\ seq' = seq
        /\ view'.dropped = view.dropped
    BY <1>3, StreamAssumption DEF Connect, Fresh, cvars
  <2> QED BY <2>1 DEF Promise!Next, Promise!Connect
<1>4. ASSUME NEW q \in Queues, Disconnect(q)
      PROVE  [Promise!Next]_(Promise!vars)
  <2>1. tab # NoQueue /\ tab' = NoQueue /\ UNCHANGED <<seq, heard, view>>
    BY <1>4, StreamAssumption DEF Disconnect, cvars
  <2> QED BY <2>1 DEF Promise!Next, Promise!Disconnect
<1>5. ASSUME NEW q \in Queues, Receive(q)
      PROVE  [Promise!Next]_(Promise!vars)
  <2>1. tab = q /\ tab' = tab /\ seq' = seq
    BY <1>5 DEF Receive, cvars
  <2>2. CASE ~ view.saw
    <3>1. view \in ViewType
      BY DEF SInv, TabTypeOK
    <3>2. heard' = heard /\ view'.dropped = view.dropped
      BY <1>5, <2>2, <3>1 DEF Receive, FirstFrame, ViewType
    <3> QED BY <1>0, <2>1, <3>2
  <2>3. CASE view.saw
    BY <1>5, <2>1, <2>3, HearingCounts DEF Promise!Next
  <2> QED BY <2>2, <2>3
<1>6. CASE UNCHANGED vars
  BY <1>0, <1>6 DEF vars, cvars, tvars
<1> QED BY <1>1, <1>2, <1>3, <1>4, <1>5, <1>6 DEF SNext

\* The stream keeps its promise: whatever threads, queues, handlers and sockets
\* do, a connected tab hears increasing numbers and counts every number it passes
\* over (collector.py:20-71, app.py:138-195, dashboard.js:160-169, 2434-2468).
THEOREM StreamKeepsPromise == SSpec => PromiseSpec
<1>1. SInit => Promise!Init
  BY DEF SInit, Init, Promise!Init, Fresh
<1>2. SInv /\ TabTypeOK' /\ [SNext]_vars => [Promise!Next]_(Promise!vars)
  BY StepIsPromised
<1>3. SInv => TabTypeOK
  BY DEF SInv
<1> QED BY <1>1, <1>2, <1>3, StreamInvariance, PTL DEF SSpec, PromiseSpec, Promise!Spec

=============================================================================
