--------------------------- MODULE Playback_proofs ---------------------------
(***************************************************************************)
(* For any buffer, speed and clock: nothing is lost, repeated or           *)
(* reordered, playback is never ahead of the server by more than the time  *)
(* between two frames, no frame of continuous play goes by idle while      *)
(* something is buffered, and a single step hides no hand-off.             *)
(*                                                                         *)
(* How far ahead the clock may be needs to know how old the last frame is  *)
(* (Clocks), and that whatever was buffered has happened (Past).           *)
(***************************************************************************)
EXTENDS Playback, SequenceTheorems, FiniteSetTheorems, TLAPS

\* Whom the loop is shown with, event by event: for what the recursion over a
\* sequence computes.
Showing == INSTANCE LeftFold WITH Op <- HolderAfter

Clocks ==
  /\ now \in 0 .. MaxTime /\ gap \in 0 .. MaxGap
  /\ lastFrame \in Nat /\ lastFrame = now - gap
  /\ maxSeenT \in 0 .. now
  /\ speed \in 1 .. Scale
  /\ virtualT \in Nat \cup {NoTime}

Buffers == pending \in Seq(Event) /\ log \in Seq(Event) /\ played \in Seq(Event)

\* What is buffered has happened.
Past == \A i \in 1 .. Len(pending) : pending[i].t <= now

IInv == Clocks /\ Buffers /\ Past /\ PlayedInOrder /\ LeadBounded

\* Sequences of events, put together in either order.
LEMMA Regrouped ==
  ASSUME NEW s \in Seq(Event), NEW t \in Seq(Event), NEW u \in Seq(Event)
  PROVE  (s \o t) \o u = s \o (t \o u)
<1> QED
  BY ConcatAssociative

USE PlaybackAssumption

-----------------------------------------------------------------------------
(* Arithmetic of the two clocks *)

\* Ticks in order are fractions in order.
LEMMA ScaleMonotone ==
  ASSUME NEW a \in Int, NEW b \in Int, a <= b
  PROVE  a * Scale \in Int /\ b * Scale \in Int /\ a * Scale <= b * Scale
<1>1. \A c, d \in Nat : c * d \in Nat
  BY SMT
<1>2. b - a \in Nat /\ (b - a) * Scale \in Nat
  BY <1>1
<1>3. b * Scale = a * Scale + (b - a) * Scale
  BY SMT
<1> QED
  BY <1>2, <1>3

\* A frame advances the clock by no more than the real time.
LEMMA AdvanceBounded ==
  ASSUME NEW dt \in Nat, NEW s \in 1 .. Scale
  PROVE  dt * s \in Nat /\ dt * s <= dt * Scale
<1>1. \A c, d \in Nat : c * d \in Nat
  BY SMT
<1>2. dt * s \in Nat /\ dt * (Scale - s) \in Nat
  BY <1>1
<1>3. dt * Scale = dt * s + dt * (Scale - s)
  BY SMT
<1> QED
  BY <1>2, <1>3

\* An event of the buffer, and what the invariant says of its time.
LEMMA Buffered ==
  ASSUME Clocks, Buffers, Past, NEW i \in 1 .. Len(pending)
  PROVE  /\ pending[i] \in Event /\ pending[i].t \in Nat
         /\ pending[i].t * Scale \in Nat
         /\ pending[i].t * Scale <= now * Scale
<1>1. pending[i] \in Event
  BY ElementOfSeq DEF Buffers
<1>2. pending[i].t \in Nat /\ pending[i].t <= now /\ now \in Nat
  <2>1. MaxTime \in Nat
    OBVIOUS
  <2>2. pending[i].t \in 0 .. MaxTime
    BY <1>1 DEF Event
  <2>3. pending[i].t <= now
    BY DEF Past
  <2>4. now \in 0 .. MaxTime
    BY DEF Clocks
  <2> QED BY <2>1, <2>2, <2>3, <2>4
<1>3. pending[i].t * Scale <= now * Scale
  <2>1. pending[i].t \in Int /\ now \in Int
    BY <1>2
  <2> QED
    BY <2>1, <1>2, ScaleMonotone, Zenon
<1>4. \A c, d \in Nat : c * d \in Nat
  BY SMT
<1> QED
  BY <1>1, <1>2, <1>3, <1>4

\* In a frame that finds something buffered the clock reaches the oldest event,
\* and is no more than the last gap ahead of the server.
LEMMA ClockInFrame ==
  ASSUME IInv, pending # <<>>
  PROVE  /\ ClockAt(now - lastFrame) \in Nat
         /\ Head(pending).t * Scale <= ClockAt(now - lastFrame)
         /\ ClockAt(now - lastFrame) <= (now + MaxGap) * Scale
<1> DEFINE dt == now - lastFrame
           oldest == Head(pending).t * Scale
           floor == (maxSeenT - MaxLag) * Scale
           advance == dt * speed
           \* The last frame, this one, the time between and its bound, in fractions.
           Last == lastFrame * Scale
           Now == now * Scale
           Between == dt * Scale
           Bound == MaxGap * Scale
           from == IF virtualT < oldest THEN oldest ELSE virtualT
           v == from + advance
<1>1. Head(pending) = pending[1] /\ 1 \in 1 .. Len(pending)
  BY HeadTailProperties DEF IInv, Buffers
<1>2. oldest \in Nat /\ oldest <= Now
  BY <1>1, Buffered DEF IInv
<1>3. /\ now \in Nat /\ now \in Int /\ lastFrame \in Nat /\ dt \in Nat /\ dt \in Int
      /\ MaxGap \in Int /\ maxSeenT - MaxLag \in Int
      /\ now = lastFrame + dt /\ dt <= MaxGap /\ maxSeenT - MaxLag <= now
  BY DEF IInv, Clocks
<1>4. advance \in Nat /\ advance <= Between
  BY <1>3, AdvanceBounded DEF IInv, Clocks
<1>5. Between <= Bound /\ Between \in Int /\ Bound \in Int
  BY <1>3, ScaleMonotone, Zenon
<1>6. floor <= Now /\ floor \in Int /\ Now \in Int
  BY <1>3, ScaleMonotone, Zenon
<1>7. Now = Last + Between /\ Last \in Int
  <2>1. (lastFrame + dt) * Scale = lastFrame * Scale + dt * Scale /\ lastFrame * Scale \in Int
    BY <1>3, SMT
  <2> QED
    BY <2>1, <1>3
<1>8. (now + MaxGap) * Scale = Now + Bound
  BY <1>3, SMT
<1>9. virtualT <= Last + Bound
  <2>1. (lastFrame + MaxGap) * Scale = lastFrame * Scale + MaxGap * Scale
    BY <1>3, SMT
  <2> QED
    BY <2>1 DEF IInv, LeadBounded
<1>10. virtualT \in Int
  BY DEF IInv, Clocks, NoTime
<1>11. ClockAt(dt) = IF v < floor THEN floor ELSE v
  BY DEF ClockAt
<1>12. from \in Int /\ v = from + advance /\ from \in {oldest, virtualT} /\ oldest <= from
  BY <1>2, <1>10
<1> HIDE DEF v, from, floor, advance, Last, Now, Between, Bound, oldest, dt
<1>13. v \in Nat /\ oldest <= v /\ v <= Now + Bound
  <2>1. CASE from = oldest
    BY <2>1, <1>2, <1>4, <1>5, <1>6, <1>12
  <2>2. CASE from = virtualT
    BY <2>2, <1>2, <1>4, <1>5, <1>7, <1>9, <1>10, <1>12
  <2> QED
    BY <2>1, <2>2, <1>12
<1>14. ClockAt(dt) \in Nat /\ oldest <= ClockAt(dt) /\ ClockAt(dt) <= Now + Bound
  BY <1>2, <1>4, <1>5, <1>6, <1>11, <1>13
<1> QED
  BY <1>8, <1>14 DEF oldest, dt

-----------------------------------------------------------------------------
(* The buffer *)

\* Playing takes from the front of the buffer what it adds to what was played.
LEMMA PlayKeepsOrder ==
  ASSUME IInv, NEW n \in 0 .. Len(pending), Play(n)
  PROVE  /\ pending' \in Seq(Event) /\ played' \in Seq(Event)
         /\ played' \o pending' = log
         /\ Len(pending') = Len(pending) - n
         /\ \A i \in 1 .. Len(pending') : pending'[i] = pending[i + n]
<1> DEFINE front == SubSeq(pending, 1, n)
           rest == SubSeq(pending, n + 1, Len(pending))
<1>1. pending \in Seq(Event) /\ played \in Seq(Event) /\ played \o pending = log
      /\ Len(pending) \in Nat
  BY LenProperties DEF IInv, Buffers, PlayedInOrder
<1>2. \A i \in 1 .. Len(pending) : pending[i] \in Event
  BY <1>1, ElementOfSeq
<1>3. front \in Seq(Event)
  BY <1>1, <1>2, SubSeqProperties
<1>4. /\ rest \in Seq(Event) /\ Len(rest) = Len(pending) - n
      /\ \A i \in 1 .. Len(rest) : rest[i] = pending[i + n]
  <2>1. \A i \in n + 1 .. Len(pending) : pending[i] \in Event
    BY <1>2
  <2>2. /\ rest \in Seq(Event)
        /\ Len(rest) = IF n + 1 <= Len(pending) THEN Len(pending) - (n + 1) + 1 ELSE 0
        /\ \A i \in 1 .. Len(pending) - (n + 1) + 1 : rest[i] = pending[n + 1 + i - 1]
    BY <1>1, <2>1, SubSeqProperties
  <2> QED
    BY <2>2, <1>1
<1>5. front \o rest = pending
  <2>1. 1 \in 1 .. Len(pending) + 1 /\ n \in 1 - 1 .. Len(pending) /\ Len(pending) \in n .. Len(pending)
    BY <1>1
  <2>2. front \o rest = SubSeq(pending, 1, Len(pending))
    BY <1>1, <2>1, ConcatAdjacentSubSeq, Zenon
  <2> QED
    BY <2>2, <1>1, SubSeqFull
<1>6. played' = played \o front /\ pending' = rest
  BY DEF Play
<1> HIDE DEF front, rest
<1>7. played \o front \in Seq(Event)
  BY <1>1, <1>3, ConcatProperties
<1>8. (played \o front) \o rest = played \o (front \o rest)
  <2>1. played \in Seq(Event) /\ front \in Seq(Event) /\ rest \in Seq(Event)
    BY <1>1, <1>3, <1>4
  <2> QED
    BY <2>1, Regrouped
<1> QED
  BY <1>1, <1>4, <1>5, <1>6, <1>7, <1>8

\* ... and leaves nothing there that was not there before.
LEMMA PlayKeepsPast ==
  ASSUME IInv, NEW n \in 0 .. Len(pending), Play(n), now' = now
  PROVE  Past'
<1>1. Len(pending) \in Nat
  BY LenProperties DEF IInv, Buffers
<1>2. Len(pending') = Len(pending) - n /\ \A i \in 1 .. Len(pending') : pending'[i] = pending[i + n]
  BY PlayKeepsOrder, Zenon
<1> SUFFICES ASSUME NEW i \in 1 .. Len(pending') PROVE pending'[i].t <= now'
  BY DEF Past
<1>3. i + n \in 1 .. Len(pending)
  BY <1>1, <1>2
<1>4. pending[i + n].t <= now
  BY <1>3 DEF IInv, Past
<1> QED
  BY <1>2, <1>4

-----------------------------------------------------------------------------
(* The invariant *)

\* The invariant holds at first.
LEMMA InitIInv == Init => IInv
<1> SUFFICES ASSUME Init PROVE IInv
  OBVIOUS
<1>1. <<>> \in Seq(Event) /\ Len(<<>>) = 0 /\ <<>> \o <<>> = <<>>
  BY EmptySeq, ConcatEmptySeq
<1>2. Clocks
  BY DEF Init, Clocks, NoTime
<1>3. Buffers /\ Past /\ PlayedInOrder
  BY <1>1 DEF Init, Buffers, Past, PlayedInOrder
<1>4. LeadBounded
  <2>1. 0 * Scale <= (0 + MaxGap) * Scale /\ (0 + MaxGap) * Scale \in Int
    BY ScaleMonotone
  <2> QED
    BY <2>1 DEF Init, LeadBounded, NoTime
<1> QED
  BY <1>2, <1>3, <1>4 DEF IInv

\* The passing of time keeps it: ages grow no faster than their bounds.
LEMMA PassIInv == IInv /\ Pass => IInv'
<1> SUFFICES ASSUME IInv, Pass PROVE IInv'
  OBVIOUS
<1>1. Clocks'
  BY DEF IInv, Clocks, Pass, clock
<1>2. Buffers' /\ PlayedInOrder'
  BY DEF IInv, Buffers, PlayedInOrder, Pass
<1>3. Past'
  <2>1. now' = now + 1 /\ now \in Nat /\ pending' = pending
    BY DEF IInv, Clocks, Pass
  <2>2. \A i \in 1 .. Len(pending) : pending[i].t \in Nat
    BY Buffered DEF IInv
  <2> QED
    BY <2>1, <2>2 DEF IInv, Past
<1>4. LeadBounded'
  BY DEF IInv, LeadBounded, Pass, clock
<1> QED
  BY <1>1, <1>2, <1>3, <1>4 DEF IInv

\* So does the arrival of an event.
LEMMA ArriveIInv ==
  ASSUME IInv, NEW t \in 0 .. MaxTime, NEW kind \in Kinds, NEW r \in Traces \cup {None},
         Arrive(t, kind, r)
  PROVE  IInv'
<1> DEFINE e == [id |-> Len(log) + 1, t |-> t, kind |-> kind, trace |-> r]
<1>1. pending \in Seq(Event) /\ played \in Seq(Event) /\ log \in Seq(Event) /\ Len(log) \in Nat
      /\ Len(pending) \in Nat
  BY LenProperties DEF IInv, Buffers
<1>2. e \in Event
  BY <1>1 DEF Arrive, Event
<1>3. /\ pending' = Append(pending, e) /\ log' = Append(log, e) /\ played' = played
      /\ t \in 0 .. now /\ now' = now /\ e.t = t
  BY DEF Arrive
<1> HIDE DEF e
<1>4. Clocks'
  BY <1>3 DEF IInv, Clocks, Arrive, clock
<1>5. Buffers'
  BY <1>1, <1>2, <1>3, AppendProperties DEF Buffers
<1>6. Past'
  <2>1. /\ Len(pending') = Len(pending) + 1
        /\ \A i \in 1 .. Len(pending) : pending'[i] = pending[i]
        /\ pending'[Len(pending) + 1] = e
    BY <1>1, <1>2, <1>3, AppendProperties
  <2>2. e.t <= now
    BY <1>3 DEF IInv, Clocks
  <2> SUFFICES ASSUME NEW i \in 1 .. Len(pending') PROVE pending'[i].t <= now'
    BY DEF Past
  <2>3. CASE i = Len(pending) + 1
    BY <2>3, <2>1, <2>2, <1>3
  <2>4. CASE i # Len(pending) + 1
    <3>1. i \in 1 .. Len(pending)
      BY <2>4, <2>1, <1>1
    <3> QED
      BY <3>1, <2>1, <1>3 DEF IInv, Past
  <2> QED
    BY <2>3, <2>4
<1>7. PlayedInOrder'
  <2>1. Append(pending, e) = pending \o <<e>> /\ <<e>> \in Seq(Event)
    BY <1>1, <1>2, AppendIsConcat
  <2>2. Append(log, e) = log \o <<e>>
    BY <1>1, <1>2, AppendIsConcat
  <2>3. played \o (pending \o <<e>>) = (played \o pending) \o <<e>>
    BY <1>1, <2>1, Regrouped
  <2> QED
    BY <1>3, <2>1, <2>2, <2>3 DEF IInv, PlayedInOrder
<1>8. LeadBounded'
  BY DEF IInv, LeadBounded, Arrive, clock
<1> QED
  BY <1>4, <1>5, <1>6, <1>7, <1>8 DEF IInv

\* So does an animation frame, whether it plays by the clock or waits.
LEMMA FrameIInv == IInv /\ Frame => IInv'
<1> SUFFICES ASSUME IInv, Frame PROVE IInv'
  OBVIOUS
<1>1. CASE stepMode \/ pending = <<>>
  <2>1. Clocks'
    BY <1>1 DEF IInv, Clocks, Frame
  <2>2. Buffers' /\ Past' /\ PlayedInOrder'
    BY <1>1 DEF IInv, Buffers, Past, PlayedInOrder, Frame
  <2>3. LeadBounded'
    <3>1. lastFrame + MaxGap <= now + MaxGap /\ lastFrame + MaxGap \in Int /\ now + MaxGap \in Int
      BY DEF IInv, Clocks
    <3>2. (lastFrame + MaxGap) * Scale <= (now + MaxGap) * Scale
          /\ (lastFrame + MaxGap) * Scale \in Int /\ (now + MaxGap) * Scale \in Int
      BY <3>1, ScaleMonotone
    <3>3. virtualT' = virtualT /\ lastFrame' = now /\ virtualT \in Int
      BY <1>1 DEF Frame, IInv, Clocks, NoTime
    <3> QED
      BY <3>2, <3>3 DEF IInv, LeadBounded
  <2> QED
    BY <2>1, <2>2, <2>3 DEF IInv
<1>2. CASE ~ (stepMode \/ pending = <<>>)
  <2>1. /\ gap' = 0 /\ lastFrame' = now /\ virtualT' = ClockAt(now - lastFrame)
        /\ UNCHANGED <<now, maxSeenT, speed, log>>
    BY <1>2 DEF Frame
  <2>2. PICK n \in 0 .. Len(pending) : Play(n)
    BY <1>2 DEF Frame
  <2>3. virtualT' \in Nat /\ virtualT' <= (now + MaxGap) * Scale
    BY <1>2, <2>1, ClockInFrame
  <2>4. Clocks'
    BY <2>1, <2>3 DEF IInv, Clocks
  <2>5. Buffers' /\ PlayedInOrder'
    BY <2>1, <2>2, PlayKeepsOrder DEF IInv, Buffers, PlayedInOrder
  <2>6. Past'
    BY <2>1, <2>2, PlayKeepsPast
  <2>7. LeadBounded'
    BY <2>1, <2>3 DEF LeadBounded
  <2> QED
    BY <2>4, <2>5, <2>6, <2>7 DEF IInv
<1> QED
  BY <1>1, <1>2

\* The last event of a step has happened; what the step does beside playing
\* depends on whether the view is painted at once.
LEMMA DoStepIInv ==
  ASSUME IInv, DoStep,
         UNCHANGED <<gap, lastFrame>> \/ (gap' = 0 /\ lastFrame' = now)
  PROVE  IInv'
<1>1. PICK n \in 1 .. Len(pending) : Play(n) /\ virtualT' = pending[n].t * Scale
  BY DEF DoStep
<1>2. UNCHANGED <<now, maxSeenT, speed, log>>
  BY DEF DoStep
<1>3. n \in 0 .. Len(pending)
  OBVIOUS
<1>4. virtualT' \in Nat /\ virtualT' <= now * Scale
  BY <1>1, Buffered DEF IInv
<1>5. Clocks'
  <2>1. virtualT' \in Nat
    BY <1>4
  <2> QED
    BY <1>2, <2>1 DEF IInv, Clocks
<1>6. Buffers' /\ PlayedInOrder'
  BY <1>1, <1>2, <1>3, PlayKeepsOrder DEF IInv, Buffers, PlayedInOrder
<1>7. Past'
  BY <1>1, <1>2, <1>3, PlayKeepsPast
<1>8. LeadBounded'
  <2>1. now <= lastFrame' + MaxGap /\ now \in Int /\ lastFrame' + MaxGap \in Int
    BY DEF IInv, Clocks
  <2>2. now * Scale <= (lastFrame' + MaxGap) * Scale
        /\ now * Scale \in Int /\ (lastFrame' + MaxGap) * Scale \in Int
    BY <2>1, ScaleMonotone
  <2> QED
    BY <2>2, <1>4 DEF LeadBounded
<1> QED
  BY <1>5, <1>6, <1>7, <1>8 DEF IInv

\* So does "clear".
LEMMA ClearIInv == IInv /\ Clear => IInv'
<1> SUFFICES ASSUME IInv, Clear PROVE IInv'
  OBVIOUS
<1>1. pending' = <<>> /\ log' = played /\ UNCHANGED <<now, gap, maxSeenT, clock, speed, played>>
  BY DEF Clear
<1>2. Clocks' /\ LeadBounded'
  BY <1>1 DEF IInv, Clocks, LeadBounded, clock
<1>3. <<>> \in Seq(Event) /\ Len(<<>>) = 0 /\ played \o <<>> = played
  BY EmptySeq, ConcatEmptySeq DEF IInv, Buffers
<1>4. Buffers' /\ PlayedInOrder'
  BY <1>1, <1>3 DEF IInv, Buffers, PlayedInOrder
<1>5. Past'
  BY <1>1, <1>3 DEF Past
<1> QED
  BY <1>2, <1>4, <1>5 DEF IInv

\* So does every step.
LEMMA StepIInv == IInv /\ [Next]_vars => IInv'
<1> SUFFICES ASSUME IInv, [Next]_vars PROVE IInv'
  OBVIOUS
<1>1. CASE Pass
  BY <1>1, PassIInv
<1>2. ASSUME NEW t \in 0 .. MaxTime, NEW r \in Traces, NEW kind \in {"take", "park"},
             Arrive(t, kind, r)
      PROVE  IInv'
  BY <1>2, ArriveIInv DEF Kinds
<1>3. ASSUME NEW t \in 0 .. MaxTime, Arrive(t, "mark", None)
      PROVE  IInv'
  BY <1>3, ArriveIInv DEF Kinds
<1>4. CASE Frame
  BY <1>4, FrameIInv
<1>5. CASE StepButton
  BY <1>5, DoStepIInv DEF StepButton
<1>6. CASE SpaceKey
  BY <1>6, DoStepIInv DEF SpaceKey
<1>7. CASE ToggleStep
  BY <1>7 DEF ToggleStep, IInv, Clocks, Buffers, Past, PlayedInOrder, LeadBounded, clock
<1>8. ASSUME NEW s \in Speeds, SetSpeed(s) PROVE IInv'
  BY <1>8 DEF SetSpeed, IInv, Clocks, Buffers, Past, PlayedInOrder, LeadBounded, clock
<1>9. CASE Clear
  BY <1>9, ClearIInv
<1>10. CASE UNCHANGED vars
  BY <1>10 DEF vars, IInv, Clocks, Buffers, Past, PlayedInOrder, LeadBounded, clock
<1> QED
  BY <1>1, <1>2, <1>3, <1>4, <1>5, <1>6, <1>7, <1>8, <1>9, <1>10 DEF Next

\* The invariant holds in every state of playback.
LEMMA Inductive == Spec => []IInv
<1> QED
  BY InitIInv, StepIInv, PTL DEF Spec

-----------------------------------------------------------------------------
(* Theorems *)

\* Every event that was buffered is played once and in the order of arrival,
\* however the two ways of playing alternate (dashboard.js:326-333, 368-373, 408).
THEOREM OrderCorrect == Spec => []PlayedInOrder
<1>1. IInv => PlayedInOrder
  BY DEF IInv
<1> QED
  BY <1>1, Inductive, PTL

\* The virtual clock is ahead of the server by the time between two frames at
\* most, at any speed (dashboard.js:335-339).
THEOREM LeadCorrect == Spec => []LeadBounded
<1>1. IInv => LeadBounded
  BY DEF IInv
<1> QED
  BY <1>1, Inductive, PTL

\* Every frame of continuous play that finds something buffered plays some of it,
\* at any speed and after any gap (dashboard.js:347-363).
THEOREM FramesPlay == Spec => NoDeadWaiting
<1>1. ASSUME IInv, Frame, ~ stepMode, pending # <<>>
      PROVE  Len(pending') < Len(pending)
  <2>1. virtualT' = ClockAt(now - lastFrame)
    BY <1>1 DEF Frame
  <2>2. PICK n \in 0 .. Len(pending) : DueIs(n, virtualT') /\ Play(n)
    BY <1>1 DEF Frame
  <2>3. Len(pending) \in Nat /\ Head(pending) = pending[1] /\ Len(pending) > 0
    BY <1>1, LenProperties, HeadTailProperties, EmptySeq DEF IInv, Buffers
  <2>4. pending[1].t * Scale \in Nat /\ pending[1].t * Scale <= virtualT' /\ virtualT' \in Nat
    BY <1>1, <2>1, <2>3, ClockInFrame, Buffered DEF IInv
  <2>5. n # 0
    <3> SUFFICES ASSUME n = 0 PROVE FALSE
      OBVIOUS
    <3>1. pending[0 + 1].t * Scale > virtualT'
      BY <2>2, <2>3 DEF DueIs
    <3> QED
      BY <3>1, <2>4
  <2>6. Len(pending') = Len(pending) - n
    BY <1>1, <2>2, PlayKeepsOrder
  <2> QED
    BY <2>3, <2>5, <2>6
<1>2. IInv /\ [Next]_vars => [Frame /\ ~ stepMode /\ pending # <<>> => Len(pending') < Len(pending)]_vars
  BY <1>1
<1> QED
  BY <1>2, Inductive, PTL DEF Spec, NoDeadWaiting

-----------------------------------------------------------------------------
(* A step hides nothing *)

\* The holders over a sequence are each made of the one before and the event.
LEMMA HoldersTrail ==
  ASSUME NEW h, NEW s \in Seq(Event)
  PROVE  /\ DOMAIN HoldersOver(h, s) = 0 .. Len(s)
         /\ HoldersOver(h, s)[0] = h
         /\ \A k \in 1 .. Len(s) : HoldersOver(h, s)[k] = HolderAfter(HoldersOver(h, s)[k - 1], s[k])
<1> DEFINE Is(f) == f = [i \in 0 .. Len(s) |-> IF i = 0 THEN h ELSE HolderAfter(f[i - 1], s[i])]
<1>1. Len(s) \in Nat
  BY LenProperties
<1>2. PICK g : Showing!IsTrail(g, h, s, Len(s))
  BY <1>1, Showing!FoldHasTrail
<1>3. g[0] = h /\ \A k \in 1 .. Len(s) : g[k] = HolderAfter(g[k - 1], s[k])
  BY <1>2 DEF Showing!IsTrail
<1> DEFINE f0 == [i \in 0 .. Len(s) |-> g[i]]
<1>4. Is(f0)
  <2>1. ASSUME NEW i \in 0 .. Len(s)
        PROVE  f0[i] = IF i = 0 THEN h ELSE HolderAfter(f0[i - 1], s[i])
    <3>1. CASE i = 0
      BY <1>1, <1>3, <3>1
    <3>2. CASE i # 0
      <4>1. i \in 1 .. Len(s) /\ i - 1 \in 0 .. Len(s)
        BY <1>1, <3>2
      <4>2. f0[i] = g[i] /\ f0[i - 1] = g[i - 1]
        BY <4>1
      <4> QED BY <1>3, <3>2, <4>1, <4>2
    <3> QED BY <3>1, <3>2
  <2>2. f0 = [i \in 0 .. Len(s) |-> f0[i]]
    OBVIOUS
  <2> HIDE DEF f0
  <2> QED BY <2>1, <2>2
<1>5. Is(HoldersOver(h, s))
  <2>1. HoldersOver(h, s) = CHOOSE f : Is(f)
    BY DEF HoldersOver
  <2>2. \E f : Is(f)
    BY <1>4
  <2> HIDE DEF Is
  <2> QED BY <2>1, <2>2
<1> HIDE DEF f0
<1> DEFINE H == HoldersOver(h, s)
<1>6. H = [i \in 0 .. Len(s) |-> IF i = 0 THEN h ELSE HolderAfter(H[i - 1], s[i])]
  BY <1>5
<1> HIDE DEF H
<1>7. DOMAIN H = 0 .. Len(s) /\ H[0] = h
  BY <1>1, <1>6
<1>8. ASSUME NEW k \in 1 .. Len(s) PROVE H[k] = HolderAfter(H[k - 1], s[k])
  <2>1. k \in 0 .. Len(s) /\ k # 0
    BY <1>1
  <2> QED BY <1>6, <2>1
<1> QED BY <1>7, <1>8 DEF H

\* They depend on what has been shown, and not on what follows.
LEMMA HoldersOfFront ==
  ASSUME NEW h, NEW s \in Seq(Event), NEW u \in Seq(Event), Len(u) <= Len(s),
         \A i \in 1 .. Len(u) : u[i] = s[i]
  PROVE  \A k \in 0 .. Len(u) : HoldersOver(h, u)[k] = HoldersOver(h, s)[k]
<1> DEFINE F == HoldersOver(h, u)
           G == HoldersOver(h, s)
           U == {k \in 0 .. Len(u) : F[k] = G[k]}
<1>1. Len(u) \in Nat /\ Len(s) \in Nat
  BY LenProperties
<1>2. /\ F[0] = h /\ \A k \in 1 .. Len(u) : F[k] = HolderAfter(F[k - 1], u[k])
      /\ G[0] = h /\ \A k \in 1 .. Len(s) : G[k] = HolderAfter(G[k - 1], s[k])
  BY HoldersTrail
<1> HIDE DEF F, G
<1>3. 0 \in U
  BY <1>1, <1>2
<1>4. ASSUME NEW k \in 1 .. Len(u), k - 1 \in U
      PROVE  k \in U
  <2>1. k \in 1 .. Len(s) /\ k \in 0 .. Len(u)
    BY <1>1
  <2>2. F[k - 1] = G[k - 1]
    BY <1>4
  <2>3. F[k] = G[k]
    BY <1>2, <2>1, <2>2
  <2> QED BY <2>1, <2>3
<1>5. \A k \in 0 .. Len(u) : k \in U
  <2> HIDE DEF U
  <2> QED BY <1>1, <1>3, <1>4, Showing!Induction
<1> QED BY <1>5 DEF F, G

\* What is played is what comes after what was played.
LEMMA PlayedIsFront ==
  ASSUME Buffers, NEW n \in 0 .. Len(pending), Play(n)
  PROVE  SubSeq(played', Len(played) + 1, Len(played')) = SubSeq(pending, 1, n)
<1> DEFINE front == SubSeq(pending, 1, n)
           batch == SubSeq(played', Len(played) + 1, Len(played'))
<1>1. pending \in Seq(Event) /\ played \in Seq(Event) /\ Len(pending) \in Nat /\ Len(played) \in Nat
  BY LenProperties DEF Buffers
<1>2. \A i \in 1 .. Len(pending) : pending[i] \in Event
  BY <1>1, ElementOfSeq
<1>3. front \in Seq(Event) /\ Len(front) \in Nat
  BY <1>1, <1>2, SubSeqProperties, LenProperties
<1>4. played' = played \o front
  BY DEF Play
<1> HIDE DEF front
<1>5. /\ played' \in Seq(Event) /\ Len(played') = Len(played) + Len(front)
      /\ \A i \in 1 .. Len(front) : played'[Len(played) + i] = front[i]
  <2>1. \A i \in 1 .. Len(played) + Len(front) :
          (played \o front)[i] = IF i <= Len(played) THEN played[i] ELSE front[i - Len(played)]
    BY <1>1, <1>3, ConcatProperties
  <2>2. ASSUME NEW i \in 1 .. Len(front)
        PROVE  played'[Len(played) + i] = front[i]
    <3>1. Len(played) + i \in 1 .. Len(played) + Len(front) /\ ~ (Len(played) + i <= Len(played))
          /\ Len(played) + i - Len(played) = i
      BY <1>1, <1>3
    <3> QED BY <1>4, <2>1, <3>1
  <2>3. played' \in Seq(Event) /\ Len(played') = Len(played) + Len(front)
    BY <1>1, <1>3, <1>4, ConcatProperties
  <2> QED BY <2>2, <2>3
<1>6. \A i \in Len(played) + 1 .. Len(played') : played'[i] \in Event
  <2>1. \A i \in 1 .. Len(played') : played'[i] \in Event
    BY <1>5, ElementOfSeq
  <2> QED BY <1>1, <1>3, <1>5, <2>1
<1>7. /\ batch \in Seq(Event) /\ Len(batch) = Len(front)
      /\ \A i \in 1 .. Len(front) : batch[i] = played'[Len(played) + i]
  <2>1. Len(played) + 1 \in Int /\ Len(played') \in Int
    BY <1>1, <1>3, <1>5
  <2>2. /\ batch \in Seq(Event)
        /\ Len(batch) = IF Len(played) + 1 <= Len(played') THEN Len(played') - (Len(played) + 1) + 1 ELSE 0
        /\ \A i \in 1 .. Len(played') - (Len(played) + 1) + 1 :
             batch[i] = played'[Len(played) + 1 + i - 1]
    BY <1>5, <1>6, <2>1, SubSeqProperties
  <2>3. Len(played') - (Len(played) + 1) + 1 = Len(front)
        /\ \A i \in 1 .. Len(front) : Len(played) + 1 + i - 1 = Len(played) + i
    BY <1>1, <1>3, <1>5
  <2>4. (IF Len(played) + 1 <= Len(played') THEN Len(played') - (Len(played) + 1) + 1 ELSE 0) = Len(front)
    BY <1>1, <1>3, <1>5
  <2> HIDE DEF batch
  <2> QED BY <2>2, <2>3, <2>4
<1> HIDE DEF batch
<1>8. \A i \in 1 .. Len(front) : batch[i] = front[i]
  BY <1>5, <1>7
<1>9. batch = front
  BY <1>3, <1>7, <1>8, SeqEqual
<1> QED BY <1>9 DEF batch, front

\* One of the events that are shown, and all before it show nothing.
StepShows(batch, h, h2) ==
  LET over == HoldersOver(h, batch)
  IN /\ {over[i] : i \in DOMAIN over} \subseteq {h, h2, None}
     /\ Cardinality({i \in DOMAIN batch : batch[i].kind = "mark"}) <= 1

\* A single step ends at the first checkpoint.
LEMMA DoStepShows ==
  ASSUME Buffers, DoStep
  PROVE  StepShows(SubSeq(played', Len(played) + 1, Len(played')), holder, holder')
<1>1. PICK n \in 1 .. Len(pending) : (\A i \in 1 .. n - 1 : ~ Checkpoint(i)) /\ Play(n)
  BY DEF DoStep
<1> DEFINE batch == SubSeq(pending, 1, n)
           over == HoldersOver(holder, batch)
           all == HoldersOver(holder, pending)
           marks == {i \in DOMAIN batch : batch[i].kind = "mark"}
<1>2. pending \in Seq(Event) /\ Len(pending) \in Nat
  BY LenProperties DEF Buffers
<1>3. \A i \in 1 .. Len(pending) : pending[i] \in Event
  BY <1>2, ElementOfSeq
<1>4. batch \in Seq(Event) /\ Len(batch) = n /\ \A i \in 1 .. n : batch[i] = pending[i]
  <2>1. \A i \in 1 .. n : pending[i] \in Event
    BY <1>2, <1>3
  <2>2. /\ batch \in Seq(Event)
        /\ Len(batch) = IF 1 <= n THEN n - 1 + 1 ELSE 0
        /\ \A i \in 1 .. n - 1 + 1 : batch[i] = pending[1 + i - 1]
    BY <1>2, <2>1, SubSeqProperties
  <2>3. n - 1 + 1 = n /\ 1 <= n /\ \A i \in 1 .. n : 1 + i - 1 = i
    BY <1>2
  <2> HIDE DEF batch
  <2> QED BY <2>2, <2>3
<1> HIDE DEF batch
<1>5. DOMAIN batch = 1 .. n
  BY <1>4, LenProperties
<1>6. DOMAIN over = 0 .. n /\ over[0] = holder
  BY <1>4, HoldersTrail
<1>7. \A i \in 0 .. n : over[i] = all[i]
  <2>1. n <= Len(pending)
    BY <1>2
  <2> QED BY <1>2, <1>4, <2>1, HoldersOfFront
<1>8. holder' = all[n]
  BY <1>1 DEF Play
<1>9. \A i \in 1 .. n - 1 : all[i] \in {holder, None} /\ pending[i].kind # "mark"
  BY <1>1 DEF Checkpoint
<1> HIDE DEF over, all
<1>10. {over[i] : i \in DOMAIN over} \subseteq {holder, holder', None}
  <2>1. ASSUME NEW i \in 0 .. n
        PROVE  over[i] \in {holder, holder', None}
    <3>1. CASE i = 0
      BY <1>6, <3>1
    <3>2. CASE i = n
      BY <1>7, <1>8, <3>2
    <3>3. CASE i # 0 /\ i # n
      <4>1. i \in 1 .. n - 1
        BY <3>3
      <4> QED BY <1>7, <1>9, <4>1
    <3> QED BY <3>1, <3>2, <3>3
  <2> QED BY <1>6, <2>1
<1>11. Cardinality(marks) <= 1
  <2>1. marks \subseteq {n}
    <3>1. ASSUME NEW i \in 1 .. n, i # n PROVE batch[i].kind # "mark"
      <4>1. i \in 1 .. n - 1
        BY <3>1
      <4> QED BY <1>4, <1>9, <4>1
    <3> QED BY <1>5, <3>1
  <2>2. IsFiniteSet({n}) /\ Cardinality({n}) = 1
    BY FS_Singleton
  <2> HIDE DEF marks
  <2> QED BY <2>1, <2>2, FS_Subset
<1>12. SubSeq(played', Len(played) + 1, Len(played')) = batch
  <2>1. n \in 0 .. Len(pending)
    OBVIOUS
  <2> QED BY <1>1, <2>1, PlayedIsFront DEF batch
<1> QED BY <1>10, <1>11, <1>12 DEF StepShows, over

\* What plays nothing shows nothing new.
LEMMA IdleShows ==
  ASSUME Buffers, played' = played
  PROVE  StepShows(SubSeq(played', Len(played) + 1, Len(played')), holder, holder')
<1> DEFINE batch == SubSeq(played, Len(played) + 1, Len(played))
           over == HoldersOver(holder, batch)
           marks == {i \in DOMAIN batch : batch[i].kind = "mark"}
<1>1. batch = <<>>
  BY LenProperties, SubSeqEmpty DEF Buffers
<1>2. batch \in Seq(Event) /\ Len(batch) = 0 /\ DOMAIN batch = {}
  BY <1>1
<1>3. DOMAIN over = 0 .. 0 /\ over[0] = holder
  BY <1>2, HoldersTrail
<1> HIDE DEF batch
<1>4. marks = {}
  BY <1>2
<1>5. Cardinality(marks) <= 1
  BY <1>4, FS_EmptySet
<1> HIDE DEF over, marks
<1>6. {over[i] : i \in DOMAIN over} \subseteq {holder, holder', None}
  <2>1. \A i \in 0 .. 0 : i = 0
    OBVIOUS
  <2> QED BY <1>3, <2>1
<1> QED BY <1>5, <1>6 DEF StepShows, over, marks, batch

\* In step mode a step, whatever the user does, hides nothing.
LEMMA StepShown ==
  ASSUME Buffers, Next, stepMode
  PROVE  StepShows(SubSeq(played', Len(played) + 1, Len(played')), holder, holder')
<1>1. CASE DoStep
  BY <1>1, DoStepShows
<1>2. CASE played' = played
  BY <1>2, IdleShows
<1>3. DoStep \/ played' = played
  BY DEF Next, Pass, Arrive, Frame, StepButton, SpaceKey, ToggleStep, SetSpeed, Clear
<1> QED BY <1>1, <1>2, <1>3

\* However long the buffer and whoever takes the loop: in step mode no holder of
\* the loop goes by unseen, and a step passes one boundary at most
\* (dashboard.js:376-407).
THEOREM StepsHideNothing == Spec => StepHidesNothing
<1>1. IInv => Buffers
  BY DEF IInv
<1>2. Buffers /\ [Next]_vars =>
        [stepMode => StepShows(SubSeq(played', Len(played) + 1, Len(played')), holder, holder')]_vars
  BY StepShown
<1>3. [stepMode => StepShows(SubSeq(played', Len(played) + 1, Len(played')), holder, holder')]_vars
      => [stepMode =>
            LET batch == SubSeq(played', Len(played) + 1, Len(played'))
                over == HoldersOver(holder, batch)
            IN /\ {over[i] : i \in DOMAIN over} \subseteq {holder, holder', None}
               /\ Cardinality({i \in DOMAIN batch : batch[i].kind = "mark"}) <= 1]_vars
  BY DEF StepShows
<1> QED
  BY <1>1, <1>2, <1>3, Inductive, PTL DEF Spec, StepHidesNothing

=============================================================================
