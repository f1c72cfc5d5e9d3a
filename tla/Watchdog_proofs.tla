--------------------------- MODULE Watchdog_proofs ---------------------------
(***************************************************************************)
(* For any frames, threshold, interval and length of a round: until the    *)
(* shutdown the watchdog's spans follow one another, and a loop that goes  *)
(* round in time is never reported.                                        *)
(*                                                                         *)
(* The first needs what each place of the watch thread means for the       *)
(* number of events it has pushed (SpanInv); the second, that the          *)
(* heartbeat is late by no more than three rounds (LatenessInv): the one   *)
(* its timer becomes due in, the one that runs the timer and the one that  *)
(* runs the task.                                                          *)
(***************************************************************************)
EXTENDS Watchdog, SequenceTheorems, TLAPS

\* Nothing the thread or the heartbeat has read of the clock is ahead of it.
ClockInv ==
  /\ last <= now /\ noticed <= now /\ stallSince <= now
  /\ pc = "none" => events = <<>> /\ ~ stalled /\ hb = "none" /\ spc = "none"
  /\ stopping => spc # "none"

\* A span is open if the number of events is odd.  The thread turns `stalled`
\* first, and pushes the event a few steps later.
SpanInv ==
  spc = "none" =>
    /\ pc \in {"none", "wait", "look", "measure", "decide"} => (stalled <=> Len(events) % 2 = 1)
    /\ pc = "raise" => ~ stalled /\ Len(events) % 2 = 0
    /\ pc \in {"date", "inspect", "report"} => stalled /\ Len(events) % 2 = 0
    /\ pc = "lower" => stalled /\ Len(events) % 2 = 1
    /\ pc = "close" => ~ stalled /\ Len(events) % 2 = 1
    /\ Len(events) % 2 = 1 =>
         /\ events[Len(events)].t <= now
         /\ pc \in {"measure", "decide", "lower", "close"} => events[Len(events)].t <= noticed

\* How much of the present round is over; between two rounds, all of the last.
Elapsed == IF running THEN held ELSE MaxRound

\* While no round takes too long, each stage of the heartbeat is late by no more
\* than the rounds before it, and nothing is noticed.
LatenessInv ==
  ~ froze /\ spc = "none" =>
    /\ events = <<>> /\ ~ stalled
    /\ pc \in {"none", "wait", "look", "measure", "decide"}
    /\ pc # "none" =>
         /\ hb \in {"asleep", "timer", "woken", "step"}
         /\ hb \in {"timer", "step"} => running
         /\ hb = "asleep" => now <= last + Interval + Elapsed
         /\ hb \in {"timer", "woken"} => now <= last + Interval + MaxRound + Elapsed
         /\ hb = "step" => now <= last + Interval + 2 * MaxRound + Elapsed
    /\ pc = "decide" => gap <= Interval + 3 * MaxRound

SpansInv == TypeOK /\ ClockInv /\ SpanInv /\ SpansAlternate
HealthyInv == TypeOK /\ ClockInv /\ LatenessInv

USE WatchdogAssumption

-----------------------------------------------------------------------------

\* The assumption, one fact at a time.
LEMMA Numbers ==
  /\ Stall \in Nat /\ Interval \in Nat /\ JoinTime \in Nat /\ MaxRound \in Nat /\ MaxTime \in Nat
  /\ Interval > 0
OBVIOUS

Event == [kind : Kinds, t : Nat, node : Frames \cup {None}]

\* What the type says of the events that were pushed.
LEMMA EventsHaveTimes ==
  ASSUME TypeOK
  PROVE  /\ events \in Seq(Event) /\ Len(events) \in Nat
         /\ \A i \in 1 .. Len(events) : events[i].t \in Nat
<1>1. events \in Seq(Event)
  BY DEF TypeOK, Event
<1>2. \A e \in Event : e.t \in Nat
  BY DEF Event
<1>3. Len(events) \in Nat /\ \A i \in 1 .. Len(events) : events[i] \in Event
  BY <1>1, ElementOfSeq, LenProperties
<1> QED
  BY <1>1, <1>2, <1>3

\* The event that is pushed has its type, and goes to the end.
LEMMA PushedProperties ==
  ASSUME TypeOK, NEW kind \in Kinds, NEW t \in Nat
  PROVE  /\ Pushed(kind, t) \in Seq(Event)
         /\ Len(Pushed(kind, t)) = Len(events) + 1
         /\ \A i \in 1 .. Len(events) : Pushed(kind, t)[i] = events[i]
         /\ Pushed(kind, t)[Len(events) + 1].kind = kind
         /\ Pushed(kind, t)[Len(events) + 1].t = t
<1> DEFINE e == [kind |-> kind, t |-> t, node |-> active]
<1>1. e \in Event /\ e.kind = kind /\ e.t = t
  BY DEF TypeOK, Event
<1>2. events \in Seq(Event)
  BY EventsHaveTimes
<1> HIDE DEF e
<1>3. /\ Append(events, e) \in Seq(Event)
      /\ Len(Append(events, e)) = Len(events) + 1
      /\ \A i \in 1 .. Len(events) : Append(events, e)[i] = events[i]
      /\ Append(events, e)[Len(events) + 1] = e
  BY <1>1, <1>2, AppendProperties
<1>4. Pushed(kind, t) = Append(events, e)
  BY DEF Pushed, e
<1> QED
  BY <1>1, <1>3, <1>4

\* The watchdog starts with nothing reported and nothing late.
LEMMA InitInvs == Init => SpansInv /\ HealthyInv
<1> SUFFICES ASSUME Init PROVE SpansInv /\ HealthyInv
  OBVIOUS
<1>1. TypeOK
  <2>1. now \in Nat /\ held \in 0 .. MaxRound
    BY Numbers DEF Init
  <2>2. events \in Seq([kind : Kinds, t : Nat, node : Frames \cup {None}])
    BY DEF Init
  <2>3. {frame, stack, holder} \subseteq Holders \cup {None} /\ active \in Frames \cup {None}
    BY DEF Init
  <2>4. /\ last \in Nat /\ wake \in Nat /\ noticed \in Nat
        /\ gap \in Int /\ stallSince \in Nat /\ joined \in Nat
        /\ hb = "none" /\ pc = "none" /\ spc = "none"
    BY DEF Init
  <2>5. running \in BOOLEAN /\ froze \in BOOLEAN /\ stalled \in BOOLEAN /\ stopping \in BOOLEAN
    BY Zenon DEF Init
  <2> QED
    BY <2>1, <2>2, <2>3, <2>4, <2>5 DEF TypeOK
<1>2. ClockInv /\ SpansAlternate
  BY DEF Init, ClockInv, SpansAlternate
<1>3. SpanInv
  BY DEF Init, SpanInv
<1>4. LatenessInv
  BY DEF Init, LatenessInv
<1> QED
  BY <1>1, <1>2, <1>3, <1>4 DEF SpansInv, HealthyInv

\* The variables keep their types, and nothing read of the clock gets ahead of
\* it.
LEMMA StepTypeClock == TypeOK /\ ClockInv /\ [Next]_vars => TypeOK' /\ ClockInv'
<1> SUFFICES ASSUME TypeOK, ClockInv, [Next]_vars PROVE TypeOK' /\ ClockInv'
  OBVIOUS
<1> USE DEF TypeOK, ClockInv, loop, beat, span, locals, stop
<1>1. CASE Start
  BY <1>1 DEF Start
<1>2. CASE Collect
  <2>1. hb' \in {"none", "asleep", "timer", "woken", "step", "done"} /\ (pc = "none" => hb' = "none")
    BY <1>2 DEF Collect, Due, BeatDue
  <2>2. running' \in BOOLEAN
    BY <1>2, Zenon DEF Collect
  <2> QED
    BY <1>2, <2>1, <2>2 DEF Collect
<1>3. CASE Fire
  BY <1>3 DEF Fire
<1>22. CASE EndRound
  <2>1. held' \in 0 .. MaxRound
    BY <1>22, Numbers DEF EndRound
  <2>2. running' \in BOOLEAN
    BY <1>22, Zenon DEF EndRound
  <2> QED
    BY <1>22, <2>1, <2>2 DEF EndRound
<1>20. CASE Beat
  BY <1>20 DEF Beat
<1>4. CASE LetGo
  BY <1>4 DEF LetGo
<1>5. ASSUME NEW f \in Holders, Enter(f) PROVE TypeOK' /\ ClockInv'
  BY <1>5 DEF Enter, Holders
<1>6. CASE StopBegins
  BY <1>6 DEF StopBegins
<1>23. CASE StopLowers
  BY <1>23 DEF StopLowers
<1>7. CASE StopCloses
  <2>1. events' \in Seq(Event)
    BY <1>7, PushedProperties DEF StopCloses, Kinds
  <2> QED
    BY <1>7, <2>1 DEF StopCloses, Event
<1>8. CASE StopSets
  BY <1>8 DEF StopSets, Cancelled
<1>9. CASE StopJoins
  BY <1>9 DEF StopJoins
<1>10. CASE Wait
  BY <1>10 DEF Wait
<1>11. CASE Look
  BY <1>11 DEF Look
<1>12. CASE Measure
  BY <1>12 DEF Measure
<1>13. CASE Decide
  <2>1. CASE NextTurn
    BY <1>13, <2>1, Numbers DEF Decide, NextTurn
  <2>2. CASE GoTo("raise") \/ GoTo("lower")
    BY <1>13, <2>2 DEF Decide, GoTo
  <2> QED
    BY <1>13, <2>1, <2>2 DEF Decide
<1>21. CASE Raise
  BY <1>21 DEF Raise
<1>24. CASE Lower
  BY <1>24 DEF Lower
<1>14. CASE Date
  BY <1>14 DEF Date
<1>15. CASE Inspect
  BY <1>15 DEF Inspect
<1>16. CASE Report
  <2>1. events' = Pushed("stalled", stallSince) /\ events' \in Seq(Event)
    BY <1>16, PushedProperties DEF Report, Kinds
  <2> QED
    BY <1>16, <2>1, Numbers DEF Report, NextTurn, Event
<1>17. CASE Close
  <2>1. events' = Pushed("unstalled", noticed) /\ events' \in Seq(Event)
    BY <1>17, PushedProperties DEF Close, Kinds
  <2> QED
    BY <1>17, <2>1, Numbers DEF Close, NextTurn, Event
<1>18. CASE Tick
  <2>1. now' = now + 1 /\ now \in Nat /\ held \in 0 .. MaxRound
    BY <1>18 DEF Tick
  <2>2. now' \in Nat /\ now' >= now /\ held' \in 0 .. MaxRound
    BY <1>18, <2>1, Numbers DEF Tick
  <2>6. froze' \in BOOLEAN
    BY <1>18, Zenon DEF Tick
  <2>3. UNCHANGED <<running, frame, active, beat, span, pc, wake, locals, stop, events>>
    BY <1>18 DEF Tick
  <2>4. TypeOK'
    <3>1. /\ {frame, stack, holder}' \subseteq Holders \cup {None}
          /\ events' \in Seq([kind : Kinds, t : Nat, node : Frames \cup {None}])
      BY <2>3
    <3> QED
      BY <2>2, <2>3, <2>6, <3>1
  <2>5. ClockInv'
    BY <2>1, <2>2, <2>3
  <2> QED
    BY <2>4, <2>5
<1>19. CASE UNCHANGED vars
  BY <1>19 DEF vars
<1> QED
  BY <1>1, <1>2, <1>3, <1>4, <1>5, <1>6, <1>7, <1>8, <1>9, <1>10, <1>11, <1>12, <1>13, <1>14,
     <1>15, <1>16, <1>17, <1>18, <1>19, <1>20, <1>21,
     <1>22, <1>23, <1>24
  DEF Next, Loop, Callback, Stop, WatchThread

-----------------------------------------------------------------------------
(* Spans *)

\* An event is pushed by a thread that knows how many there are.
LEMMA ReportKeepsSpans ==
  ASSUME SpansInv, Report, spc = "none"
  PROVE  SpanInv' /\ SpansAlternate'
<1>1. /\ events' = Pushed("stalled", stallSince) /\ stalled' = stalled /\ pc' = "wait"
      /\ now' = now /\ spc' = spc
  BY DEF Report, NextTurn, span, stop
<1>2. stalled /\ Len(events) % 2 = 0 /\ Len(events) \in Nat /\ stallSince <= now
  BY EventsHaveTimes DEF SpansInv, SpanInv, ClockInv, Report
<1>0. TypeOK /\ stallSince \in Nat /\ noticed \in Nat /\ {"stalled", "unstalled"} \subseteq Kinds
  BY DEF SpansInv, TypeOK, Kinds
<1>3. /\ Len(events') = Len(events) + 1
      /\ \A i \in 1 .. Len(events) : events'[i] = events[i]
      /\ events'[Len(events) + 1].kind = "stalled"
      /\ events'[Len(events) + 1].t = stallSince
  <2>1. \A kind \in Kinds, t \in Nat :
          /\ Len(Pushed(kind, t)) = Len(events) + 1
          /\ \A i \in 1 .. Len(events) : Pushed(kind, t)[i] = events[i]
          /\ Pushed(kind, t)[Len(events) + 1].kind = kind
          /\ Pushed(kind, t)[Len(events) + 1].t = t
    BY <1>0, PushedProperties
  <2> QED
    BY <1>0, <1>1, <2>1
<1>4. (Len(events) + 1) % 2 = 1
  BY <1>2
<1>5. SpanInv'
  BY <1>1, <1>2, <1>3, <1>4 DEF SpanInv
<1>6. ASSUME NEW i \in 1 .. Len(events')
      PROVE  /\ events'[i].kind = IF i % 2 = 1 THEN "stalled" ELSE "unstalled"
             /\ i % 2 = 0 => events'[i].t >= events'[i - 1].t
  <2>1. CASE i = Len(events) + 1
    BY <1>3, <1>4, <2>1
  <2>2. CASE i \in 1 .. Len(events)
    <3>1. i % 2 = 0 => i - 1 \in 1 .. Len(events)
      BY <1>2, <2>2
    <3> QED
      BY <1>3, <2>2, <3>1 DEF SpansInv, SpansAlternate
  <2> QED
    BY <1>2, <1>3, <2>1, <2>2
<1> QED
  BY <1>5, <1>6 DEF SpansAlternate

\* The event that closes a span follows the one that opened it.
LEMMA CloseKeepsSpans ==
  ASSUME SpansInv, Close, spc = "none"
  PROVE  SpanInv' /\ SpansAlternate'
<1>1. /\ events' = Pushed("unstalled", noticed) /\ stalled' = stalled /\ pc' = "wait"
      /\ now' = now /\ spc' = spc
  BY DEF Close, NextTurn, span, stop
<1>2. /\ ~ stalled /\ Len(events) % 2 = 1 /\ Len(events) \in Nat
      /\ events[Len(events)].t <= noticed
  BY EventsHaveTimes DEF SpansInv, SpanInv, Close
<1>0. TypeOK /\ stallSince \in Nat /\ noticed \in Nat /\ {"stalled", "unstalled"} \subseteq Kinds
  BY DEF SpansInv, TypeOK, Kinds
<1>3. /\ Len(events') = Len(events) + 1
      /\ \A i \in 1 .. Len(events) : events'[i] = events[i]
      /\ events'[Len(events) + 1].kind = "unstalled"
      /\ events'[Len(events) + 1].t = noticed
  <2>1. \A kind \in Kinds, t \in Nat :
          /\ Len(Pushed(kind, t)) = Len(events) + 1
          /\ \A i \in 1 .. Len(events) : Pushed(kind, t)[i] = events[i]
          /\ Pushed(kind, t)[Len(events) + 1].kind = kind
          /\ Pushed(kind, t)[Len(events) + 1].t = t
    BY <1>0, PushedProperties
  <2> QED
    BY <1>0, <1>1, <2>1
<1>4. (Len(events) + 1) % 2 = 0 /\ Len(events) \in 1 .. Len(events)
  BY <1>2
<1>5. SpanInv'
  BY <1>1, <1>2, <1>3, <1>4 DEF SpanInv
<1>6. ASSUME NEW i \in 1 .. Len(events')
      PROVE  /\ events'[i].kind = IF i % 2 = 1 THEN "stalled" ELSE "unstalled"
             /\ i % 2 = 0 => events'[i].t >= events'[i - 1].t
  <2>1. CASE i = Len(events) + 1
    <3>1. events'[i - 1] = events[Len(events)]
      BY <1>2, <1>3, <1>4, <2>1
    <3>2. events[Len(events)].t \in Nat /\ noticed \in Nat
      BY <1>0, <1>4, EventsHaveTimes
    <3> QED
      BY <1>2, <1>3, <1>4, <2>1, <3>1, <3>2
  <2>2. CASE i \in 1 .. Len(events)
    <3>1. i % 2 = 0 => i - 1 \in 1 .. Len(events)
      BY <1>2, <2>2
    <3> QED
      BY <1>3, <2>2, <3>1 DEF SpansInv, SpansAlternate
  <2> QED
    BY <1>2, <1>3, <2>1, <2>2
<1> QED
  BY <1>5, <1>6 DEF SpansAlternate

\* No step of the watch thread or the loop breaks the alternation.
LEMMA StepSpans == SpansInv /\ [Next]_vars => SpansInv'
<1> SUFFICES ASSUME SpansInv, [Next]_vars, spc' = "none" PROVE SpanInv' /\ SpansAlternate'
  BY StepTypeClock DEF SpansInv, SpanInv, SpansAlternate
<1> USE DEF loop, beat, span, locals, stop
<1>1. ASSUME UNCHANGED <<events, stalled, spc>>, pc' = pc, noticed' = noticed, now' >= now
      PROVE  SpanInv' /\ SpansAlternate'
  <2>1. Len(events) % 2 = 1 => events[Len(events)].t \in Nat
    BY EventsHaveTimes DEF SpansInv
  <2>2. now \in Nat /\ now' \in Nat
    BY StepTypeClock DEF SpansInv, TypeOK
  <2> QED
    BY <1>1, <2>1, <2>2 DEF SpansInv, SpanInv, SpansAlternate
<1>2. CASE Start
  BY <1>2 DEF Start, SpansInv, SpanInv, SpansAlternate, ClockInv
<1>3. CASE Loop \/ Callback \/ Tick \/ UNCHANGED vars
  <2>1. UNCHANGED <<events, stalled, spc, pc, noticed>> /\ now' >= now
    BY <1>3 DEF Loop, Collect, Fire, Beat, EndRound, Callback, LetGo, Enter, Tick, vars, SpansInv, TypeOK
  <2> QED
    BY <1>1, <2>1
<1>4. CASE Stop
  <2>1. spc' \in {"lower", "close", "set", "join", "done"}
    BY <1>4 DEF Stop, StopBegins, StopLowers, StopCloses, StopSets, StopJoins
  <2> QED
    BY <2>1
<1>5. CASE Wait
  BY <1>5 DEF Wait, SpansInv, SpanInv, SpansAlternate
<1>10. CASE Look
  BY <1>10 DEF Look, SpansInv, SpanInv, SpansAlternate
<1>11. CASE Measure
  BY <1>11 DEF Measure, SpansInv, SpanInv, SpansAlternate
<1>6. CASE Decide
  BY <1>6 DEF Decide, GoTo, NextTurn, SpansInv, SpanInv, SpansAlternate
<1>12. CASE Raise \/ Lower
  BY <1>12 DEF Raise, Lower, SpansInv, SpanInv, SpansAlternate
<1>7. CASE Date \/ Inspect
  BY <1>7 DEF Date, Inspect, SpansInv, SpanInv, SpansAlternate
<1>8. CASE Report
  BY <1>8, ReportKeepsSpans DEF Report
<1>9. CASE Close
  BY <1>9, CloseKeepsSpans DEF Close
<1> QED
  BY <1>2, <1>3, <1>4, <1>5, <1>6, <1>7, <1>8, <1>9, <1>10, <1>11, <1>12 DEF Next, WatchThread

\* Until the shutdown each stall is announced once, and closed once, not before
\* it began, for any threshold and interval (watchdog.py:162-171).
THEOREM SpansAlternateAlways == Spec => []SpansAlternate
<1>1. SpansInv => SpansAlternate
  BY DEF SpansInv
<1> QED
  BY InitInvs, StepSpans, <1>1, PTL DEF Spec

-----------------------------------------------------------------------------
(* Lateness *)

\* A threshold above an interval and three rounds is never reached by a loop
\* that goes round in time.
LEMMA StepHealthy ==
  ASSUME Stall > Interval + 3 * MaxRound
  PROVE  HealthyInv /\ [Next]_vars => HealthyInv'
<1> SUFFICES ASSUME HealthyInv, [Next]_vars, ~ froze', spc' = "none" PROVE LatenessInv'
  BY StepTypeClock DEF HealthyInv, LatenessInv
<1>0. TypeOK /\ TypeOK' /\ ClockInv /\ LatenessInv
  BY StepTypeClock DEF HealthyInv
<1>n. /\ now \in Nat /\ last \in Nat /\ noticed \in Nat /\ gap \in Int /\ held \in 0 .. MaxRound
      /\ running \in BOOLEAN /\ froze \in BOOLEAN
  BY <1>0, Zenon DEF TypeOK
<1> USE <1>0 DEF LatenessInv, Elapsed, loop, beat, span, locals, stop
<1>1. CASE Start
  BY <1>1, <1>n, Numbers DEF Start, ClockInv
<1>2. CASE Collect
  <2>1. ~ running /\ running' /\ UNCHANGED <<now, held, froze, last, stalled, pc, gap, spc, events>>
    BY <1>2 DEF Collect
  <2>3. CASE pc = "none"
    BY <2>1, <2>3
  <2>4. CASE pc # "none"
    <3>1. hb \in {"asleep", "woken"}
      BY <2>1, <2>4
    <3>2. CASE hb = "woken" /\ hb' = "step"
      BY <2>1, <3>2, <1>n, Numbers
    <3>3. CASE hb = "asleep" /\ hb' = "timer"
      BY <2>1, <3>3, <1>n, Numbers
    <3>4. CASE hb = "asleep" /\ hb' = "asleep" /\ now < last + Interval
      BY <2>1, <3>4, <1>n, Numbers
    <3> QED
      BY <1>2, <3>1, <3>2, <3>3, <3>4, <1>n, Numbers DEF Collect, BeatDue, Due
  <2> QED
    BY <2>3, <2>4
<1>3. CASE Fire
  BY <1>3, <1>n DEF Fire
<1>14. CASE EndRound
  BY <1>14, <1>n, Numbers DEF EndRound, LoopFree
<1>15. CASE Beat
  <2>1. ~ stopping /\ running /\ pc # "none"
    BY <1>15 DEF Beat, LoopFree, ClockInv
  <2> QED
    BY <1>15, <2>1, <1>n, Numbers DEF Beat
<1>4. CASE LetGo
  BY <1>4 DEF LetGo
<1>5. ASSUME NEW f \in Holders, Enter(f) PROVE LatenessInv'
  BY <1>5 DEF Enter
<1>6. CASE Stop
  BY <1>6 DEF Stop, StopBegins, StopLowers, StopCloses, StopSets, StopJoins
<1>7. CASE Wait
  <2>1. /\ UNCHANGED <<now, running, held, froze, last, hb, stalled, gap, spc, events>>
        /\ pc = "wait" /\ (pc' = "ended" => stopping) /\ pc' \in {"ended", "look"}
    BY <1>7 DEF Wait
  <2>2. ~ stopping
    BY <2>1 DEF ClockInv
  <2> QED
    BY <2>1, <2>2
<1>13. CASE Look
  BY <1>13 DEF Look
<1>8. CASE Measure
  <2>1. noticed <= now /\ pc # "none"
    BY <1>8 DEF ClockInv, Measure
  <2>2. now <= last + Interval + 3 * MaxRound
    BY <1>8, <2>1, <1>n, Numbers DEF Measure
  <2> QED
    BY <1>8, <2>1, <2>2, <1>n, Numbers DEF Measure
<1>9. CASE Decide
  <2>1. pc = "decide" /\ UNCHANGED <<now, running, held, froze, last, hb, stalled, spc, events>>
    BY <1>9 DEF Decide
  <2>2. ~ (gap >= Stall) /\ ~ stalled
    BY <1>9, <2>1, <1>n, Numbers DEF Decide
  <2>3. pc' = "wait"
    BY <1>9, <2>2, Zenon DEF Decide, NextTurn
  <2> QED
    BY <2>1, <2>3
<1>10. CASE Raise \/ Lower \/ Date \/ Inspect \/ Report \/ Close
  BY <1>10 DEF Raise, Lower, Date, Inspect, Report, Close, NextTurn
<1>11. CASE Tick
  <2>1. /\ now' = now + 1 /\ (running \/ ~ BeatDue)
        /\ UNCHANGED <<running, last, hb, stalled, pc, gap, spc, events>>
    BY <1>11 DEF Tick
  <2>2. CASE running
    <3>1. held' = held + 1 /\ ~ froze
      BY <1>11, <2>2, Zenon DEF Tick
    <3> QED
      BY <2>1, <2>2, <3>1, <1>n, Numbers
  <2>3. CASE ~ running
    <3>1. held' = held /\ ~ froze
      BY <1>11, <2>3, Zenon DEF Tick
    <3> QED
      BY <2>1, <2>3, <3>1, <1>n, Numbers DEF BeatDue, Due
  <2> QED
    BY <2>2, <2>3
<1>12. CASE UNCHANGED vars
  BY <1>12 DEF vars
<1> QED
  BY <1>1, <1>2, <1>3, <1>4, <1>5, <1>6, <1>7, <1>8, <1>9, <1>10, <1>11, <1>12, <1>13, <1>14,
     <1>15
  DEF Next, Loop, Callback, WatchThread

\* Until the shutdown nothing is reported of a loop no round of which takes
\* longer than MaxRound, if the threshold leaves room for one interval and three
\* such rounds (watchdog.py:81-84: "a healthy loop still shows gaps of roughly
\* one interval").
THEOREM HealthyIsSilentAlways ==
  ASSUME Stall > Interval + 3 * MaxRound
  PROVE  Spec => []HealthyIsSilent
<1>1. HealthyInv /\ [Next]_vars => HealthyInv'
  BY StepHealthy
<1>2. HealthyInv => HealthyIsSilent
  BY DEF HealthyInv, LatenessInv, HealthyIsSilent
<1> QED
  BY InitInvs, <1>1, <1>2, PTL DEF Spec

=============================================================================
