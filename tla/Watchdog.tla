------------------------------ MODULE Watchdog ------------------------------
(***************************************************************************)
(* The stall watchdog (watchdog.py): a heartbeat task on the loop bumps a  *)
(* timestamp, a thread of its own looks at it, stop() runs on the loop.    *)
(*                                                                         *)
(* The loop thread is the ground truth: `frame` is what it executes, and   *)
(* while it executes something nothing else runs on it.  It goes round as  *)
(* asyncio's does: what is ready when a round begins is run in that round, *)
(* what becomes ready in it is run in the next, and a timer that is due is *)
(* put behind what is ready and only wakes its task.  The watch thread is  *)
(* cut wherever it reads or writes what another thread may change.         *)
(* Durations are counted in ticks of the clock; rounding is left out.      *)
(***************************************************************************)
EXTENDS Integers, Sequences

CONSTANTS
  Frames,    \* application frames that may hold the loop
  Lib,       \* library code, which the monitor does not see
  None,
  Stall,     \* stall_ms, in ticks; 0 disables
  Interval,  \* interval
  JoinTime,  \* how long stop() waits for the thread
  MaxRound,  \* how long a round of a healthy loop may take
  MaxTime,   \* bound: how far the clock runs; at the end of time the watch
             \* thread goes on polling without waiting
  LastStop   \* bound: until when the application may begin to shut down

ASSUME WatchdogAssumption ==
  /\ {Lib, None} \cap Frames = {} /\ Lib # None
  /\ {Stall, Interval, JoinTime, MaxRound, MaxTime, LastStop} \subseteq Nat
  /\ Interval > 0

VARIABLES
  now,
  running,     \* the loop is in a round; otherwise it selects
  frame,       \* what the loop thread executes
  held,        \* how long the round has taken, up to MaxRound
  froze,       \* history: a round has taken longer than that
  active,      \* Monitor._active
  last,        \* _last_tick
  hb,          \* the heartbeat task: "none"; "asleep"; "timer", when its timer
               \* is run in this round; "woken", when it is run in the next
               \* one; "step", when it is run in this one; "done"
  stalled,     \* _stalled
  stallSince,  \* _stall_since
  stopping,    \* _stop
  pc,          \* where the watch thread is
  wake,        \* when its wait is over
  noticed,     \* its local `now`
  gap,         \* its local `gap_ms`
  holder,      \* who held the loop when it measured the gap
  stack,       \* the culprit it found on the loop's stack
  spc,         \* where stop() is
  joined,      \* when its join began
  events       \* what was pushed, in order

loop == <<running, frame, held, froze, active>>
beat == <<last, hb>>
span == <<stalled, stallSince>>
locals == <<noticed, gap, holder, stack>>
stop == <<stopping, spc, joined>>
vars == <<now, loop, beat, span, pc, wake, locals, stop, events>>

Holders == Frames \cup {Lib}

\* The process has been up for a while when the application starts.
Init ==
  /\ now = Stall
  /\ running = FALSE /\ frame = None /\ held = 0 /\ froze = FALSE /\ active = None
  /\ last = 0 /\ hb = "none"
  /\ stalled = FALSE /\ stallSince = 0
  /\ pc = "none" /\ wake = 0
  /\ noticed = 0 /\ gap = 0 /\ holder = None /\ stack = None
  /\ stopping = FALSE /\ spc = "none" /\ joined = 0
  /\ events = <<>>

-----------------------------------------------------------------------------
(* The loop thread *)

LoopFree == running /\ frame = None /\ spc \in {"none", "done"}

\* Mutant: the first beat is the heartbeat's own.
Start_NoBeat ==
  /\ Stall > 0
  /\ pc = "none" /\ LoopFree
  /\ hb' = "woken"
  /\ pc' = "wait"
  /\ wake' = now + Interval
  /\ UNCHANGED <<now, loop, last, span, locals, stop, events>>

Start ==
  /\ Stall > 0
  /\ pc = "none" /\ LoopFree
  /\ last' = now
  /\ hb' = "woken"
  /\ pc' = "wait"
  /\ wake' = now + Interval
  /\ UNCHANGED <<now, loop, span, locals, stop, events>>

\* It sleeps for an interval after each beat.
Due == hb = "asleep" /\ now >= last + Interval

\* The heartbeat has something for the loop to do in its next round.
BeatDue == hb = "woken" \/ Due

\* A round begins: what is ready, and the timers that are due, will be run in it.
Collect ==
  /\ ~ running
  /\ running' = TRUE
  /\ \/ hb = "woken" /\ hb' = "step"
     \/ Due /\ hb' = "timer"
     \/ ~ BeatDue /\ UNCHANGED hb
  /\ UNCHANGED <<now, frame, held, froze, active, last, span, pc, wake, locals, stop, events>>

EndRound ==
  /\ LoopFree
  /\ hb \notin {"timer", "step"}
  /\ running' = FALSE
  /\ held' = 0
  /\ UNCHANGED <<now, frame, froze, active, beat, span, pc, wake, locals, stop, events>>

\* The loop calls into something, which holds it until it lets go.
Enter(f) ==
  /\ LoopFree
  /\ frame' = f
  /\ active' = IF f = Lib THEN None ELSE f
  /\ UNCHANGED <<now, running, held, froze, beat, span, pc, wake, locals, stop, events>>

LetGo ==
  /\ frame # None
  /\ frame' = None
  /\ active' = None
  /\ UNCHANGED <<now, running, held, froze, beat, span, pc, wake, locals, stop, events>>

\* The timer of asyncio.sleep: it makes the task ready for the next round.
Fire ==
  /\ LoopFree
  /\ hb = "timer"
  /\ hb' = "woken"
  /\ UNCHANGED <<now, loop, last, span, pc, wake, locals, stop, events>>

\* One turn of _heartbeat.  A task that is cancelled was told to stop before.
Beat ==
  /\ LoopFree
  /\ hb = "step"
  /\ IF stopping
     THEN hb' = "done" /\ UNCHANGED last
     ELSE last' = now /\ hb' = "asleep"
  /\ UNCHANGED <<now, loop, span, pc, wake, locals, stop, events>>

\* The loop selects until something is ready or due.
Tick ==
  /\ now < MaxTime
  /\ running \/ ~ BeatDue
  /\ now' = now + 1
  /\ IF running /\ held = MaxRound
     THEN froze' = TRUE /\ held' = held
     ELSE held' = (IF running THEN held + 1 ELSE held) /\ froze' = froze
  /\ UNCHANGED <<running, frame, active, beat, span, pc, wake, locals, stop, events>>

-----------------------------------------------------------------------------
(* The watch thread *)

Wait ==
  /\ pc = "wait"
  /\ \/ stopping /\ pc' = "ended"
     \/ ~ stopping /\ (now >= wake \/ now = MaxTime) /\ pc' = "look"
  /\ wake' = 0
  /\ UNCHANGED <<now, loop, beat, span, locals, stop, events>>

Look ==
  /\ pc = "look"
  /\ noticed' = now
  /\ pc' = "measure"
  /\ UNCHANGED <<now, loop, beat, span, wake, gap, holder, stack, stop, events>>

Measure ==
  /\ pc = "measure"
  /\ gap' = noticed - last
  /\ holder' = frame
  /\ pc' = "decide"
  /\ UNCHANGED <<now, loop, beat, span, wake, noticed, stack, stop, events>>

\* The turn is over: its locals are dead.
NextTurn ==
  /\ pc' = "wait"
  /\ wake' = now + Interval
  /\ noticed' = 0 /\ gap' = 0 /\ holder' = None /\ stack' = None

GoTo(label) == pc' = label /\ UNCHANGED <<wake, locals>>

\* Mutant: the threshold is not compared again, so a stall is never over.
Decide_NoEnd ==
  /\ pc = "decide"
  /\ \/ ~ stalled /\ gap >= Stall /\ GoTo("raise")
     \/ (stalled \/ gap < Stall) /\ NextTurn
  /\ UNCHANGED <<now, loop, beat, span, stop, events>>

\* The flag is tested here, and written in a step of its own.
Decide ==
  /\ pc = "decide"
  /\ \/ ~ stalled /\ gap >= Stall /\ GoTo("raise")
     \/ stalled /\ gap < Stall /\ GoTo("lower")
     \/ stalled = (gap >= Stall) /\ NextTurn
  /\ UNCHANGED <<now, loop, beat, span, stop, events>>

Raise ==
  /\ pc = "raise"
  /\ stalled' = TRUE
  /\ pc' = "date"
  /\ UNCHANGED <<now, loop, beat, stallSince, wake, locals, stop, events>>

\* Mutant: a stall that is over is announced, but not forgotten.
Lower_Sticky ==
  /\ pc = "lower"
  /\ pc' = "close"
  /\ UNCHANGED <<now, loop, beat, span, wake, locals, stop, events>>

Lower ==
  /\ pc = "lower"
  /\ stalled' = FALSE
  /\ pc' = "close"
  /\ UNCHANGED <<now, loop, beat, stallSince, wake, locals, stop, events>>

\* The last beat is read a second time.
Date ==
  /\ pc = "date"
  /\ stallSince' = last
  /\ pc' = "inspect"
  /\ UNCHANGED <<now, loop, beat, stalled, wake, locals, stop, events>>

\* _loop_stack and _culprit; the log line goes out here.
Inspect ==
  /\ pc = "inspect"
  /\ stack' = frame
  /\ pc' = "report"
  /\ UNCHANGED <<now, loop, beat, span, wake, noticed, gap, holder, stop, events>>

\* _push: the attribution is read when the event is made.
Pushed(kind, t) ==
  Append(events, [kind |-> kind, t |-> t, node |-> active])

Report ==
  /\ pc = "report"
  /\ events' = Pushed("stalled", stallSince)
  /\ NextTurn
  /\ UNCHANGED <<now, loop, beat, span, stop>>

Close ==
  /\ pc = "close"
  /\ events' = Pushed("unstalled", noticed)
  /\ NextTurn
  /\ UNCHANGED <<now, loop, beat, span, stop>>

-----------------------------------------------------------------------------
(* stop(), on the loop thread; nothing else runs there until it returns *)

\* Only the test of the flag: the thread may still change it.
StopBegins ==
  /\ now <= LastStop
  /\ spc = "none" /\ pc # "none" /\ LoopFree
  /\ spc' = IF stalled THEN "lower" ELSE "set"
  /\ UNCHANGED <<now, loop, beat, span, pc, wake, locals, stopping, joined, events>>

StopLowers ==
  /\ spc = "lower"
  /\ stalled' = FALSE
  /\ spc' = "close"
  /\ UNCHANGED <<now, loop, beat, stallSince, pc, wake, locals, stopping, joined, events>>

StopCloses ==
  /\ spc = "close"
  /\ events' = Pushed("unstalled", now)
  /\ spc' = "set"
  /\ UNCHANGED <<now, loop, beat, span, pc, wake, locals, stopping, joined>>

\* A task that sleeps is woken by its cancellation; one that is ready already
\* learns of it when it is run.
Cancelled == IF hb \in {"asleep", "timer"} THEN "woken" ELSE hb

\* Mutant: the thread is joined without having been told.
StopSets_NotTold ==
  /\ spc = "set"
  /\ hb' = Cancelled
  /\ joined' = now
  /\ spc' = "join"
  /\ UNCHANGED <<now, loop, last, span, pc, wake, locals, stopping, events>>

StopSets ==
  /\ spc = "set"
  /\ stopping' = TRUE
  /\ hb' = Cancelled
  /\ joined' = now
  /\ spc' = "join"
  /\ UNCHANGED <<now, loop, last, span, pc, wake, locals, events>>

StopJoins ==
  /\ spc = "join"
  /\ pc = "ended" \/ now - joined >= JoinTime
  /\ stalled' = FALSE
  /\ spc' = "done"
  /\ UNCHANGED <<now, loop, beat, stallSince, pc, wake, locals, stopping, joined, events>>

-----------------------------------------------------------------------------

WatchThread == Wait \/ Look \/ Measure \/ Decide \/ Raise \/ Lower \/ Date \/ Inspect \/ Report \/ Close
Loop == Collect \/ Fire \/ Beat \/ EndRound
Stop == StopBegins \/ StopLowers \/ StopCloses \/ StopSets \/ StopJoins
Callback == LetGo \/ \E f \in Holders : Enter(f)
Next == Start \/ Loop \/ Callback \/ Stop \/ WatchThread \/ Tick

Spec == Init /\ [][Next]_vars

\* The watch thread is a thread, stop() goes on once it has begun, and time
\* passes.  What a round runs is finite, so the loop gets to the timer, to the
\* task and to the end of the round however often it has called into something
\* else before.  Nothing makes a callback let go of the loop, and nothing makes
\* the application stop.
Fairness ==
  /\ WF_vars(WatchThread)
  /\ SF_vars(Loop)
  /\ WF_vars(StopLowers \/ StopCloses \/ StopSets \/ StopJoins)
  /\ WF_vars(Tick)

FairSpec == Spec /\ Fairness

-----------------------------------------------------------------------------
(* Properties *)

Kinds == {"stalled", "unstalled"}

TypeOK ==
  /\ now \in Nat /\ held \in 0 .. MaxRound /\ last \in Nat /\ wake \in Nat
  /\ noticed \in Nat /\ gap \in Int /\ stallSince \in Nat /\ joined \in Nat
  /\ {frame, stack, holder} \subseteq Holders \cup {None}
  /\ active \in Frames \cup {None} /\ running \in BOOLEAN /\ froze \in BOOLEAN
  /\ hb \in {"none", "asleep", "timer", "woken", "step", "done"}
  /\ stalled \in BOOLEAN /\ stopping \in BOOLEAN
  /\ pc \in {"none", "wait", "look", "measure", "decide", "raise", "lower", "date", "inspect", "report",
             "close", "ended"}
  /\ spc \in {"none", "lower", "close", "set", "join", "done"}
  /\ events \in Seq([kind : Kinds, t : Nat, node : Frames \cup {None}])

\* Until the shutdown, and as long as no round of the loop takes longer than it
\* should, nothing is reported (watchdog.py:81-84: "a healthy loop still shows
\* gaps of roughly one interval"): the rest of the round the timer becomes due
\* in, the round that runs it, the round that runs the task and the thread's two
\* reads never add up to a stall.  Only for Stall > Interval + 3 * MaxRound.
HealthyIsSilent == ~ froze /\ spc = "none" => events = <<>>

\* Until the shutdown the spans follow one another: each stall is announced
\* once, and closed once, not before it began (watchdog.py:162-171).
SpansAlternate ==
  spc = "none" => \A i \in 1 .. Len(events) :
    /\ events[i].kind = IF i % 2 = 1 THEN "stalled" ELSE "unstalled"
    /\ i % 2 = 0 => events[i].t >= events[i - 1].t

Open == Len(events) > 0 /\ events[Len(events)].kind = "stalled"

\* A freeze is announced while it lasts, even if it never ends
\* (watchdog.py:156-168).
FreezeReported ==
  (pc # "none" /\ now - last >= Stall) ~> (Open \/ now - last < Stall \/ spc # "none")

\* And the span is closed once the loop beats again, unless it freezes again
\* before the thread looks (watchdog.py:169-171).
RecoveryReported == (Open /\ now - last < Stall) ~> (~ Open \/ now - last >= Stall \/ spc # "none")

\* What is reported follows the loop, however long it freezes and however often
\* (watchdog.py:156-171).
ReportsFollow == FreezeReported /\ RecoveryReported

\* stop() returns and the thread ends, whatever the application does, and the
\* heartbeat ends too unless something then holds the loop for good
\* (watchdog.py:112-141).
StopEnds ==
  /\ (spc # "none") ~> (spc = "done" /\ pc = "ended")
  /\ []<>(frame = None) => ((spc # "none") ~> (hb = "done"))

\* architecture.md:125-126: "`stop()` closes any span still open at shutdown".
StopClosesSpan == spc = "done" /\ pc = "ended" => ~ Open

\* watchdog.py:164-166: "Date the stall from the last healthy beat, not from
\* now": a stall begins before it is noticed.
DatedByLastBeat == [][Report => stallSince < noticed]_vars

\* watchdog.py:230-231: "no request gets blamed for a stall that is not provably
\* its own": a blamed frame held the loop when the gap was measured.
BlameIsHolder == [][Report => active \in {None, holder}]_vars

=============================================================================
