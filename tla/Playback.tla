------------------------------ MODULE Playback ------------------------------
(***************************************************************************)
(* Slow-motion playback (dashboard.js): what arrives is buffered, and      *)
(* released either by a virtual clock that every animation frame advances, *)
(* or by the user, one checkpoint at a time.                               *)
(*                                                                         *)
(* The server's clock and the browser's tick at the same rate.  Times of   *)
(* events are whole ticks; the virtual clock counts fractions of a tick,   *)
(* Scale to one, so that SPEED is a fraction speed / Scale.  Of what       *)
(* ingest() does with an event, only its effect on loopHolder matters      *)
(* here.                                                                   *)
(***************************************************************************)
EXTENDS Integers, Sequences, FiniteSets

CONSTANTS
  Traces,     \* requests
  None,
  Scale,      \* fractions of the virtual clock in a tick
  Speeds,     \* what the slider may be set to
  MaxLag,     \* MAX_LAG, in ticks
  MaxGap,     \* bound: ticks between two animation frames; more if the tab is hidden
  MaxDelay,   \* bound: how much an event may be older than one pushed before it
  MaxTime,    \* bound: how far the clock runs
  MaxEvents   \* bound: how many events arrive

ASSUME PlaybackAssumption ==
  /\ None \notin Traces
  /\ {Scale, MaxLag, MaxGap, MaxDelay, MaxTime, MaxEvents} \subseteq Nat
  /\ Scale > 0
  /\ Speeds # {} /\ Speeds \subseteq 1 .. Scale

VARIABLES
  now,        \* the server's clock, and performance.now()
  gap,        \* ticks since the last animation frame
  pending,    \* the buffer
  virtualT,   \* played up to here; NoTime for null
  maxSeenT,   \* the newest time stamp buffered so far
  lastFrame,  \* lastFrameMs
  speed,      \* SPEED
  stepMode,
  holder,     \* loopHolder
  left,       \* history: the last frame of continuous play left something buffered
  log,        \* history: what arrived, but for what "clear" discarded
  played      \* history: what was ingested

clock == <<virtualT, lastFrame>>
vars == <<now, gap, pending, maxSeenT, clock, speed, stepMode, holder, left, log, played>>

NoTime == -1

\* "take": call_enter on the loop, or resume; "park": suspend; "mark":
\* offload_start, offload_end or request_end.  An event of any other kind, or of
\* a request without a row, does as much as a "park" of one that does not hold.
Kinds == {"take", "park", "mark"}
Event == [id : 1 .. MaxEvents, t : 0 .. MaxTime, kind : Kinds, trace : Traces \cup {None}]

Init ==
  /\ now = 0 /\ gap = 0 /\ lastFrame = 0
  /\ pending = <<>> /\ log = <<>> /\ played = <<>>
  /\ virtualT = NoTime
  /\ maxSeenT = 0
  /\ speed \in Speeds
  /\ stepMode = FALSE
  /\ holder = None
  /\ left = FALSE

-----------------------------------------------------------------------------
(* The world: time passes, events arrive *)

Pass ==
  /\ now < MaxTime
  /\ gap < MaxGap
  /\ now' = now + 1
  /\ gap' = gap + 1
  /\ UNCHANGED <<pending, maxSeenT, clock, speed, stepMode, holder, left, log, played>>

\* bufferEvents(): the event goes to the end of the buffer, whatever its time.
\* Time stamps are taken before the collector orders the events, so one may be
\* older than the event before it.
Arrive(t, kind, r) ==
  /\ Len(log) < MaxEvents
  /\ t \in 0 .. now
  /\ maxSeenT - t <= MaxDelay
  /\ LET e == [id |-> Len(log) + 1, t |-> t, kind |-> kind, trace |-> r]
     IN pending' = Append(pending, e) /\ log' = Append(log, e)
  /\ maxSeenT' = IF t > maxSeenT THEN t ELSE maxSeenT
  /\ UNCHANGED <<now, gap, clock, speed, stepMode, holder, left, played>>

-----------------------------------------------------------------------------
(* Continuous play *)

\* Whom the loop is shown with after the event.
HolderAfter(h, e) ==
  CASE e.kind = "take" -> e.trace
    [] e.kind = "park" -> IF h = e.trace THEN None ELSE h
    [] e.kind = "mark" -> h

\* ... and after each of the events of a sequence.
HoldersOver(h, s) ==
  LET after[i \in 0 .. Len(s)] == IF i = 0 THEN h ELSE HolderAfter(after[i - 1], s[i])
  IN after

\* Mutant: one event too many is dropped from the buffer.
Play_SkipOne(n) ==
  /\ played' = played \o SubSeq(pending, 1, n)
  /\ pending' = SubSeq(pending, n + 2, Len(pending))
  /\ holder' = HoldersOver(holder, pending)[n]

\* ingest() of the n oldest events in the buffer.
Play(n) ==
  /\ played' = played \o SubSeq(pending, 1, n)
  /\ pending' = SubSeq(pending, n + 1, Len(pending))
  /\ holder' = HoldersOver(holder, pending)[n]

\* Mutant: the clock is not brought up to the oldest buffered event.
ClockAt_NoJump(dt) ==
  LET v == (IF virtualT = NoTime THEN 0 ELSE virtualT) + dt * speed
      floor == (maxSeenT - MaxLag) * Scale
  IN IF v < floor THEN floor ELSE v

\* The virtual clock in a frame dt after the previous one: brought up to the
\* oldest event, advanced, and not left more than MaxLag behind the newest.
ClockAt(dt) ==
  LET oldest == Head(pending).t * Scale
      from == IF virtualT < oldest THEN oldest ELSE virtualT
      v == from + dt * speed
      floor == (maxSeenT - MaxLag) * Scale
  IN IF v < floor THEN floor ELSE v

\* Mutant: an event is due only once the clock is past it.
DueIs_Strict(n, v) ==
  /\ \A i \in 1 .. n : pending[i].t * Scale < v
  /\ n < Len(pending) => pending[n + 1].t * Scale >= v

\* The n oldest events are those the clock has reached, up to the first it has not.
DueIs(n, v) ==
  /\ \A i \in 1 .. n : pending[i].t * Scale <= v
  /\ n < Len(pending) => pending[n + 1].t * Scale > v

\* Mutant: step mode returns before lastFrameMs is refreshed.
Frame_StaleFrame ==
  /\ gap' = 0
  /\ IF stepMode \/ pending = <<>>
     THEN /\ UNCHANGED <<virtualT, pending, holder, played>>
          /\ left' = FALSE
          /\ lastFrame' = IF stepMode THEN lastFrame ELSE now
     ELSE /\ virtualT' = ClockAt(now - lastFrame)
          /\ \E n \in 0 .. Len(pending) : DueIs(n, virtualT') /\ Play(n)
          /\ left' = (pending' # <<>>)
          /\ lastFrame' = now
  /\ UNCHANGED <<now, maxSeenT, speed, stepMode, log>>

\* render(): advancePlayback(), and then the view is painted.
Frame ==
  /\ gap' = 0
  /\ lastFrame' = now
  /\ IF stepMode \/ pending = <<>>
     THEN UNCHANGED <<virtualT, pending, holder, played>> /\ left' = FALSE
     ELSE /\ virtualT' = ClockAt(now - lastFrame)
          /\ \E n \in 0 .. Len(pending) : DueIs(n, virtualT') /\ Play(n)
          /\ left' = (pending' # <<>>)
  /\ UNCHANGED <<now, maxSeenT, speed, stepMode, log>>

-----------------------------------------------------------------------------
(* The user *)

\* Mutant: only a hand-off is a checkpoint.
Checkpoint_NoMark(i) == HoldersOver(holder, pending)[i] \notin {holder, None}

\* The i-th buffered event ends a step: the loop has another holder than before
\* the step, or work went to a worker or came back, or a request finished.
Checkpoint(i) ==
  LET h == HoldersOver(holder, pending)[i]
  IN h \notin {holder, None} \/ pending[i].kind = "mark"

\* doStep(): up to the next checkpoint, or all there is.
DoStep ==
  /\ stepMode
  /\ pending # <<>>
  /\ \E n \in 1 .. Len(pending) :
       /\ \A i \in 1 .. n - 1 : ~ Checkpoint(i)
       /\ n = Len(pending) \/ Checkpoint(n)
       /\ Play(n)
       /\ virtualT' = pending[n].t * Scale
  /\ UNCHANGED <<now, maxSeenT, speed, stepMode, left, log>>

\* The button leaves the painting to the next frame, the Space key does it.
StepButton == DoStep /\ UNCHANGED <<gap, lastFrame>>
SpaceKey == DoStep /\ gap' = 0 /\ lastFrame' = now

ToggleStep ==
  /\ stepMode' = ~ stepMode
  /\ UNCHANGED <<now, gap, pending, maxSeenT, clock, speed, holder, left, log, played>>

SetSpeed(s) ==
  /\ s # speed
  /\ speed' = s
  /\ UNCHANGED <<now, gap, pending, maxSeenT, clock, stepMode, holder, left, log, played>>

\* "clear" discards the buffer and leaves the clock alone.
Clear ==
  /\ pending # <<>> \/ holder # None
  /\ pending' = <<>>
  /\ holder' = None
  /\ left' = FALSE
  /\ log' = played
  /\ UNCHANGED <<now, gap, maxSeenT, clock, speed, stepMode, played>>

-----------------------------------------------------------------------------

Next ==
  \/ Pass
  \/ \E t \in 0 .. MaxTime :
       \/ \E r \in Traces, kind \in {"take", "park"} : Arrive(t, kind, r)
       \/ Arrive(t, "mark", None)
  \/ Frame
  \/ StepButton
  \/ SpaceKey
  \/ ToggleStep
  \/ \E s \in Speeds : SetSpeed(s)
  \/ Clear

Spec == Init /\ [][Next]_vars

\* The browser keeps painting; nobody need click, and nothing need arrive.
FairSpec == Spec /\ WF_vars(Frame)

-----------------------------------------------------------------------------
(* Properties *)

TypeOK ==
  /\ now \in Nat /\ gap \in Nat /\ maxSeenT \in Nat /\ lastFrame \in Nat
  /\ {pending, log, played} \subseteq Seq(Event)
  /\ virtualT \in Nat \cup {NoTime}
  /\ speed \in Speeds
  /\ stepMode \in BOOLEAN /\ left \in BOOLEAN
  /\ holder \in Traces \cup {None}

\* Every event that was buffered is ingested once and in the order of arrival,
\* whatever its time stamp and however the user switches between the two ways
\* of playing, unless "clear" discards it (dashboard.js:326-333, 368-373, 408).
PlayedInOrder == played \o pending = log

\* The virtual clock is never ahead of the server by more than the time between
\* two frames, after step mode too, where frames pass without moving it
\* (dashboard.js:335-339).
LeadBounded == virtualT <= (lastFrame + MaxGap) * Scale

\* A frame of continuous play always plays something if anything is buffered:
\* the clock is never so far behind that playback looks dead
\* (dashboard.js:347-363).
NoDeadWaiting ==
  [][Frame /\ ~ stepMode /\ pending # <<>> => Len(pending') < Len(pending)]_vars

\* In step mode nothing goes by unseen: whoever takes the loop holds it when the
\* step is over, and a step passes at most one boundary of an offload or end of
\* a request (dashboard.js:376-407).
StepHidesNothing ==
  [][stepMode =>
       LET batch == SubSeq(played', Len(played) + 1, Len(played'))
           over == HoldersOver(holder, batch)
       IN /\ {over[i] : i \in DOMAIN over} \subseteq {holder, holder', None}
          /\ Cardinality({i \in DOMAIN batch : batch[i].kind = "mark"}) <= 1
    ]_vars

\* In continuous play a buffered event is shown at last, unless the user steps
\* or discards it (dashboard.js:300-308, 335-373).
EventsAreShown ==
  \A n \in 1 .. MaxEvents :
    (Len(played) < n /\ Len(log) >= n) ~> (Len(played) >= n \/ Len(log) < n \/ stepMode)

\* dashboard.js:360-361: "Under continuous load virtualT is already past
\* pending[0].t, so this is a no-op there": while a frame finds what the one
\* before it left, the clock moves by SPEED times the real time, or to MAX_LAG.
PlaysInSlowMotion ==
  [][Frame /\ left =>
       \/ virtualT' - virtualT <= (now - lastFrame) * speed
       \/ virtualT' = (maxSeenT - MaxLag) * Scale]_vars

=============================================================================
