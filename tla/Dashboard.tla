------------------------------ MODULE Dashboard ------------------------------
(***************************************************************************)
(* What the dashboard reconstructs from the event stream: rows, call       *)
(* trees, the loop holder, the busy workers, the frozen loop.              *)
(*                                                                         *)
(* The server is the ground truth: requests with frames on the loop and on *)
(* workers, of which one at a time executes on the loop.  Every step of it *)
(* emits the events the instrumentation pushes for it, in order, and the   *)
(* client takes them in with Ingest.  The watchdog is a thread of its own:  *)
(* it finds the loop silent, reads which frame is on it and pushes what it *)
(* read, one after the other, while the loop may go on.                    *)
(***************************************************************************)
EXTENDS Ingest

CONSTANTS
  Traces,    \* requests
  Cap,       \* MAX_REQ at page load
  Caps,      \* what the user may set it to
  Orphans,   \* frames may outlive their request: create_task, not awaited
  Worlds     \* [harm, stalls, traces, nodes, holds]: what may happen to the client;
             \* whether the watchdog is on; bounds: how many requests start, how
             \* many frames they enter, how many slow holds there are

\* Events are shed on the way, the user presses "clear", or changes "max req".
Harm == {"loss", "clear", "cap"}

ASSUME DashboardAssumption ==
  /\ None \notin Traces \cup Nat
  /\ Cap \in Nat \ {0}
  /\ Caps \subseteq Nat \ {0}
  /\ Orphans \in BOOLEAN
  /\ \A w \in Worlds :
       w.harm \subseteq Harm /\ w.stalls \in BOOLEAN /\ {w.traces, w.nodes, w.holds} \subseteq Nat

VARIABLES
  world,    \* what may happen in this behaviour
  phase,    \* each request: "new", "live", "over"
  frames,   \* the frames that were entered; the index is the node id
  exec,     \* the frame that executes on the loop
  holds,    \* how many slow holds the timer reported of each frame
  named,    \* the frames the watchdog named while their request was not over
  watch,    \* the watchdog: "healthy", "stalling", "stalled", "recovering"
  culprit,  \* the frame it has read and not yet pushed
  refused,  \* requests that found no room
  dash      \* the client

watchdog == <<named, watch, culprit>>
server == <<world, phase, frames, exec, holds, watchdog>>
vars == <<server, refused, dash>>

Nodes == 1 .. world.nodes
Live == {n \in 1 .. Len(frames) : frames[n].state # "gone"}
LiveIn(r, where) == {n \in Live : frames[n].trace = r /\ frames[n].where = where}
TraceOf(n) == IF n = None THEN None ELSE frames[n].trace

-----------------------------------------------------------------------------
(* The server.  What a step emits arrives in order, if it is not shed. *)

Event(kind, r, n) == [kind |-> kind, trace |-> r, node |-> n]
Enter(r, n, where, parent) ==
  [kind |-> "call_enter", trace |-> r, node |-> n, where |-> where, parent |-> parent]

Arrive(evs) ==
  \E shed \in SUBSET DOMAIN evs :
    /\ shed = {} \/ "loss" \in world.harm
    /\ dash' = FoldLeft(Ingest, dash,
                        [i \in DOMAIN evs |-> IF i \in shed THEN Event("shed", None, None) ELSE evs[i]])
    /\ refused' = refused \cup
         {r \in Traces : /\ \E i \in DOMAIN evs \ shed : evs[i] = Event("request_start", r, None)
                         /\ ~ Has(dash', r)}

Init ==
  /\ world \in Worlds
  /\ phase = [r \in Traces |-> "new"]
  /\ frames = <<>>
  /\ exec = None
  /\ holds = [n \in Nodes |-> 0]
  /\ named = {}
  /\ watch = "healthy"
  /\ culprit = None
  /\ refused = {}
  /\ dash = EmptyDash(Cap)

\* Bound: how many slow holds there are.
Holds == FoldFunction(+, 0, holds)

\* The frame on the loop lets go of it; if it held it for slow_ms, that is
\* reported first.  This timer runs from one boundary of a frame to the next and
\* the watchdog's from its heartbeat, so that either may fire without the other.
LetsGo(slow) ==
  /\ slow => exec # None /\ Holds < world.holds
  /\ holds' = IF slow THEN [holds EXCEPT ![exec] = @ + 1] ELSE holds
Slow(slow) == IF slow THEN <<Event("loop_blocked", TraceOf(exec), exec)>> ELSE <<>>

\* A new trace starts.
RequestStart(r) ==
  /\ phase[r] = "new"
  /\ Cardinality({q \in Traces : phase[q] # "new"}) < world.traces
  /\ phase' = [phase EXCEPT ![r] = "live"]
  /\ Arrive(<<Event("request_start", r, None)>>)
  /\ UNCHANGED <<world, frames, exec, holds, watchdog>>

\* A frame is entered on the loop: the outermost of a task, or called by the one
\* that executes.
EnterLoop(r, slow) ==
  LET n == Len(frames) + 1 IN
  /\ n <= world.nodes
  /\ phase[r] = "live" \/ (phase[r] = "over" /\ Orphans)
  /\ exec # None => TraceOf(exec) = r
  /\ LetsGo(slow)
  /\ frames' = Append(frames, [trace |-> r, where |-> "loop", parent |-> exec, state |-> "run"])
  /\ exec' = n
  /\ Arrive(Slow(slow) \o <<Enter(r, n, "loop", exec)>>)
  /\ UNCHANGED <<world, phase, watchdog>>

\* It returns to the frame that called it, or the task is over.
ExitLoop(slow) ==
  /\ exec # None
  /\ LetsGo(slow)
  /\ frames' = [frames EXCEPT ![exec].state = "gone"]
  /\ exec' = frames[exec].parent
  /\ Arrive(Slow(slow) \o <<Event("call_exit", TraceOf(exec), exec)>>)
  /\ UNCHANGED <<world, phase, watchdog>>

\* The chain of calls it is the innermost of awaits something.
Suspend(slow) ==
  /\ exec # None
  /\ LetsGo(slow)
  /\ frames' = [frames EXCEPT ![exec].state = "park"]
  /\ exec' = None
  /\ Arrive(Slow(slow) \o <<Event("suspend", TraceOf(exec), exec)>>)
  /\ UNCHANGED <<world, phase, watchdog>>

Resume(n) ==
  /\ exec = None
  /\ n \in Live
  /\ frames[n].state = "park"
  /\ frames' = [frames EXCEPT ![n].state = "run"]
  /\ exec' = n
  /\ Arrive(<<Event("resume", TraceOf(n), n)>>)
  /\ UNCHANGED <<world, phase, holds, watchdog>>

\* A worker enters the function it was given, by a frame on the loop or, for a
\* sync endpoint, by the framework.
EnterPool(r, by) ==
  LET n == Len(frames) + 1 IN
  /\ n <= world.nodes
  /\ phase[r] = "live" \/ (phase[r] = "over" /\ Orphans /\ by # None)
  /\ by \in LiveIn(r, "loop") \cup {None}
  /\ frames' = Append(frames, [trace |-> r, where |-> "pool", parent |-> by, state |-> "run"])
  /\ Arrive(<<Enter(r, n, "pool", by), Event("offload_start", r, n)>>)
  /\ UNCHANGED <<world, phase, exec, holds, watchdog>>

ExitPool(n) ==
  /\ n \in Live
  /\ frames[n].where = "pool"
  /\ frames' = [frames EXCEPT ![n].state = "gone"]
  /\ Arrive(<<Event("call_exit", TraceOf(n), n), Event("offload_end", TraceOf(n), n)>>)
  /\ UNCHANGED <<world, phase, exec, holds, watchdog>>

\* The watchdog has found the loop silent, and looks which application frame is
\* on it, if any is.
Notice ==
  /\ world.stalls /\ watch = "healthy"
  /\ watch' = "stalling"
  /\ culprit' = exec
  /\ UNCHANGED <<world, phase, frames, exec, holds, named, refused, dash>>

\* It pushes what it saw, whatever is on the loop by now.
Stall ==
  /\ watch = "stalling"
  /\ watch' = "stalled"
  /\ culprit' = None
  /\ named' = named \cup {n \in {culprit} \ {None} : phase[TraceOf(n)] # "over"}
  /\ Arrive(<<Event("loop_stalled", TraceOf(culprit), culprit)>>)
  /\ UNCHANGED <<world, phase, frames, exec, holds>>

\* It has found the loop beating again, and looks who is on it now.
Recover ==
  /\ watch = "stalled"
  /\ watch' = "recovering"
  /\ culprit' = exec
  /\ UNCHANGED <<world, phase, frames, exec, holds, named, refused, dash>>

Unstall ==
  /\ watch = "recovering"
  /\ watch' = "healthy"
  /\ culprit' = None
  /\ Arrive(<<Event("loop_unstalled", TraceOf(culprit), culprit)>>)
  /\ UNCHANGED <<world, phase, frames, exec, holds, named>>

RequestEnd(r) ==
  /\ phase[r] = "live"
  /\ Orphans \/ LiveIn(r, "loop") \cup LiveIn(r, "pool") = {}
  /\ phase' = [phase EXCEPT ![r] = "over"]
  /\ Arrive(<<Event("request_end", r, None)>>)
  /\ UNCHANGED <<world, frames, exec, holds, watchdog>>

-----------------------------------------------------------------------------
(* The user *)

Clear ==
  /\ "clear" \in world.harm
  /\ dash' = Cleared(dash)
  /\ refused' = {}
  /\ UNCHANGED server

SetCap(n) ==
  /\ "cap" \in world.harm
  /\ dash.cap # n
  /\ dash' = [dash EXCEPT !.cap = n]
  /\ UNCHANGED <<server, refused>>

-----------------------------------------------------------------------------

\* Whatever happens on the server.
Serve ==
  \/ \E r \in Traces :
       \/ RequestStart(r)
       \/ RequestEnd(r)
       \/ \E slow \in BOOLEAN : EnterLoop(r, slow)
       \/ \E by \in Nodes \cup {None} : EnterPool(r, by)
  \/ \E slow \in BOOLEAN : ExitLoop(slow) \/ Suspend(slow)
  \/ \E n \in 1 .. Len(frames) : Resume(n) \/ ExitPool(n)
  \/ Notice \/ Stall
  \/ Recover \/ Unstall

Next ==
  \/ Serve
  \/ Clear
  \/ \E n \in Caps : SetCap(n)

Spec == Init /\ [][Next]_vars

-----------------------------------------------------------------------------
(* Properties *)

Node == [state : {"running", "suspended", "done"}, where : {"loop", "pool"},
         parent : Nodes \cup {None}, offloaded : BOOLEAN]
Span == [node : Nodes, ended : BOOLEAN]

RowOK(row) ==
  /\ row.seq \in Nat /\ row.live \in Nat /\ row.blockCount \in Nat
  /\ {row.done, row.sawLoop, row.sawPool, row.stalled} \subseteq BOOLEAN
  /\ row.stack \in Seq(Nodes) /\ row.started \subseteq Nodes /\ row.spans \in Seq(Span)
  /\ DOMAIN row.nodes \subseteq Nodes
  /\ \A n \in DOMAIN row.nodes : row.nodes[n] \in Node

TypeOK ==
  /\ world \in Worlds
  /\ phase \in [Traces -> {"new", "live", "over"}]
  /\ frames \in Seq([trace : Traces, where : {"loop", "pool"}, parent : Nodes \cup {None},
                     state : {"run", "park", "gone"}])
  /\ exec \in Nodes \cup {None}
  /\ holds \in [Nodes -> Nat]
  /\ named \subseteq Nodes
  /\ watch \in {"healthy", "stalling", "stalled", "recovering"}
  /\ culprit \in Nodes \cup {None}
  /\ refused \subseteq Traces
  /\ DOMAIN dash.rows \subseteq Traces
  /\ \A r \in DOMAIN dash.rows : RowOK(dash.rows[r])
  /\ dash.holder \in Traces \cup {None}
  /\ dash.stalled \in [node : Nodes, trace : Traces] \cup {None}
  /\ dash.workers \subseteq Traces \X Nodes
  /\ dash.hidden \in Nat /\ dash.nextSeq \in Nat
  /\ dash.cap \in Caps \cup {Cap}
  /\ DOMAIN dash.before \subseteq Traces
  /\ \A r \in DOMAIN dash.before : dash.before[r] \in Seq(Span)

Shown == DOMAIN dash.rows

\* Every event arrives, and the user discards nothing.
Intact == world.harm \subseteq {"cap"}
Frames(r) == {n \in 1 .. Len(frames) : frames[n].trace = r}

\* "A row is now complete or absent, never partly-invented"
\* (dashboard.js:620): every frame the request ever entered is a node under the
\* frame that called or offloaded it, and its stack holds those that are there.
RowsAreComplete ==
  Intact => \A r \in Shown :
    LET row == dash.rows[r] IN
    /\ DOMAIN row.nodes = Frames(r)
    /\ \A n \in Frames(r) :
         /\ row.nodes[n].parent = frames[n].parent
         /\ row.nodes[n].state = CASE frames[n].state = "run" -> "running"
                                   [] frames[n].state = "park" -> "suspended"
                                   [] frames[n].state = "gone" -> "done"
    /\ ToSet(row.stack) = Frames(r) \cap Live
    /\ IsInjective(row.stack)

\* A row appears only when its request starts, and disappears only to make room
\* for another, finished, and before every younger finished row
\* (dashboard.js:271-277, 608-620).
RowsComeAndGo ==
  [][Intact => LET old == DOMAIN dash.rows  new == DOMAIN dash'.rows IN
     /\ \A r \in new \ old : phase[r] = "new"
     /\ \A r \in old \ new :
          /\ dash.rows[r].done
          /\ Cardinality(old) >= dash.cap
          /\ \A q \in new \cap old : dash.rows[q].done => dash.rows[r].seq < dash.rows[q].seq
    ]_vars

\* The header never withholds a row without counting it (dashboard.js:291-296).
HiddenIsCounted == dash.hidden = Cardinality(refused)

\* The request whose frame executes on the loop holds it, as far as it has a
\* row; work on a worker never takes it away (dashboard.js:662-668, 726-729).
HolderIsTruth == exec # None /\ TraceOf(exec) \in Shown => dash.holder = TraceOf(exec)

\* A row counts the workers that are busy for its request, and lists none that
\* is not (dashboard.js:875-914, 1315-1321).
WorkersAreBusy ==
  /\ \A r \in Shown : dash.rows[r].live = Cardinality(LiveIn(r, "pool"))
  /\ \A w \in dash.workers : w[2] \in LiveIn(w[1], "pool")

\* The tag of a row tells the truth: a request on the loop is RUNNING, a request
\* in WORKER has a worker busy for it, and the loop runs one at most
\* (dashboard.js:1210-1257).
TagsAreTrue ==
  /\ exec # None /\ TraceOf(exec) \in Shown =>
       BranchState(dash, TraceOf(exec)) \in {"RUNNING", "STALLED"}
  /\ \A r \in Shown : BranchState(dash, r) = "WORKER" => LiveIn(r, "pool") # {}
  /\ Cardinality({r \in Shown : Zone(dash.rows[r]) = "loop" /\ BranchState(dash, r) = "RUNNING"}) <= 1

\* What the zones show is what happens on the loop and on the workers
\* (dashboard.js:662-668, 726-729, 875-914, 1210-1257).
ViewIsTruth == Intact => HolderIsTruth /\ WorkersAreBusy /\ TagsAreTrue

\* The spans of a row are the slow holds of its frames and what the watchdog
\* named: each hold is one that has ended, in the span a stall had opened or in
\* one of its own, and a frame has one that is open exactly if the watchdog named
\* it, while its request was not over, and no hold of it was ever reported.  The
\* watchdog may name a frame late, or one that only ever let go in time: "the
\* card lists it even if loop_blocked never lands" (dashboard.js:756-774, 815-836).
SpansAreReconciled ==
  Intact => \A r \in Shown :
    LET spans == dash.rows[r].spans
        Closed(n) == {i \in DOMAIN spans : spans[i].node = n /\ spans[i].ended}
        Open(n) == {i \in DOMAIN spans : spans[i].node = n /\ ~ spans[i].ended}
    IN /\ dash.rows[r].blockCount = Len(spans)
       /\ \A i \in DOMAIN spans : spans[i].node \in Frames(r)
       /\ \A n \in Frames(r) :
            /\ Cardinality(Closed(n)) = holds[n]
            /\ Cardinality(Open(n)) = IF n \in named /\ holds[n] = 0 THEN 1 ELSE 0

\* Whatever was shed: a finished row is on no worker and not stalled
\* (dashboard.js:592-599), the count of spans is that of the list, and a row
\* counts no more workers than it has seen start.
FinishedIsQuiet ==
  \A r \in Shown :
    LET row == dash.rows[r] IN
    /\ row.blockCount = Len(row.spans)
    /\ row.live \in 0 .. Cardinality(row.started)
    /\ row.done => row.live = 0 /\ ~ row.stalled /\ \A w \in dash.workers : w[1] # r

\* Neither a loss nor "clear" makes the dashboard say what is not so
\* (dashboard.js:291-296, 592-599, 2507-2532).
LossIsContained == FinishedIsQuiet /\ HiddenIsCounted

\* dashboard.js:592-593: "A finished request is on no worker."
FinishedOnNoWorker == \A r \in Shown : dash.rows[r].done => dash.rows[r].live = 0

\* architecture.md:491-492: "max req" caps the rows kept.
CapKept == Cardinality(Shown) <= dash.cap

\* dashboard.js:453-454: the zone is "fixed by where the request's HANDLER runs,
\* and never changed afterwards": not once a frame has decided it.
ZoneIsFixed ==
  [][\A r \in DOMAIN dash.rows \cap DOMAIN dash'.rows :
       dash.rows[r].nodes # <<>> => Zone(dash'.rows[r]) = Zone(dash.rows[r])]_vars

\* dashboard.js:256-260: the stall "is simply held until loop_unstalled
\* arrives": it is not held when the server has closed it.
StallIsLifted == dash.stalled # None => watch # "healthy"

\* dashboard.js:757-764: a stall "is a hold in progress", and its span, without a
\* duration, is "still running": the frame has not returned.
OpenIsRunning ==
  Intact => \A r \in Shown : \A i \in DOMAIN dash.rows[r].spans :
    ~ dash.rows[r].spans[i].ended => dash.rows[r].spans[i].node \in Live

=============================================================================
