------------------------------- MODULE Monitor -------------------------------
(***************************************************************************)
(* The sys.monitoring callbacks (monitor.py) under a program that runs     *)
(* asyncio tasks on one loop thread and offloads sync calls to workers.    *)
(*                                                                         *)
(* The program is the ground truth: `real` holds the application frames    *)
(* that are really on each context's stack, `run` the context the loop     *)
(* thread executes.  Every step of it fires the interpreter events a       *)
(* callback sees, and the callback's whole effect is part of the step.     *)
(* The properties compare what the callbacks believe (`vstack`, `cur`,     *)
(* `active`, what they emitted) with the truth.                            *)
(*                                                                         *)
(* Frames outside the configured roots fire nothing and are not modelled:  *)
(* a frame here is an application frame, and library code runs as part of  *)
(* the frame that called it.                                               *)
(***************************************************************************)
EXTENDS Integers, Sequences, FiniteSets

CONSTANTS
  Tasks,       \* asyncio tasks that may run
  Workers,     \* anyio worker threads
  Main,        \* the loop thread outside any task: a call_soon callback
  None,        \* no node, no context, no trace
  Slow,        \* slow_ms, in ticks; 0 turns blocking detection off
  Programs,    \* programs: the sets of oddities they may have
  MaxNodes,    \* bound: how many frames the program enters
  MaxTime,     \* bound: how far the clock runs
  OddNodes,    \* the same two bounds of a program that has any of them
  OddTime,
  OddTasks,    \* bound: how many tasks run in such a program
  MaxDepth,    \* bound: how deep a stack gets
  MaxWaits     \* bound: unanswered suspends or resumes of a frame when the program
               \* has generators or cancels tasks

\* generators, plain or async; call_soon callbacks; cancelled tasks
Oddities == {"generators", "callbacks", "cancels"}

ASSUME MonitorAssumption ==
  /\ Main \notin Tasks \cup Workers
  /\ None \notin Tasks \cup Workers \cup {Main} \cup Nat
  /\ None \notin [node : Nat, since : Nat, trace : Tasks]
  /\ Tasks \cap Workers = {}
  /\ Slow \in Nat
  /\ Programs \subseteq SUBSET Oddities
  /\ {MaxNodes, MaxTime, OddNodes, OddTime, OddTasks, MaxDepth, MaxWaits} \subseteq Nat
  /\ OddNodes <= MaxNodes

VARIABLES
  \* the program
  odd,        \* which oddities it has
  real,       \* the application frames on each context's stack
  run,        \* the context the loop thread executes
  mode,       \* tasks: "new", "parked", "running", "done"; workers: "idle", "busy"
  awaits,     \* the worker whose job a task awaits
  inherited,  \* the frame a context was created from
  gens,       \* generator frames that have yielded and may be resumed
  now,        \* time.monotonic()
  gained,     \* when the innermost frame on the loop got control
  \* the monitor
  trace,      \* identity.current_trace() in each context
  vstack,     \* task._viz_stack, or the thread-local stack; `own` while the
              \* context an entry's token belongs to is the current one
  cur,        \* _current_node in each context
  active,     \* _active_node, _active_since, _active_trace
  offloaded,  \* Monitor._offloaded
  \* what it emitted
  nodes,      \* call_enter, with the truth beside it
  exited,     \* call_exit
  pool,       \* offload_start without its offload_end
  spans,      \* loop_blocked/loop_unblocked pairs
  waits       \* suspends without a resume, per node

program == <<odd, real, run, mode, awaits, inherited, gens, now, gained>>
beliefs == <<trace, vstack, cur, active, offloaded>>
emitted == <<nodes, exited, pool, spans, waits>>
vars == <<program, beliefs, emitted>>

Contexts == Tasks \cup Workers \cup {Main}
Nodes == 1 .. MaxNodes
Kinds == {"coro", "func", "gen", "agen"}
Top(s) == s[Len(s)]
Pop(s) == SubSeq(s, 1, Len(s) - 1)

\* The frame that is executing in c, or the one c was started from.
TrueTop(c) == IF real[c] = <<>> THEN inherited[c] ELSE Top(real[c]).node

WaitsBounded == \A n \in Nodes : waits[n] \in -MaxWaits .. MaxWaits

\* What is left on a thread's stack when it moves to another context.
Stale(s) == [i \in 1 .. Len(s) |-> [s[i] EXCEPT !.own = FALSE]]

Executing(c) == run = c \/ (c \in Workers /\ mode[c] = "busy")

\* Only coroutines and async generators can be suspended by an await.
AllCoro(c) == \A i \in 1 .. Len(real[c]) : real[c][i].kind \in {"coro", "agen"}

Init ==
  /\ odd \in Programs
  /\ real = [c \in Contexts |-> <<>>]
  /\ run = None
  /\ mode = [c \in Tasks \cup Workers |-> IF c \in Tasks THEN "new" ELSE "idle"]
  /\ awaits = [c \in Tasks |-> None]
  /\ inherited = [c \in Contexts |-> None]
  /\ gens = {}
  /\ now = 0
  /\ gained = 0
  /\ trace = [c \in Contexts |-> None]
  /\ vstack = [c \in Contexts |-> <<>>]
  /\ cur = [c \in Contexts |-> None]
  /\ active = None
  /\ offloaded = {}
  /\ nodes = <<>>
  /\ exited = {}
  /\ pool = {}
  /\ spans = {}
  /\ waits = [n \in Nodes |-> 0]

-----------------------------------------------------------------------------
(* Blocking detection *)

\* Mutant: a span of exactly slow_ms is not one.
Closed_Longer ==
  IF active # None /\ Slow > 0 /\ now - active.since > Slow
  THEN spans \cup {[node |-> active.node, since |-> active.since, until |-> now]}
  ELSE spans

\* _loop_close: the open interval is a blocking span if it lasted Slow.
Closed ==
  IF active # None /\ Slow > 0 /\ now - active.since >= Slow
  THEN spans \cup {[node |-> active.node, since |-> active.since, until |-> now]}
  ELSE spans

\* _loop_open: the interval of a frame that now holds the loop.
Opened(n, c) == [node |-> n, since |-> now, trace |-> trace[c]]

-----------------------------------------------------------------------------
(* The callbacks.  Nothing is recorded in a context that has no trace. *)

Silent(c) == trace[c] = None \/ vstack[c] = <<>>
Entered(c) == Top(vstack[c])

\* The outermost frame of a context that has no task is an offloaded call.
Offloads(c) == c \notin Tasks /\ vstack[c] = <<>>

\* A frame's parent is the top of its stack, or, off the loop, the frame whose
\* context the call runs in a copy of.
ParentOf(c) ==
  CASE vstack[c] # <<>>                   -> Entered(c).node
    [] vstack[c] = <<>> /\ c \in Tasks    -> None
    [] vstack[c] = <<>> /\ c \notin Tasks -> cur[c]

\* _on_start
OnStart(c) ==
  LET n == Len(nodes) + 1
      seen(p) == [ctx |-> c, trace |-> trace[c], first |-> real[c] = <<>>,
                  caller |-> TrueTop(c), parent |-> p]
  IN IF trace[c] = None
     THEN /\ nodes' = Append(nodes, seen(None))
          /\ UNCHANGED <<vstack, cur, offloaded, pool, spans, active>>
     ELSE /\ nodes' = Append(nodes, seen(ParentOf(c)))
          /\ vstack' = [vstack EXCEPT ![c] = Append(@, [node |-> n, old |-> cur[c], own |-> TRUE])]
          /\ cur' = [cur EXCEPT ![c] = n]
          /\ offloaded' = offloaded \cup {m \in {n} : Offloads(c)}
          /\ pool' = pool \cup {m \in {n} : Offloads(c)}
          /\ IF c \in Tasks
             THEN spans' = Closed /\ active' = Opened(n, c)
             ELSE UNCHANGED <<spans, active>>

\* Mutant: a worker's stack is never popped.
Popped_TasksOnly(c) == IF c \in Tasks THEN Pop(vstack[c]) ELSE vstack[c]

Popped(c) == Pop(vstack[c])

\* Mutant: the context variable keeps naming the frame that returned.
Restored_Never(c) == cur[c]

\* The token is only good in the context it was taken in.
Restored(c) == IF Entered(c).own THEN Entered(c).old ELSE cur[c]

\* Mutant: the frame that called gets no interval of its own.
Regained_None(c) == None

\* The interval of the frame that control returns to.
Regained(c) == IF Len(vstack[c]) = 1 THEN None ELSE Opened(Top(Pop(vstack[c])).node, c)

\* Mutant: a token of another context raises before call_exit is pushed.
ExitedWith_OwnOnly(c) == IF Entered(c).own THEN exited \cup {Entered(c).node} ELSE exited

ExitedWith(c) == exited \cup {Entered(c).node}

\* Mutant: the node is not looked up among the offloaded ones.
Brought_Never(c) == pool

\* offload_end, for a frame that was announced as offloaded.
Brought(c) == IF Entered(c).node \in offloaded THEN pool \ {Entered(c).node} ELSE pool

\* _on_exit, for a return and for an unwinding exception: whatever frame it is,
\* the top of the stack is popped.
OnExit(c) ==
  IF Silent(c)
  THEN UNCHANGED <<vstack, cur, offloaded, pool, spans, active, exited>>
  ELSE /\ vstack' = [vstack EXCEPT ![c] = Popped(c)]
       /\ cur' = [cur EXCEPT ![c] = Restored(c)]
       /\ exited' = ExitedWith(c)
       /\ offloaded' = offloaded \ {Entered(c).node}
       /\ pool' = Brought(c)
       /\ IF c \in Tasks
          THEN spans' = Closed /\ active' = Regained(c)
          ELSE UNCHANGED <<spans, active>>

\* _on_yield, fired once for each of k frames: each names the top of the stack.
OnYield(c, k) ==
  IF Silent(c) \/ k = 0
  THEN UNCHANGED <<waits, spans, active>>
  ELSE /\ waits' = [waits EXCEPT ![Entered(c).node] = @ + k]
       /\ IF c \in Tasks
          THEN spans' = Closed /\ active' = None
          ELSE UNCHANGED <<spans, active>>

\* Mutant: one resume for the whole chain.
OnResume_Once(c, k) ==
  IF Silent(c) \/ k = 0
  THEN UNCHANGED <<waits, active>>
  ELSE /\ waits' = [waits EXCEPT ![Entered(c).node] = @ - 1]
       /\ active' = IF c \in Tasks THEN Opened(Entered(c).node, c) ELSE active

\* _on_resume, fired once for each of k frames.
OnResume(c, k) ==
  IF Silent(c) \/ k = 0
  THEN UNCHANGED <<waits, active>>
  ELSE /\ waits' = [waits EXCEPT ![Entered(c).node] = @ - k]
       /\ active' = IF c \in Tasks THEN Opened(Entered(c).node, c) ELSE active

-----------------------------------------------------------------------------
(* The program *)

TasksBounded == odd # {} => Cardinality({d \in Tasks : mode[d] # "new"}) < OddTasks

\* A task starts: a request's, whose middleware gives it a trace, or one the
\* application started by itself.
Begin(c, id) ==
  /\ run = None
  /\ mode[c] = "new"
  /\ TasksBounded
  /\ run' = c
  /\ mode' = [mode EXCEPT ![c] = "running"]
  /\ trace' = [trace EXCEPT ![c] = id]
  /\ UNCHANGED <<odd, real, awaits, inherited, gens, now, gained, vstack, cur, active,
                 offloaded, emitted>>

\* create_task: the factory copies the trace and gives the child a stack of its
\* own; the interpreter copies the context.
Spawn(c, d) ==
  /\ run = c
  /\ mode[d] = "new"
  /\ TasksBounded
  /\ mode' = [mode EXCEPT ![d] = "parked"]
  /\ trace' = [trace EXCEPT ![d] = trace[c]]
  /\ cur' = [cur EXCEPT ![d] = cur[c]]
  /\ inherited' = [inherited EXCEPT ![d] = TrueTop(c)]
  /\ UNCHANGED <<odd, real, run, awaits, gens, now, gained, vstack, active, offloaded,
                 emitted>>

\* A frame is entered.
Call(c, kind) ==
  /\ Executing(c)
  /\ Len(nodes) < IF odd = {} THEN MaxNodes ELSE OddNodes
  /\ Len(real[c]) < MaxDepth
  /\ kind \in {"coro", "agen"} => c \in Tasks /\ AllCoro(c)
  /\ kind \in {"gen", "agen"} => "generators" \in odd
  /\ real' = [real EXCEPT ![c] = Append(@, [node |-> Len(nodes) + 1, kind |-> kind])]
  /\ gained' = IF c \in Tasks THEN now ELSE gained
  /\ OnStart(c)
  /\ UNCHANGED <<odd, run, mode, awaits, inherited, gens, now, trace, exited, waits>>

\* The innermost frame returns or is unwound by an exception.
Return(c) ==
  /\ Executing(c)
  /\ real[c] # <<>>
  /\ real' = [real EXCEPT ![c] = Pop(@)]
  /\ gained' = IF c \in Tasks THEN now ELSE gained
  /\ OnExit(c)
  /\ UNCHANGED <<odd, run, mode, awaits, inherited, gens, now, trace, nodes, waits>>

\* The task awaits something that is not ready; every frame of the chain fires.
Park(c) ==
  /\ run = c
  /\ c \in Tasks
  /\ AllCoro(c)
  /\ run' = None
  /\ OnYield(c, Len(real[c]))

Await(c) ==
  /\ Park(c)
  /\ mode' = [mode EXCEPT ![c] = "parked"]
  /\ UNCHANGED <<odd, real, awaits, inherited, gens, now, gained, trace, vstack, cur,
                 offloaded, nodes, exited, pool>>

\* await run_in_threadpool(f): the context is copied into an idle worker.
Offload(c, w) ==
  /\ mode[w] = "idle"
  /\ Park(c)
  /\ mode' = [mode EXCEPT ![c] = "parked", ![w] = "busy"]
  /\ awaits' = [awaits EXCEPT ![c] = w]
  /\ trace' = [trace EXCEPT ![w] = trace[c]]
  /\ cur' = [cur EXCEPT ![w] = cur[c]]
  /\ vstack' = [vstack EXCEPT ![w] = Stale(@)]
  /\ inherited' = [inherited EXCEPT ![w] = TrueTop(c)]
  /\ UNCHANGED <<odd, real, gens, now, gained, offloaded, nodes, exited, pool>>

\* The job is over; the worker's thread, and its thread-local stack, live on.
JobEnds(w) ==
  /\ mode[w] = "busy"
  /\ real[w] = <<>>
  /\ mode' = [mode EXCEPT ![w] = "idle"]
  /\ awaits' = [c \in Tasks |-> IF awaits[c] = w THEN None ELSE awaits[c]]
  /\ trace' = [trace EXCEPT ![w] = None]
  /\ cur' = [cur EXCEPT ![w] = None]
  /\ inherited' = [inherited EXCEPT ![w] = None]
  /\ UNCHANGED <<odd, real, run, gens, now, gained, vstack, active, offloaded, emitted>>

\* The loop runs the task again.
Resume(c) ==
  /\ run = None
  /\ mode[c] = "parked"
  /\ awaits[c] = None
  /\ run' = c
  /\ mode' = [mode EXCEPT ![c] = "running"]
  /\ gained' = now
  /\ OnResume(c, Len(real[c]))
  /\ UNCHANGED <<odd, real, awaits, inherited, gens, now, trace, vstack, cur, offloaded,
                 nodes, exited, pool, spans>>

\* The loop throws CancelledError into the task: the interpreter fires PY_THROW,
\* for which no callback is registered.
Cancelled(c) ==
  /\ "cancels" \in odd
  /\ WaitsBounded
  /\ run = None
  /\ mode[c] = "parked"
  /\ run' = c
  /\ mode' = [mode EXCEPT ![c] = "running"]
  /\ awaits' = [awaits EXCEPT ![c] = None]
  /\ gained' = now
  /\ UNCHANGED <<odd, real, inherited, gens, now, beliefs, emitted>>

\* The task is over.
Finish(c) ==
  /\ run = c
  /\ c \in Tasks
  /\ real[c] = <<>>
  /\ run' = None
  /\ mode' = [mode EXCEPT ![c] = "done"]
  /\ UNCHANGED <<odd, real, awaits, inherited, gens, now, gained, beliefs, emitted>>

\* The loop runs a call_soon callback, in a copy of the context it was
\* scheduled from and with no current task.
RunCallback(c) ==
  /\ "callbacks" \in odd
  /\ run = None
  /\ c \in Tasks
  /\ mode[c] # "new"
  /\ run' = Main
  /\ trace' = [trace EXCEPT ![Main] = trace[c]]
  /\ cur' = [cur EXCEPT ![Main] = cur[c]]
  /\ vstack' = [vstack EXCEPT ![Main] = Stale(@)]
  /\ inherited' = [inherited EXCEPT ![Main] = TrueTop(c)]
  /\ UNCHANGED <<odd, real, mode, awaits, gens, now, gained, active, offloaded, emitted>>

CallbackEnds ==
  /\ run = Main
  /\ real[Main] = <<>>
  /\ run' = None
  /\ UNCHANGED <<odd, real, mode, awaits, inherited, gens, now, gained, beliefs, emitted>>

\* A generator frame hands a value to its caller: the loop is not yielded.
GenYields(c) ==
  /\ Executing(c)
  /\ WaitsBounded
  /\ real[c] # <<>>
  /\ Top(real[c]).kind \in {"gen", "agen"}
  /\ gens' = gens \cup {Top(real[c])}
  /\ real' = [real EXCEPT ![c] = Pop(@)]
  /\ gained' = IF c \in Tasks THEN now ELSE gained
  /\ OnYield(c, 1)
  /\ UNCHANGED <<odd, run, mode, awaits, inherited, now, trace, vstack, cur, offloaded,
                 nodes, exited, pool>>

\* close(), or the collector: GeneratorExit unwinds it where it was suspended.
GenCloses(c) ==
  /\ Executing(c)
  /\ \E g \in gens : gens' = gens \ {g}
  /\ OnExit(c)
  /\ UNCHANGED <<odd, real, run, mode, awaits, inherited, now, gained, trace, nodes, waits>>

\* next() or anext() on it, from any context.
GenResumes(c) ==
  /\ Executing(c)
  /\ WaitsBounded
  /\ Len(real[c]) < MaxDepth
  /\ \E g \in gens :
       /\ g.kind = "agen" => c \in Tasks /\ AllCoro(c)
       /\ gens' = gens \ {g}
       /\ real' = [real EXCEPT ![c] = Append(@, g)]
  /\ gained' = IF c \in Tasks THEN now ELSE gained
  /\ OnResume(c, 1)
  /\ UNCHANGED <<odd, run, mode, awaits, inherited, now, trace, vstack, cur, offloaded,
                 nodes, exited, pool, spans>>

Tick ==
  /\ now < IF odd = {} THEN MaxTime ELSE OddTime
  /\ now' = now + 1
  /\ UNCHANGED <<odd, real, run, mode, awaits, inherited, gens, gained, beliefs, emitted>>

-----------------------------------------------------------------------------

Next ==
  \/ \E c \in Contexts :
       \/ \E kind \in Kinds : Call(c, kind)
       \/ Return(c)
       \/ GenYields(c)
       \/ GenResumes(c)
       \/ GenCloses(c)
  \/ \E c \in Tasks :
       \/ \E id \in {c, None} : Begin(c, id)
       \/ \E d \in Tasks : Spawn(c, d)
       \/ Await(c)
       \/ \E w \in Workers : Offload(c, w)
       \/ Resume(c)
       \/ Cancelled(c)
       \/ Finish(c)
       \/ RunCallback(c)
  \/ \E w \in Workers : JobEnds(w)
  \/ CallbackEnds
  \/ Tick

Spec == Init /\ [][Next]_vars

-----------------------------------------------------------------------------
(* Properties *)

Entry == [node : Nodes, old : Nodes \cup {None}, own : BOOLEAN]
Frame == [node : Nodes, kind : Kinds]
Entrance == [ctx : Contexts, trace : Tasks \cup {None}, first : BOOLEAN,
             caller : Nodes \cup {None}, parent : Nodes \cup {None}]

TypeOK ==
  /\ odd \in Programs
  /\ real \in [Contexts -> Seq(Frame)]
  /\ run \in Tasks \cup {Main, None}
  /\ mode \in [Tasks \cup Workers -> {"new", "parked", "running", "done", "idle", "busy"}]
  /\ awaits \in [Tasks -> Workers \cup {None}]
  /\ inherited \in [Contexts -> Nodes \cup {None}]
  /\ gens \subseteq Frame
  /\ now \in Nat /\ gained \in Nat
  /\ trace \in [Contexts -> Tasks \cup {None}]
  /\ vstack \in [Contexts -> Seq(Entry)]
  /\ cur \in [Contexts -> Nodes \cup {None}]
  /\ active \in [node : Nodes, since : Nat, trace : Tasks] \cup {None}
  /\ offloaded \subseteq Nodes /\ exited \subseteq Nodes /\ pool \subseteq Nodes
  /\ nodes \in Seq(Entrance)
  /\ spans \subseteq [node : Nodes, since : Nat, until : Nat]
  /\ waits \in [Nodes -> Int]

Traced(c) == trace[c] # None

\* The program has neither generators nor callbacks and cancels nothing.  What
\* the others do to these properties is in the known divergences.
Plain == odd = {}

\* The monitor's stack of every traced task and worker is the stack of
\* application frames that are really there, across awaits, offloads, child
\* tasks and the reuse of worker threads; there is none for the others
\* (monitor.py:226-246, 354-458).
StackMirrors ==
  \A c \in Contexts :
    [i \in DOMAIN vstack[c] |-> vstack[c][i].node]
      = IF Traced(c) THEN [i \in DOMAIN real[c] |-> real[c][i].node] ELSE <<>>

\* _current_node names the innermost application frame in every traced context,
\* so a worker that gets a copy of it knows who offloaded it
\* (monitor.py:111-117).
ContextNames ==
  \A c \in Tasks \cup Workers :
    Traced(c) /\ mode[c] \in {"parked", "running", "busy"} => cur[c] = TrueTop(c)

\* In the call tree every frame hangs under the frame that called it, or that
\* offloaded it to the worker, and belongs to that frame's request; only the
\* first frame of a task has no parent (monitor.py:374-381).
ParentIsCaller ==
  \A i \in 1 .. Len(nodes) :
    LET n == nodes[i] IN
    CASE n.trace = None              -> n.parent = None
      [] n.trace # None /\ n.ctx \in Tasks /\ n.first -> n.parent = None
      [] OTHER -> /\ n.parent = n.caller
                  /\ n.parent # None => nodes[n.parent].trace = n.trace

\* offload_start is open for exactly the outermost application frame of each
\* traced worker's job, so that every offload_start meets its offload_end
\* (monitor.py:416-420, 445-447).
OffloadBracket ==
  LET outermost == {real[w][1].node : w \in {v \in Workers : Traced(v) /\ real[v] # <<>>}}
  IN offloaded = outermost /\ pool = outermost

\* What the stacks and the pool hold is what runs (monitor.py:226-246, 354-458).
FramesAreThere == Plain => StackMirrors /\ OffloadBracket

\* The call tree is that of the program, across tasks and threads
\* (monitor.py:111-117, 374-381).
CallersAreNamed == Plain => ContextNames /\ ParentIsCaller

\* The frame that really holds the loop, if its calls are recorded.
LoopTop == IF run \in Tasks /\ Traced(run) /\ real[run] # <<>> THEN Top(real[run]).node ELSE None

\* The open interval is that of the frame really holding the loop, since it
\* really got control, and nobody's while the loop waits, runs library code of
\* its own or a task that has no application frame (monitor.py:122-150).
ActiveIsTruth ==
  Plain =>
    active = IF LoopTop = None THEN None
             ELSE [node |-> LoopTop, since |-> gained, trace |-> trace[run]]

\* Every suspend is answered: a frame has suspends without a resume only while
\* it is the innermost frame of a parked task, one for each frame of the chain
\* (monitor.py:473-520).
SuspendsAnswered ==
  LET parked == {c \in Tasks : mode[c] = "parked" /\ Traced(c) /\ real[c] # <<>>}
      chain(n) == {c \in parked : Top(real[c]).node = n}
  IN Plain => \A n \in Nodes :
       IF chain(n) = {} THEN waits[n] = 0 ELSE \E c \in chain(n) : waits[n] = Len(real[c])

SpansFollow ==
  spans' = spans \cup
    IF LoopTop # None /\ LoopTop' # LoopTop /\ Slow > 0 /\ now - gained >= Slow
    THEN {[node |-> LoopTop, since |-> gained, until |-> now]}
    ELSE {}

\* A blocking span is reported exactly when the innermost application frame
\* loses the loop after holding it for at least slow_ms, with the bounds of
\* that hold; waiting is never counted (monitor.py:291-338).
SpansAreHolds == [][Plain => SpansFollow]_vars

\* Whatever generators, callbacks and cancellations do to the stacks: a frame
\* that was announced is on exactly one of them until its call_exit, which it
\* gets once (monitor.py:424-458).
EnteredOrExited ==
  LET held(c) == {vstack[c][i].node : i \in DOMAIN vstack[c]}
  IN /\ \A c \in Contexts : Cardinality(held(c)) = Len(vstack[c])
     /\ \A c, d \in Contexts : c # d => held(c) \cap held(d) = {}
     /\ UNION {held(c) : c \in Contexts} =
          {n \in 1 .. Len(nodes) : nodes[n].trace # None} \ exited

\* And a call announced as offloaded ends with its offload_end, even if its
\* frame is popped in the place of another (monitor.py:416-420, 445-447).
OffloadsEnd ==
  pool = {vstack[c][1].node : c \in {d \in Workers \cup {Main} : vstack[d] # <<>>}}

\* No frame and no offload is lost or ended twice, in any program
\* (monitor.py:416-458).
FramesEnd == EnteredOrExited /\ OffloadsEnd

\* monitor.py:391-392: "True threadpool signal: code running with NO current
\* asyncio task is on an anyio worker thread".
OffLoopIsWorker == \A n \in pool : nodes[n].ctx \in Workers

\* architecture.md:41-43: the thread-local stack is correct "because AnyIO runs
\* one offloaded call per worker thread at a time": it is empty between calls.
WorkerStartsClean == \A w \in Workers : mode[w] = "idle" => vstack[w] = <<>>

\* architecture.md:67: a suspend means "frame hit an `await` and yielded the
\* loop", so no frame of the task that holds the loop is suspended.
SuspendedIsParked ==
  run \in Tasks => \A i \in 1 .. Len(vstack[run]) : waits[vstack[run][i].node] = 0

\* monitor.py:291-300, of a program that cancels tasks as well.
CancelledHoldsAreSpans == [][SpansFollow]_vars

=============================================================================
