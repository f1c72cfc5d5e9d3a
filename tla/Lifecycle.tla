------------------------------ MODULE Lifecycle ------------------------------
(***************************************************************************)
(* How visualize() (app.py) puts its instrumentation in place when an      *)
(* application starts and takes it away when it stops: the task factory    *)
(* of the loop, a sys.monitoring tool id, the threadpool poller, the       *)
(* listener and the watchdog.                                              *)
(*                                                                         *)
(* Several applications share a loop and start and stop in any order, as   *)
(* often as they like; each has one lifespan at a time.  on_startup() has  *)
(* no await and is one step; on_shutdown() awaits the poller once, and     *)
(* everything else runs meanwhile.  Each of their steps may fail, and the  *)
(* rest goes on.                                                           *)
(*                                                                         *)
(* The task factory is the list of the applications whose factories wrap   *)
(* one another, from the host's own outwards.                              *)
(***************************************************************************)
EXTENDS Integers, Sequences, FiniteSets

CONSTANTS
  Apps,
  Host,       \* the task factory the loop had, and the owner of other tools
  None,
  Ids,        \* the tool ids, 6 in CPython
  Levels,     \* states of the thread pool
  MaxStarts   \* bound: how often applications start

ASSUME LifecycleAssumption ==
  /\ Host \notin Apps /\ Ids \subseteq Nat /\ IsFiniteSet(Ids) /\ None \notin Apps \cup Levels \cup Ids \cup {Host}
  /\ MaxStarts \in Nat

VARIABLES
  phase,      \* each application: "down", "up", "stopping", "cut"
  factory,    \* the task factory of the loop
  saved,      \* loop._viz_prev_factory, empty before it is set
  tools,      \* who has each tool id
  tool,       \* Monitor.tool_id
  enabled,    \* Monitor.enabled
  listening,  \* the detector in state["blocking_calls"] is installed
  watching,   \* the watchdog in state["watchdog"] runs
  poller,     \* the task in state["poll_task"]: "none", "asleep", "done"
  stopEvent,  \* state["stop_event"] is set
  last,       \* the poller's local `last`
  pool,       \* the state of the thread pool
  starts,     \* history: how many startups there were
  base,       \* history: the factory when the first of those up now started
  alone,      \* history: no other application has been up since, and no shutdown
              \* was cut short
  cuts        \* history: how many shutdowns of each application were cut short

instruments == <<factory, saved, tools, tool, enabled, listening, watching>>
polling == <<poller, stopEvent, last>>
history == <<starts, base, alone, cuts>>
vars == <<phase, instruments, polling, pool, history>>

Init ==
  /\ phase = [a \in Apps |-> "down"]
  /\ factory = <<Host>> /\ saved = <<>>
  /\ tools \in [Ids -> {Host, None}]
  /\ tool = [a \in Apps |-> None]
  /\ enabled = [a \in Apps |-> FALSE]
  /\ listening = [a \in Apps |-> FALSE]
  /\ watching = [a \in Apps |-> FALSE]
  /\ poller = [a \in Apps |-> "none"]
  /\ stopEvent = [a \in Apps |-> FALSE]
  /\ last = [a \in Apps |-> None]
  /\ pool \in Levels
  /\ starts = 0 /\ base = <<Host>> /\ alone = TRUE
  /\ cuts = [a \in Apps |-> 0]

Running == {a \in Apps : phase[a] \in {"up", "stopping"}}

-----------------------------------------------------------------------------
(* Startup *)

\* Mutant: what the first application found is kept.
InstallFactory_KeepFirst(a) ==
  /\ saved' = IF saved = <<>> THEN factory ELSE saved
  /\ factory' = Append(factory, a)

\* install_task_factory: a running loop takes any callable.
InstallFactory(a) ==
  /\ saved' = factory
  /\ factory' = Append(factory, a)

Free == {i \in Ids : tools[i] = None}

\* The first tool id that nobody has.
IsFirstFree(i) == i \in Free /\ \A j \in Free : i <= j

\* Mutant: the tool id is not given back when a registration fails.
InstallMonitor_Keep(a, works) ==
  \/ Free = {} /\ UNCHANGED <<tools, tool, enabled>>
  \/ \E i \in Ids :
       /\ IsFirstFree(i)
       /\ tools' = [tools EXCEPT ![i] = a]
       /\ tool' = [tool EXCEPT ![a] = IF works THEN i ELSE None]
       /\ enabled' = [enabled EXCEPT ![a] = works]

\* Monitor.install: the id it takes replaces the one it has, which stays in use;
\* it is given back when the registration fails.
InstallMonitor(a, works) ==
  \/ Free = {} /\ UNCHANGED <<tools, tool, enabled>>
  \/ \E i \in Ids :
       /\ IsFirstFree(i)
       /\ tools' = IF works THEN [tools EXCEPT ![i] = a] ELSE tools
       /\ tool' = [tool EXCEPT ![a] = IF works THEN i ELSE None]
       /\ enabled' = [enabled EXCEPT ![a] = works]

\* threadpool.start
StartPoller(a) ==
  /\ poller' = [poller EXCEPT ![a] = "asleep"]
  /\ last' = [last EXCEPT ![a] = None]
  /\ stopEvent' = [stopEvent EXCEPT ![a] = FALSE]

\* The steps that may raise: a registration, a hook that another hook refuses, a
\* thread that does not start.
Steps == {"monitor", "listener", "watchdog"}

\* on_startup(): the steps in `failed` raise.  It does not ask how the shutdown
\* before it ended.
Start(a, failed) ==
  /\ phase[a] \in {"down", "cut"} /\ starts < MaxStarts
  /\ phase' = [phase EXCEPT ![a] = "up"]
  /\ InstallFactory(a)
  /\ InstallMonitor(a, "monitor" \notin failed)
  /\ StartPoller(a)
  /\ listening' = [listening EXCEPT ![a] = "listener" \notin failed]
  /\ watching' = [watching EXCEPT ![a] = "watchdog" \notin failed]
  /\ starts' = starts + 1
  /\ base' = IF Running = {} THEN factory ELSE base
  /\ alone' = (Running = {})
  /\ UNCHANGED <<pool, cuts>>

-----------------------------------------------------------------------------
(* Shutdown *)

\* Mutant: the poller is not told.
BeginStop_NotTold(a) ==
  /\ phase[a] = "up"
  /\ phase' = [phase EXCEPT ![a] = "stopping"]
  /\ listening' = [listening EXCEPT ![a] = FALSE]
  /\ watching' = [watching EXCEPT ![a] = FALSE]
  /\ UNCHANGED <<factory, saved, tools, tool, enabled, polling, pool, history>>

\* on_shutdown() up to its await.
BeginStop(a) ==
  /\ phase[a] = "up"
  /\ phase' = [phase EXCEPT ![a] = "stopping"]
  /\ listening' = [listening EXCEPT ![a] = FALSE]
  /\ watching' = [watching EXCEPT ![a] = FALSE]
  /\ stopEvent' = [stopEvent EXCEPT ![a] = TRUE]
  /\ UNCHANGED <<factory, saved, tools, tool, enabled, poller, last, pool, history>>

\* Monitor.uninstall, which does nothing without a tool id.
UninstallMonitor(a) ==
  /\ tools' = [i \in Ids |-> IF tool[a] = i THEN None ELSE tools[i]]
  /\ tool' = [tool EXCEPT ![a] = None]
  /\ enabled' = [enabled EXCEPT ![a] = FALSE]

\* uninstall_task_factory: whatever the latest installation found.
UninstallFactory ==
  /\ factory' = saved
  /\ saved' = saved

\* The rest of on_shutdown().
Finish(a) ==
  /\ phase' = [phase EXCEPT ![a] = "down"]
  /\ UninstallMonitor(a)
  /\ UninstallFactory
  /\ UNCHANGED <<listening, watching, stopEvent, last, pool, history>>

\* The poller is over, or there never was one.
Stopped(a) ==
  /\ phase[a] = "stopping" /\ poller[a] # "asleep"
  /\ Finish(a)
  /\ UNCHANGED poller

\* Mutant: a poller that is late is left to itself.
TimedOut_LeftAlone(a) ==
  /\ phase[a] = "stopping" /\ poller[a] = "asleep"
  /\ Finish(a)
  /\ UNCHANGED poller

\* wait_for() gives up and cancels the poller.
TimedOut(a) ==
  /\ phase[a] = "stopping" /\ poller[a] = "asleep"
  /\ Finish(a)
  /\ poller' = [poller EXCEPT ![a] = "done"]

\* The shutdown itself is cancelled at its await, which no `except Exception`
\* catches: the poller is cancelled, the rest does not happen, and the monitor
\* and the factory stay as they are.
CutShort(a) ==
  /\ phase[a] = "stopping" /\ poller[a] = "asleep"
  /\ phase' = [phase EXCEPT ![a] = "cut"]
  /\ poller' = [poller EXCEPT ![a] = "done"]
  /\ cuts' = [cuts EXCEPT ![a] = @ + 1]
  /\ alone' = FALSE
  /\ UNCHANGED <<instruments, stopEvent, last, pool, starts, base>>

-----------------------------------------------------------------------------
(* The poller *)

\* The limiter cannot be read this time.
PollFails(a) ==
  /\ poller[a] = "asleep" /\ ~ stopEvent[a]
  /\ UNCHANGED vars

\* One turn of poll_loop: a sample is pushed only when the state has changed.
Poll(a) ==
  /\ poller[a] = "asleep"
  /\ IF stopEvent[a]
     THEN poller' = [poller EXCEPT ![a] = "done"] /\ last' = last
     ELSE poller' = poller /\ last' = [last EXCEPT ![a] = pool]
  /\ UNCHANGED <<phase, instruments, stopEvent, pool, history>>

PoolChanges ==
  /\ pool' \in Levels
  /\ UNCHANGED <<phase, instruments, polling, history>>

-----------------------------------------------------------------------------

Next ==
  \/ \E a \in Apps :
       \/ \E failed \in SUBSET Steps : Start(a, failed)
       \/ BeginStop(a) \/ Stopped(a) \/ TimedOut(a) \/ CutShort(a)
       \/ Poll(a) \/ PollFails(a)
  \/ PoolChanges

Spec == Init /\ [][Next]_vars

\* The loop runs the pollers, and on_shutdown() when its await is over.  No
\* reading of the limiter fails for ever, no timeout is needed, and nobody
\* need stop.
Fairness == \A a \in Apps : WF_vars(Poll(a)) /\ WF_vars(Stopped(a))

FairSpec == Spec /\ Fairness

-----------------------------------------------------------------------------
(* Properties *)

Chains == Seq(Apps \cup {Host})

TypeOK ==
  /\ phase \in [Apps -> {"down", "up", "stopping", "cut"}]
  /\ factory \in Chains \ {<<>>} /\ saved \in Chains
  /\ tools \in [Ids -> Apps \cup {Host, None}]
  /\ tool \in [Apps -> Ids \cup {None}]
  /\ enabled \in [Apps -> BOOLEAN]
  /\ listening \in [Apps -> BOOLEAN] /\ watching \in [Apps -> BOOLEAN]
  /\ poller \in [Apps -> {"none", "asleep", "done"}]
  /\ stopEvent \in [Apps -> BOOLEAN]
  /\ last \in [Apps -> Levels \cup {None}]
  /\ pool \in Levels
  /\ starts \in 0 .. MaxStarts /\ base \in Chains /\ alone \in BOOLEAN
  /\ cuts \in [Apps -> Nat]

Held(a) == {i \in Ids : tools[i] = a}

\* A monitor that traces has its tool id, one that is down has none, and the ids
\* an application has lost are no more than its shutdowns that were cut short,
\* over restarts, failures and several applications: with none cut short, an id
\* is its exactly as long as its monitor traces with it (monitor.py:165-222).
ToolsAreReturned ==
  \A a \in Apps :
    /\ tool[a] # None => tool[a] \in Held(a)
    /\ enabled[a] <=> tool[a] # None
    /\ phase[a] = "down" => tool[a] = None
    /\ Cardinality(Held(a) \ {tool[a]}) <= cuts[a]

\* The tasks of the loop are still made by what the host had installed: no
\* order of starts and stops loses it (identity.py:166-181, 199-204).
HostKeepsItsFactory == factory # <<>> /\ Head(factory) = Host

\* A startup and its shutdown that no other overlaps, and that is not cut short,
\* leave the loop with the factory they found (identity.py:163-204).
AloneRestores == Running = {} /\ alone => factory = base

\* As long as an application is up, child tasks inherit the trace of their
\* creators, although another application has stopped and
\* restored what it had found (identity.py:163-204, architecture.md:241-242).
InheritsWhileUp == \A a \in Apps : phase[a] = "up" => Len(factory) > 1

\* After a shutdown the listener, the watchdog and the poller are stopped, also if
\* it was cut short; if it was not, the monitor is too, and no tool id is kept
\* unless one was cut short before (app.py:346-378).
NothingRunsWhenDown ==
  \A a \in Apps :
    /\ phase[a] \in {"down", "cut"} => poller[a] # "asleep" /\ ~ listening[a] /\ ~ watching[a]
    /\ phase[a] = "down" => ~ enabled[a] /\ (cuts[a] = 0 => Held(a) = {})

\* What an application leaves behind is what it found, its shutdowns that were
\* cut short excepted (app.py:346-378).
LeavesNoTrace == AloneRestores /\ NothingRunsWhenDown

\* architecture.md:521-523: "uninstalling truly disables tracing (no leaked
\* callbacks or DISABLE state)": an application that was shut down has no id.
NoLeakedCallbacks == \A a \in Apps : phase[a] = "down" => Held(a) = {}

\* The same of one whose shutdown was cut short: its monitor does not trace.
CutRunsNothing == \A a \in Apps : phase[a] = "cut" => ~ enabled[a]

\* A shutdown ends without the timeout of its await, and nothing another
\* application does keeps it up (app.py:346-378).
ShutdownEnds == \A a \in Apps : phase[a] = "stopping" ~> phase[a] \in {"down", "cut"}

=============================================================================
