# fastapi_visualizer: a TLA+ model, its checks and its proofs

`fastapi_visualizer` instruments a FastAPI application from the inside
(`sys.monitoring` callbacks, an asyncio task factory, a watchdog thread, an audit
hook), pushes what it sees as events into one collector per process, and streams
them over a WebSocket to a dashboard that rebuilds rows, call trees, loop holder
and busy workers from them. All of it runs beside the program it observes, on the
same event loop and on the same threads, so nearly every question worth asking is
about interleavings.

Paths without a directory are under `src/src/fastapi_visualizer/`.
Run a check with `tlc -config <cfg> <module>` and a proof with `tlapm <module>.tla`.

## 1. The system

| Part | State it keeps | Operations | Talks to |
|---|---|---|---|
| Collector (`collector.py`, `events.py`) | `_seq`, ring `buffer`, `_subscribers`, one bounded queue each | `push` under a lock from any thread, `_deliver` on the loop, `subscribe`, `unsubscribe`, `snapshot`, `clear` | everybody pushes; handlers subscribe |
| WebSocket handler (`app.py` 138-195) | per connection: queue, `reader` and `getter` tasks, batch | subscribe, backlog, wait for queue or disconnect, drain, send, unsubscribe | collector, dashboard |
| Dashboard connection (`static/dashboard.js` 150-169, 300-333, 2425-2478) | `lastSeq`, `droppedCount`, `sawFirstFrame`, `connectBaselineT`, `pending` | `connect`, `onmessage`, `noteSeq`, `bufferEvents` | handler |
| Dashboard ingestion (`static/dashboard.js` 218-918, 1210-1257, 2496-2532) | rows, trees, stacks, loop holder, workers, stall, spans, hidden count | `ingest` per event kind, "clear", "max req" | the event stream |
| Dashboard playback (`static/dashboard.js` 334-409, 2483-2551, 2771-2779) | `virtualT`, `maxSeenT`, `lastFrameMs`, `SPEED`, `stepMode` | `advancePlayback`, `doStep`, speed, step mode, "clear" | `pending`, `ingest` |
| Dashboard rendering and layout (`static/dashboard.js`, `static/viz`) | the frame drawn last, `scrollLoop`, `scrollPool`, `splitFrac`, size | `render`, `drawZone`, row and tree layout, divider, wheel, resize | ingestion's state, the user |
| Dashboard filter and inspector (`static/viz/filter.js`, `static/dashboard.js`) | `filterTerms`, `selectedTrace`, panel tab, `branch.expanded` | click, filter, `openInspector`, throttled repaint | the frame drawn last, ingestion's state |
| Monitor (`monitor.py`) | a stack per task or thread, `_current_node` per context, the active frame, `_offloaded` | `_on_start`, `_on_return`, `_on_unwind`, `_on_yield`, `_on_resume`, `install`, `uninstall` | the interpreter, collector |
| Tracing middleware and identity (`identity.py`) | the trace of a task or context, the loop's task factory | request start and end, `install_task_factory`, `uninstall_task_factory` | monitor, collector |
| Watchdog (`watchdog.py`) | `_last_tick`, `_stalled`, `_stall_since`, `_stop` | heartbeat task, watch thread, `start`, `stop` | monitor's active frame, collector |
| Blocking-call listener (`blockingcalls.py`) | the one hook, registry of detectors, memory of reported calls | `install`, `uninstall`, the hook | interpreter, collector |
| Threadpool poller (`threadpool.py`) | last state seen | `poll_loop`, `start` | anyio's limiter, collector |
| Application lifecycle (`app.py` 280-411) | `state`, tool id, poll task | `on_startup`, `on_shutdown` | installs and removes all the above |
| Enable gate, mount path, routes (`app.py`) | none | a decision from arguments and environment | none |

What is hard about it, and what makes each part correct:

* **Collector.** Threads and loop push at once while subscribers come and go, and
  a slow subscriber's queue overflows. Correct: the ring and every subscriber's
  stream are unbroken runs of seqs in order; an overflow sheds the oldest only.
* **Stream.** A handler waits on two things and must see a disconnect on an idle
  application; a reconnecting tab overlaps its own old handler; the backlog
  overlaps the queue. Correct: drops are counted exactly, nothing else
  disappears, nothing is animated twice, every handler ends, every event arrives.
* **Monitor.** Interpreter events of many tasks and threads reach one set of
  callbacks, which must guess what the program does. Correct: its stacks are the
  real stacks, a parent is the real caller (or the frame that offloaded), the
  blocking interval is that of the frame that really held the loop.
* **Watchdog.** A thread reads what the loop writes, exactly when the loop may
  recover, freeze again, or shut down. Correct: a loop none of whose rounds takes too
  long is never reported, a frozen one always is, once, and `stop()` ends both.
* **Ingestion.** One stack per request is shared by tasks and threads; the stream
  may have holes; rows are bounded. Correct: with a complete stream the view is
  the truth; with a lossy one it is incomplete but not wrong.
* **Playback.** Events arrive in an order that is not that of their times, frames
  may stop for as long as the tab is hidden, and the user switches between a clock
  and single steps. Correct: every event is shown once and in order, the clock is
  not ahead of what happened, a step hides no hand-off, playback is never dead.
* **View.** Clicks are answered from the frame drawn last while rows come, go and
  change zone; two bands share one canvas; trees are shrunk until they fit. Correct:
  what is seen is what is hit, nothing overlaps, the inspector catches up.
* **Blocking-call listener.** The hook cannot be removed, runs on every thread and
  may call itself. Correct: one hook, no recursion, each call reported once.
* **Lifecycle.** Applications that share a loop start and stop in any order, each
  step may fail, a shutdown may be cut short. Correct: what was put in is there while up,
  and gone after a shutdown that ran to its end.

The full list of hazards, at their lines and with the properties that cover them,
is in `PROJECT.json`.

## 2. The modules

```
CountedStream          what a tab is promised (abstract)
      ^ implemented by (TLC: PROPERTY PromiseSpec; TLAPS: StreamKeepsPromise)
EventStream            ws_endpoint + the tab's socket handling
      | EXTENDS        (TLAPS: StreamImplementsCollector)
Collector              push, deliver, subscribe, clear
EventStream_proofs     of the collector by itself, and of the stream
LeftFold               what a loop over a sequence computes; no model of code,
                       used for the tab's loops over a frame, its buffer and its rows

Ingest                 ingest() and branchState(): pure operators on the client's state
  ^ EXTENDS     ^ EXTENDS
Dashboard       Layout   where things are drawn: pure operators
(requests are     ^ EXTENDS
the ground        |
truth)            |
  ^ EXTENDS       |
View -------------+      render() and the user's gestures, over that server
                         (TLAPS: ViewWatches, View implements Dashboard)
Dashboard_proofs         of Dashboard, and of View

Playback               buffer, virtual clock, single steps
Playback_proofs
Monitor                the callbacks, under a program that is the ground truth
Monitor_proofs
Watchdog               heartbeat, watch thread, stop()
Watchdog_proofs
BlockingCalls          hook and detectors
BlockingCalls_proofs
Lifecycle              startup and shutdown, task factory, tool ids, poller
Lifecycle_proofs
MC<Module>             names the model values of the .cfg files
```

Monitor, Watchdog and Dashboard are built alike: the program that is observed is
part of the model, its own variables hold what really happens, each of its steps
fires the events the code would see, and the code's whole reaction is part of
that step. The properties compare the two. This is the strongest statement one
can make about an observer, and the one unit tests do not make.

Definitions named `X_Something` under a comment `Mutant:` are seeded bugs of `X`.
No specification uses them; each shows that some property notices that bug.

Some runs put several kinds of instance into one: a variable that Init chooses and
no step changes says what may happen in this behaviour. It is `odd` in Monitor (the
oddities of the program: generators, `call_soon` callbacks, cancellations), `world` in
Dashboard (lost events, "clear", a lowered cap), to which View adds which gestures
and which window sizes there are; each with bounds of its own.
Properties that only hold without oddities or harm say so.

### Collector (`collector.py`)

`push()` is cut where another thread could see the difference: `Create` (stamps
`t`, before the lock), `Acquire`, `ReadSeq` and `Stamp` (`+= 1` is a load and a
store), `AppendRing`, `Schedule` (one `call_soon_threadsafe` per subscriber),
`Release`. `Deliver`, `Subscribe`, `Unsubscribe`, `Clear` and `CloseLoop` run on
the loop. `ready` holds the scheduled callbacks, per queue, in order. `shed`
remembers what overflows discarded.

### EventStream (`app.py` 138-195, `dashboard.js`)

The handler is cut at its awaits: `Open`, `Snapshot`, `Send`, `Wait`, `Drain`,
`Leave`, `Wake`, `Finish`. `Get` and `SeeDisconnect` are its `getter` and `reader`
tasks. A worker can push between `subscribe()` and `snapshot()` although the loop
cannot do anything else there; `slice` says so. `SendFails` and `AcceptFails` are
the exceptions. The tab's side is `Connect`, `Disconnect`, `Receive`; the loops of
`onmessage` over a frame are folds of `NoteSeq` and `Buffered`.

### Monitor (`monitor.py`, `identity.py`)

The program's steps are `Begin`, `Spawn`, `Call`, `Return`, `Await`, `Offload`,
`JobEnds`, `Resume`, `Cancelled`, `Finish`, `RunCallback`, `CallbackEnds`,
`GenYields`, `GenCloses`, `GenResumes`. The callbacks are `OnStart`, `OnExit`,
`OnYield`, `OnResume`. What the interpreter fires is modelled as CPython does it:
one await raises PY_YIELD for every frame of the chain, innermost first, and
PY_RESUME for every frame, outermost first; a generator's PY_START comes at its
first `next()`; a cancellation is PY_THROW, which the code does not listen to,
and unwinds the frames. Contexts are those of asyncio and anyio: a task copies
its creator's, a job runs in a copy of its submitter's, and a token belongs to
the context it was taken in. Not modelled: files outside the roots (they fire
nothing), `DISABLE`, labels and request bodies.

### Watchdog (`watchdog.py`)

The loop runs in rounds, as asyncio does (`running`): `Collect` fixes what a round
will run, `EndRound` ends it, and in between `Enter` and `LetGo` run any number of
callbacks, one at a time, before or after what the heartbeat has in the round. A timer
that falls due waits for the next round to begin; in it `Fire` only makes the task
ready for the round after that, in which `Beat` runs it. So a beat may be late by
three rounds, and by every callback in them. The watch thread is cut at each
shared read and write: `Wait`, `Look`, `Measure`, `Decide` (the test of `_stalled`),
`Raise` and `Lower` (its writes), `Date`, `Inspect`, `Report`, `Close`. `stop()` is
cut at `StopBegins` (the test), `StopLowers`, `StopCloses`, `StopSets`, `StopJoins`,
and the loop is blocked in between, as in the code. So thread and `stop()` may both
pass the test, and both push a `loop_unstalled`.

### Ingest and Dashboard (`dashboard.js`)

`Ingest` is the client's reaction to one event, one operator per kind, on a record
with everything `ingest()` keeps. In `Dashboard`, requests start, enter and leave
frames on the loop and on workers, suspend, resume, hold the loop and end; each
step emits what the instrumentation pushes, through `Arrive`, which in a lossy world
may shed any event. The two detectors of a frozen loop are independent, because their
clocks are: any hold may turn out to be slow (`LetsGo`; the timer runs from one frame
boundary to the next), and the watchdog fires at any moment (`Notice`, `Recover`; its
clock runs from the heartbeat), so that either may report a hold the other does not.
The watchdog is a thread: `Notice` reads which frame is on the loop and `Stall` pushes
what was read, while requests go on in between, so that it may name the wrong one.
Abstracted: times and durations, labels, `pool_sample`, `blocking_call`; suspend and
resume stand for the batch that one await fires. On a worker only the outermost frame
is modelled; those it calls emit the same `call_enter` and `call_exit` with the worker's
task (`monitor.py:416`, `445`).

### Playback (`dashboard.js` 300-409)

`Arrive` is `bufferEvents()` for one event, whose time may be older than that of the
event before it by `MaxDelay`. `Frame` is an animation frame: `ClockAt` is where the
virtual clock goes, `DueIs` how many events it has reached, `Play` their ingestion.
`StepButton` and `SpaceKey` are `doStep()`; the key paints at once, the button
leaves it to the next frame. `ToggleStep`, `SetSpeed` and `Clear` are the other
controls. A tick has `Scale` fractions, so that `SPEED` is `speed / Scale`. Of what
ingestion does, only its effect on `loopHolder` matters to `doStep()`; an event is
one of three kinds for it. `Pass` stops at `MaxGap` ticks after a frame: that is a
tab that is painted, or one that was hidden for so long.

### Layout and View (`dashboard.js`, `viz/geometry.js`, `viz/primitives.js`, `viz/filter.js`)

`Layout` computes what `render()` computes: metrics of a tree (`Slots` places leaves
and centres parents), a row of either height, the rows of a zone, scrolling, the edges
with their arrow heads, the divider between the zones. Lengths are integers, tenths of
a pixel. In `View`, `Paint` is `render()`, and the gestures work on the `frame` painted
last, as the code's hit-tests do: `Click`, `Wheel`, `Grab`, `Move`, `Release`, `Cancel`,
`Unpin`, `Resize`, `ApplyFilter`, `ClearAll`. In between the server of `Dashboard` goes
on, one step at a time (`Feed`), and a row that goes takes its flag with it. The
inspector is repainted with a frame if its last repaint is 200 ms ago (`due`).

### BlockingCalls (`blockingcalls.py`)

`install()` and `uninstall()` are cut at their two critical sections and at the
steps of `_ensure_hook`. A thread in the hook is a stack of invocations, because
a report may make audited calls. A detector may also be garbage collected.

### Lifecycle (`app.py`, `identity.py`, `threadpool.py`)

`Start` is `on_startup()`, which has no await, with any of its fallible steps
failing. `on_shutdown()` is `BeginStop` up to its await and then one of `Stopped`,
`TimedOut` or `CutShort`, which leaves the monitor and the factory as they are.
`on_startup()` does not ask how the last shutdown ended, so `Start` follows either; after
one cut short `InstallMonitor` takes a second tool id and forgets the first. An
application has one lifespan at a time. The factory of the loop is the list of
factories that wrap each other; `saved` is the one attribute of the loop they all share.

## 3. The runs

| Run | Instance | Properties | What it shows |
|---|---|---|---|
| `collector` | 3 threads, 2 queues of 2, ring of 2, 4 events | RingIsNewest, StreamIsContiguous, ShedIsOldest | no order of the steps of `push()` breaks the ring or a stream |
| `stream` | 2 threads, 1 connection, queue of 1, 3 events, fair | DropsAreCounted, NothingVanishes, PromiseSpec, HandlerEnds, EventsArrive | the counter is exact, the stream implements `CountedStream`, handlers end, events arrive |
| `reconnect` | 2 connections, 2 events | ReconnectIsClean | nothing twice, no subscription left behind |
| `monitor` | 2 tasks, 1 worker, 3 frames, 2 deep, 2 ticks; or 1 task, 2 frames with generators, callbacks and cancellations | FramesAreThere, CallersAreNamed, ActiveIsTruth, SuspendsAnswered, FramesEnd, SpansAreHolds | what is recorded is what happens; even with oddities no frame or offload is lost or ended twice |
| `watchdog` | stall 5, interval 1, rounds of 1, 15 ticks, fair | HealthyIsSilent, SpansAlternate, ReportsFollow, StopEnds | silent while no round takes too long, one span per freeze, `stop()` ends |
| `dashboard` | 2 rows; 2 requests with 3 frames and 2 holds; with the watchdog, 3 requests with 2 frames or 2 with 2 holds; or 2 requests with any loss, "clear" and a lowered cap | RowsAreComplete, ViewIsTruth, SpansAreReconciled, LossIsContained, RowsComeAndGo | a complete stream gives a true view; losses leave nothing busy and no count wrong |
| `playback` | 2 requests, 3 events, 2 speeds, 2 ticks, lag and gap of 1, fair | PlayedInOrder, LeadBounded, NoDeadWaiting, StepHidesNothing, EventsAreShown | every event is shown once, in order, and at last |
| `view` | 9 sessions of up to 3 requests, 4 frames, 2 window sizes, 2 filters, a cap of 2 or 1, fair | CanvasIsOrderly, TreesAreDrawn, ClickHitsWhatIsSeen, InspectorCatchesUp | bands, rows and trees never overlap, a click hits what is seen, the inspector ends up true |
| `blocking` | 2 detectors, 2 threads, memory of 1, 3 calls | RegistryIsSound, ReportsAreOrderly, ReportedOnce | one hook, no recursion, every call once |
| `lifecycle` | 2 applications, 2 ids, 3 startups, fair | ToolsAreReturned, InheritsWhileUp, LeavesNoTrace, ShutdownEnds | overlap, failure and timeout leave nothing running; a cancellation leaves the monitor and the factory, and costs at most one tool id |
| `watchdog_dangling` | stall 2, interval 1, 2 frames, 6 ticks | StopClosesSpan (violated) | divergence 1 below |
| `playback_jump` | as `playback` | PlaysInSlowMotion (violated) | divergence 2 below |

The modules with a state of their own, `View` excepted, have a type invariant. The runs
do not list it, so that each property they list is about a hazard. The type invariants
of `Collector`, `EventStream`, `Lifecycle`, `Monitor` and `Dashboard` are theorems of
their own; those
of `Playback`, `Watchdog` and `BlockingCalls` are part of the invariants proved there.

**Why the bounds are enough.** Capacities are as small as makes them overflow: a
queue of one or two sheds on the second or third event, a ring of one or two
drops, three requests for two rows force an eviction and a refusal, a memory of
one call is dropped at the second. Two threads beside the loop's are what it takes
to race for the lock while the loop delivers; two connections let an old handler
overlap a new one; two tasks and one worker give every pair a context can form
(task and task, task and worker, worker reused by another task). A stack of two
has a caller and a callee, so a wrong pop, parent or interval shows. `Stall 5`
with `Interval 1` and `MaxRound 1` satisfies `Stall > Interval + 3 * MaxRound`, under
which `HealthyIsSilent` is claimed, by one tick (with `Stall 3` TLC finds three short
callbacks that are reported as a stall); the defaults (250 ms and 50 ms,
`watchdog.py:80`) allow rounds of up to 66 ms. Fifteen ticks fit a stall, a recovery and
a second stall; the shutdown begins by the tenth, so that it can end. That run has only
library code on the loop, because whom a stall names is not its question. Four events in
`collector` overflow a ring and queue of two twice.

Three events and two ticks in `playback` let an event be older than the one before
it, arrive while the clock is past it, at its time or behind it, and lie further
behind the newest than `MaxLag`. In `view` two rows fill a window of 300 pixels and
three overflow it; four frames of one request make a chain that is too deep for its row
and a tree with siblings; the three heights of the pointer are in the upper zone, near
the divider and in the lower zone; the divider is taken as far from its line as counts
(`Grabs`). One thing happens between two frames (`MaxBetween`),
so that every gesture meets a frame that is true or one that is one step behind; the
proofs of section 4 are for any number.

**Deadlock** is checked in `collector` and `playback`. The other instances may really
stop: programs end, connections are used up, applications shut down, a session of the
view has no gesture left.

**Symmetry** is used where the members of a set are only compared for equality and
the run checks no liveness: worker threads and queues, detectors and threads,
requests.

**Fairness**, only where liveness is checked:

* `stream`: a thread inside `push()` finishes it; the loop runs scheduled
  callbacks and ready tasks; an open socket carries its frames. asyncio runs its
  ready queue in FIFO order, so weak fairness is less than the code has. That a
  scheduled callback runs at all on a loop that sleeps is what `call_soon_threadsafe`
  (`collector.py:56`) promises, and is assumed here, not checked. Nothing
  makes the application emit, connect or disconnect.
* `watchdog`: the watch thread runs, `stop()` continues, time passes. The loop's own
  turn (`Loop`) is strongly fair: what a round runs is finite, so however often the
  loop calls into something else it gets to the timer, to the task and to the end of
  the round. Nothing makes a callback let go of the loop, so freezes that never end are
  among the behaviours.
* `playback`: animation frames go on. Nothing makes the user click or an event
  arrive, so `EventsAreShown` is about the virtual clock alone.
* `view`: frames go on and 200 ms pass. Nothing makes the server go on, so a
  request may change for ever, and then no repaint is the last. `PaintIsFair` is `WF_vars(Paint)` with
  its ENABLED written out, because TLC evaluates the whole rendering to decide ENABLED;
  a frame that would change nothing is no step.
* `lifecycle`: the poller wakes (it sleeps a bounded time) and `on_shutdown()`
  continues when its await is over. The timeout is not fair: it is never needed.

## 4. The proofs

Checked by TLAPS for every value of the constants that satisfies the modules'
named assumptions: any number of threads, queues, events, tasks, frames, requests,
applications, tool ids and startups, any capacity, threshold, interval, speed, lag and
frame rate. The assumptions say that model values differ from each other and that
numbers are natural, positive where the code needs them to be (`CollectorAssumption`,
`StreamAssumption`, `MonitorAssumption`, `WatchdogAssumption`,
`BlockingCallsAssumption`, `LifecycleAssumption`, `PlaybackAssumption`,
`DashboardAssumption`, `ViewAssumption`);
`MonitorAssumption` also that a program with oddities has no more frames than
another, `ViewAssumption` that sizes, heights and turns of the wheel are integers and
that the divider is taken at most 7 px off its line, and `LifecycleAssumption` that there
are finitely many tool ids.
Three theorems have a hypothesis of their own: `HealthyIsSilentAlways`, `LossContained`
and `TrueView`.

* **`EventStream_proofs`, the collector**: `TypeCorrect`, `RingCorrect`, `StreamCorrect`,
  `ShedCorrect`. `StreamIsContiguous` alone is not inductive: it talks about what
  a subscriber has, and a fan-out in progress has served some subscribers and not
  others. The invariant `IInv` adds that exactly the thread inside `push()` owns the
  lock (`LockInv`), that its copy of `_seq` is current (`SeqInv`), that a fan-out
  goes over live queues only (`TodoInv`), that an unregistered queue is empty
  (`FreshInv`) and that what overflows shed lies before what is still to come
  (`ShedInv`). Then each step is shown to keep it; the facts about
  runs of consecutive seqs (append, tail, suffix) are lemmas.
* **`EventStream_proofs`, the stream**. First the composition: `StreamImplementsCollector`, every
  step of the composed system is a step of the collector or leaves it alone, and so
  `StreamStaysContiguous` and `IInv` carry over. Then the line from a queue to the tab,
  for any number of connections that overlap: `StreamTypeCorrect`, `DropsCounted`
  (DropsAreCounted), `NothingLost` (NothingVanishes), `ReconnectClean`
  (ReconnectIsClean) and `StreamKeepsPromise`, the refinement of `CountedStream`.
  The invariant `SInv` adds to `IInv`:
  * where a handler is decides what it holds, whether it is subscribed, and how its
    connection may stand (`PhaseInv`), and the first frame of a connection is its
    backlog (`FirstInv`);
  * what is under way, in frames and in the handler's hands, follows what the tab has
    heard, in order (`Order`), and reaches without a hole up to what has left the queue
    (`Frontier`), except for what overflows shed (`Line`);
  * what is buffered for playback is older than all of that, whichever connection it
    came from (`Pend`, `PendInv`): the backlog of a new connection is skipped because
    nothing in it is newer than the live edge;
  * `lastSeq` is the newest number heard, and the counter the number of gaps below it
    (`CountInv`, with `Gaps`).

  `DropsAreCounted` follows because the gaps below the newest number are what
  was shed (`GapsAreShed`). For the refinement, a `Stamp` of the collector is an `Emit`
  of `CountedStream`, a frame that arrives after the backlog is a `Hear`, `Connect` a
  `Connect`, and every other step stutters.
* **`LeftFold`**: `FoldHasTrail`. What a frame does to the tab is a fold over its
  events, and what a fold computes needs an induction. The library's induction
  theorems are out of the provers' reach (they take an operator as a parameter); that
  the natural numbers are well-founded is not, and a minimal counterexample gives the
  same (`LeastOf`, `Induction`). The folding operator is a constant of the module;
  `EventStream_proofs` has an instance per loop of the tab, `Playback_proofs` one and
  `Dashboard_proofs` two. So a fold has a trail of
  values from its base to its result, each made of the one before, and a statement
  about the counters is carried along it.
* **`Monitor_proofs`**. Of every program, oddities included: `Typed`,
  `FramesEndAlways`. Of plain programs: `FramesAreThereAlways`, `CallersAreNamedAlways`,
  `ActiveIsTruthAlways`, `SpansAreHoldsAlways` (an action property) and
  `SuspendsAnsweredAlways`. The invariants build on each other:
  * `FramesInv`: a recorded frame is on one stack, at one place, until it exits
    (`HeldInv`); what is remembered as offloaded is the bottom of the stacks that are
    no task's (`BracketInv`);
  * `StacksInv`: in a plain program nothing is left where nothing runs (`QuietInv`), so
    a worker that is used again starts clean, and each stack of the monitor is the
    program's, place by place (`MirrorInv`);
  * `ActiveInv`: each step either leaves the frame that holds the loop alone, and the
    interval with it, or replaces both (`LoopFollows`); the spans are the differences;
  * `CallersInv`: the tokens on a stack lead from each frame to the one below and from
    the outermost one to the frame the context was copied from (`LinksInv`);
  * `AnsweredInv`: a frame has as many open suspends as the chain of the one task
    parked in it has frames, and none if there is no such task.
* **`Watchdog_proofs`**: `SpansAlternateAlways`, `HealthyIsSilentAlways`. The thread
  turns `_stalled` some steps before it pushes the event, so the first needs what each
  place of the thread means for the number of events pushed so far (`SpanInv`), and
  that nothing read from the clock is ahead of it (`ClockInv`). The second has the
  hypothesis `Stall > Interval + 3 * MaxRound`: `MaxRound` is the model's word for how
  long a round of the loop, with all the callbacks in it, may take and still count as
  healthy. Its invariant (`LatenessInv`) bounds how late the heartbeat is at each of its
  stages: the timer by the round it fell due in, the task by the round of the timer
  as well, the beat by its own round too. So no gap the thread measures exceeds
  `Interval + 3 * MaxRound`. The comment at `watchdog.py:81-84` names only the interval.
* **`BlockingCalls_proofs`**: `RegistryIsSoundAlways`, `ReportsAreOrderlyAlways`,
  `ReportedOnceAlways`. The registry rests on the lock: the holder, and nobody
  else, is in a critical section (`LockInv`), the flag follows the hook (`HookInv`), and
  the snapshot differs from the registry only under the lock, or by a detector that was
  collected (`MemberInv`). The reports rest on the detector's thread, which is not in
  the hook while it installs or uninstalls (`ThreadInv`): a call that is owed a report
  has one, is being reported, or is still ahead of its detector on a stack on which the
  detector is not busy before it (`OwedInv`); and what was reported, plus what is being
  reported, is no more than the memory was dropped, plus one (`CountInv`, `MemoryInv`).
* **`Lifecycle_proofs`**: `LifecycleTypeCorrect`, `ToolsCorrect`, `FactoryCorrect`,
  `LeavesNoTraceAlways`.
  That a child task inherits its trace while any application is up
  (`InheritsWhileUp`) needs to know what the loop has *saved*: as soon as two
  applications are up, what was saved last wraps somebody (`SavedInv`), so whoever
  stops first restores a factory that still traces; and that every chain starts
  at the host's own factory (`HostInv`). `ToolsAreReturned` bounds the tool ids an
  application has lost by its shutdowns that were cut short; the id it still has after
  one of those is as good as lost, which the invariant has to count beforehand
  (`LostInv`). `LeavesNoTrace` needs that the application
  that is up alone has what it found to restore (`AloneInv`), and that where a
  shutdown has come to nothing runs of what it has stopped (`QuietInv`). What an
  application whose shutdown was cut short keeps is said in section 5.
* **`Playback_proofs`**: `OrderCorrect`, `LeadCorrect`, `FramesPlay`,
  `StepsHideNothing`. That the clock is
  not ahead of the server needs the age of the last frame and the range of the speed
  (`Clocks`), and that what is buffered has happened (`Past`): the clock jumps to it.
  Products of two variables are beyond linear arithmetic, so the two facts about them
  are lemmas (`ScaleMonotone`, `AdvanceBounded`) and the products are hidden after that.
  That a step keeps `played \o pending` is one lemma for frames and single steps
  (`PlayKeepsOrder`). The holder is defined by recursion over the buffer; an instance of
  `LeftFold` says what the recursion computes (`HoldersTrail`), and so that what a step
  shows does not depend on what follows it (`HoldersOfFront`).
* **`Dashboard_proofs`**: `DashboardTypeCorrect`, `RowsInOrder` (RowsComeAndGo) and
  `LossContained` (LossIsContained), whatever is shed, for any number of requests,
  frames and rows. A step emits one or two events, any of which may be shed; an
  instance of `LeftFold` with `Ingest` takes them apart, and each kind of event is one
  lemma about one row (`Shifted`): it keeps the types, lets no row come or go, and makes
  no row busier than it may be. The invariant `IInv` adds to the types
  * `Ages`: every row is younger than the rows that came before it, and the next one
    will be; without it the row that goes is not the oldest;
  * `HiddenInv`: what is counted as withheld is the number of requests refused, which
    have all started, so that none is refused twice;
  * `CalmInv`: the frames a row has seen start on a worker, and not end, are no more than
    those it remembers, and those are frames that were entered; so a frame that starts
    on a worker is a new one, and one that is counted is counted once. A finished row
    is the row of a request that is over.

  `LossContained` has the hypothesis `~ Orphans`: no task outlives its request. Without
  it the property is false, which `MCDashboardOrphan.cfg` shows.
* **`Dashboard_proofs`, a complete stream**: `CompleteRows` (RowsAreComplete),
  `ReconciledSpans` (SpansAreReconciled) and `TrueView` (ViewIsTruth). The three
  properties relate each row to the program that ran, so their invariant `Truth` is
  about both. Of the server (`ServerTruth`), whatever arrives:
  * a frame on the loop returns to a caller of its own request that still runs, which
    calls nothing else (`CallsOK`); what is drawn as the holder is then right after a
    return too;
  * a frame has a request that has started, and while it is there the request is not
    over (`StartedOK`), so no event comes before the row or after it was finished;
  * the watchdog names only frames that were entered (`WatchOK`, of the type invariant).

  Of the client (`FaithInv`), while every event arrives (`Intact`): the tree and the
  stack of a row are the frames of its request (`Pictured`); its spans are, frame by
  frame, one that ended for each hold reported of it, and an open one exactly if the
  watchdog named it and no hold of it was reported (`Timed`): a hold closes the open
  span of its frame or is one more, and a stall opens one only for a frame without any.
  The row of the frame that executes is the holder's (`HolderOK`), and a row counts
  its frames on workers (`WorkOK`). A request that is new has no span kept for it, and
  a frame that was not entered no hold (`NewInv`). Nothing is assumed of when the
  watchdog fires or whom it names.

  There is one lemma for each kind of event (`EnterTaken` to `RequestStartTaken`), about
  one row, and one for each action (`TruthEnterLoop` to `TruthUser`). The monitor
  reports a slow hold before the event of the frame that ends it, so such a step is
  two events, and between them the span is closed and the frame still drawn as running
  (`SlowTaken`). `WorkOK`, and with it `TrueView`, needs `~ Orphans`: the end
  of a request takes its row off every worker (`dashboard.js:592-599`), and a task that
  outlives it is still on one. The other two need it not. That every event arrives is a
  premise of the properties; what becomes of a stream that loses some is said
  by `DropsCounted`, `NothingLost` and `LossContained`.
* **`Dashboard_proofs`, the view**: `ViewWatches`, `OrderlyCanvas` (CanvasIsOrderly) and
  `ClicksHit` (ClickHitsWhatIsSeen), for any sizes, filters, heights and turns of the
  wheel, and any number of steps between two frames. They are in this module because
  they build on its invariant. `ViewWatches` is the composition: every step of the view is a step of
  `Dashboard` or leaves its variables alone, so types and `Ages` carry over. From these
  the rows of a zone are finitely many, since they are numbered (`RowsFinite`), and can
  be sorted by age, so that the CHOOSE of `InOrder` has what it describes
  (`CanBeSorted`, `OrderIs`). An instance of `LeftFold` with `Place` carries what a stack
  of rows is from row to row (`Stacked`), and `Scrolled` and `ClampDividerY` stay in their ranges
  (`DividerClamped`). The invariant `ViewInv` says two things of the frame painted last:
  * always, however much has happened since, it is well-formed (`Sound`): in each zone
    every row starts below the end of the one before, what is in sight is drawn, and the
    loop's zone ends above the pool's. That is all a click needs: at most one row is
    seen at a height, and the first row that the hit-test finds is that one
    (`HitIsSeen`);
  * as long as nothing has happened since, it is true of the rows there are (`Faithful`):
    they are those that pass the filter, in the order they came, and its bands are those
    of a clamped divider in a window of this size.

Model-checked only:

* liveness (`HandlerEnds`, `EventsArrive`, `ReportsFollow`, `StopEnds`, `ShutdownEnds`,
  `EventsAreShown`, `InspectorCatchesUp`) needs ENABLED, which the prover cannot reason
  about; fairness is TLC's part;
* `TreesAreDrawn` of `View`: depths, widths and slots of a tree are recursive functions
  over its nodes, and that two boxes are apart needs an induction over the tree for each
  of them.

## 5. Where code and documents disagree

Two are checked as violation runs and listed under `findings`:

1. `watchdog_dangling`: `docs/architecture.md:125-126` says `stop()` closes a span
   still open. `stop()` looks at `_stalled` before it sets `_stop`; the thread may
   declare a stall in between, and `_stalled = False` then discards it.
2. `playback_jump`: `dashboard.js:360-361` says that under continuous load the jump to
   the oldest event is a no-op. A frame that leaves events buffered leaves the clock
   behind the oldest of them, so the next frame always jumps: every frame plays at
   least one event, and the speed hardly matters.

The other configurations reproduce more. They are not part of the runs
above; `tlc -config <cfg>` shows the counterexample. Two of them name two properties: TLC
stops at the first it finds violated, and finds the other once that line is taken out.

| Configuration | Property | What happens |
|---|---|---|
| `MCSilentDrop.cfg` | NoSilentDrop | events shed before the first live one was heard are not counted, because `lastSeq` starts at the first live event, not at the backlog's end |
| `MCPendingOrder.cfg` | PendingAscending | `t` is stamped before the lock, so `pending` is not always ascending in `t` (`dashboard.js:311`) |
| `MCMonitorCallback.cfg` | OffLoopIsWorker | a `call_soon` callback has no current task and is labelled as offloaded |
| `MCMonitorGenerator.cfg` | WorkerStartsClean | a generator left suspended by a job stays on the worker's thread-local stack |
| `MCMonitorYield.cfg` | SuspendedIsParked | a generator's PY_YIELD is reported as a suspend |
| `MCMonitorCancel.cfg` | CancelledHoldsAreSpans | a cancelled task runs its `finally` blocks without PY_RESUME, so that hold is not timed |
| `MCWatchdogLooks.cfg` | DatedByLastBeat | the beat is read a second time to date the stall, and may have advanced |
| the same | BlameIsHolder | the frame blamed is looked up after the gap was measured |
| `MCDashboardZone.cfg` | ZoneIsFixed | `dashboard.js:453-454` says a row's zone never changes; a request whose first frame is a sync dependency moves from pool to loop when its async handler starts |
| `MCDashboardCap.cfg` | CapKept | lowering "max req" keeps the rows above it |
| `MCDashboardOpen.cfg` | OpenIsRunning | a frame the watchdog names and the timer never reports (each of its holds is shorter than `slow_ms`, or another frame froze) keeps a span that says "still running" after it has returned (`dashboard.js:757-764`) |
| `MCDashboardLift.cfg` | StallIsLifted | a `loop_unstalled` without a trace is skipped before its kind is looked at |
| `MCDashboardOrphan.cfg` | FinishedOnNoWorker | a task that outlives its request puts the finished row on a worker again |
| `MCLifecycleCut.cfg` | CutRunsNothing | a shutdown cancelled at its await never reaches `monitor.uninstall()` (`app.py:371`): tool id, callbacks and factory stay in place and go on tracing, although `docs/architecture.md:521-523` promises that uninstalling leaves no callbacks |
| the same | NoLeakedCallbacks | a restart after that takes a second tool id and forgets the first (`monitor.py:168-169`): the next shutdown, although it runs to its end, cannot free it |
| `MCViewDrag.cfg` | DragIsNoClick | a drag released away from the line drawn last (its range is clamped, or no frame came in between) selects and toggles the row there |
| `MCViewClick.cfg` | EveryClickHitsWhatIsSeen | rows of the loop zone that are scrolled below the divider still take the clicks there |
| `MCViewGlow.cfg` | GlowsForRunning | the glow stays beside the last holder's row when it has left its frame and no longer runs, until another takes the loop |
| `MCViewArrows.cfg` | AllArrowsPointRight | an arrow head keeps its size while the tree shrinks and may end up left of its tail |

Not written down anywhere, so no divergence, but worth knowing: when two
applications overlap on a loop, the factory of the one that stopped may stay in
the chain for good. `AloneRestores` therefore speaks of a startup and shutdown
that no other overlaps and that is not cut short. A thread and a `stop()` that both see
`_stalled` push `loop_unstalled` twice; the second does nothing on the client. "clear"
leaves `activeOffloads` alone, so that a worker whose row is gone stays in it until its
`offload_end`, or for good if that is shed; it is not drawn, because only workers whose
request has a row are (`dashboard.js:2371-2374`), and `LossIsContained` is about rows.
The Space key calls `render()`, which schedules the next frame itself
(`dashboard.js:2777`, `2413`): each press adds a chain of animation frames
for good, harmless for play because they share `lastFrameMs`. The boxes of a
shrunk tree are kept in the window by their centres, so the last column may
stick out by half a box. A zone header shows the larger of what it counts and
the newest sample of the pool, which may be stale (`dashboard.js:1310-1314`).

## 6. What is not modelled

* The enable gate, mount path and routes: decided once, by cases, before anything
  runs; unit tests enumerate them.
* Header parsing, correlation and the wrapped `send()` of the middleware, the
  contents of labels, log lines and request metadata: functions of one message.
* In the connection, that "clear" sets `droppedCount` to zero (`dashboard.js:2520`): the
  count of a connection starts at the last press.
* On a worker, frames called by the outermost one (`Dashboard`; `Monitor` has them).
* In ingestion the cap of 32 on the spans kept for a request that has no row yet
  (`dashboard.js:849-856`; its count has none).
* That an event taken for backlog is never shown (`dashboard.js:329`): `EventStream` has
  the filter, `Playback` starts behind it.
* In ingestion `pool_sample` and `blocking_call`: each overwrites or appends one record
  that only the header and the inspector show. Times and durations.
* Of the view: colours, chips, labels, tooltips, scrollbars, the pool grid and the
  numbers in the headers, the wording of the inspector, its collapse, keyboard focus:
  each is drawn from one row, node or sample. Font metrics are the browser's.
* `examples/`: a demo application and its load driver.

## 7. The plan

Done, with proofs: collector and stream, monitor, watchdog, blocking-call listener,
lifecycle, playback, ingestion, and of the view its canvas and clicks; every invariant
and action property of the runs is a theorem, `TreesAreDrawn` excepted. Done, checked by
TLC: that property, and what must happen at last. The order
was that of the data: what every event passes through first, what creates the events
next, what reads them last.

Left, in this order:

1. `TreesAreDrawn` as a theorem: first that a tree's parents are older than their
   children, which makes `Depths` and `Slots` well-founded, then that the slots of two
   subtrees are disjoint.
2. A composition of `Lifecycle` with the watchdog's `stop()`, and an abstract
   specification of the monitor (a call tree that grows as the program calls),
   which `Monitor` implements.
3. Mount path normalisation and the enable gate as operators against a reference
   definition.
