----------------------------- MODULE EventStream -----------------------------
(***************************************************************************)
(* The live stream from the collector to a dashboard tab: the WebSocket    *)
(* handler of app.py, one per connection, and the tab's socket handling    *)
(* in dashboard.js.                                                        *)
(*                                                                         *)
(* The handler is a coroutine on the application's loop.  It is cut at its *)
(* awaits; what it does between two awaits is one step, except that worker *)
(* threads can push between subscribe() and snapshot(), which is why these *)
(* are two steps (`slice` keeps the loop for the handler meanwhile).  The  *)
(* `getter` and `reader` tasks it races are processes of their own.        *)
(*                                                                         *)
(* One tab connects, and reconnects on a fresh connection after the old    *)
(* one closed; the old handler may still be running then.                  *)
(***************************************************************************)
EXTENDS Collector, SequencesExt

CONSTANTS NoQueue  \* no connection

ASSUME StreamAssumption == NoQueue \notin Queues

VARIABLES
  conn,      \* each connection: "new", "open", "closed"
  hpc,       \* where its handler is
  reader,    \* wait_disconnect() has returned
  getter,    \* the task around queue.get(): "none", "waiting", "done"
  batch,     \* the events the handler has in hand
  wire,      \* frames sent and not yet received
  slice,     \* the handler that is between subscribe() and snapshot()
  tab,       \* the connection the tab is on
  view,      \* the tab's counters for that connection
  pending,   \* the tab's playback buffer
  heard      \* history: the seqs noted on this connection

hvars == <<conn, hpc, reader, getter, batch, wire, slice>>
tvars == <<tab, view, pending, heard>>
vars  == <<cvars, hvars, tvars>>

\* sawFirstFrame, connectBaselineT (none before the first event), lastSeq (0
\* for null) and droppedCount.  The rest is history: the count when this
\* connection opened and the newest seq of its backlog.
Fresh(dropped) ==
  [saw |-> FALSE, baseline |-> -Backdate - 1, last |-> 0, dropped |-> dropped,
   droppedBefore |-> dropped, edge |-> 0]

SInit ==
  /\ Init
  /\ conn = [q \in Queues |-> "new"]
  /\ hpc = [q \in Queues |-> "none"]
  /\ reader = [q \in Queues |-> FALSE]
  /\ getter = [q \in Queues |-> "none"]
  /\ batch = [q \in Queues |-> <<>>]
  /\ wire = [q \in Queues |-> <<>>]
  /\ slice = NoQueue
  /\ tab = NoQueue
  /\ view = Fresh(0)
  /\ pending = <<>>
  /\ heard = {}

\* The loop can run another callback or coroutine.
LoopFree == OnLoop /\ slice = NoQueue

-----------------------------------------------------------------------------
(* ws_endpoint *)

At(q, from, to) == hpc[q] = from /\ hpc' = [hpc EXCEPT ![q] = to]

\* accept(), then subscribe() and the reader task.
Open(q) ==
  /\ LoopFree
  /\ At(q, "accept", "subscribed")
  /\ Subscribe(q)
  /\ slice' = q
  /\ UNCHANGED <<conn, reader, getter, batch, wire, tvars>>

\* accept() raises: the client has gone, and nothing was subscribed yet.
AcceptFails(q) ==
  /\ LoopFree
  /\ conn[q] = "closed"
  /\ At(q, "accept", "gone")
  /\ UNCHANGED <<cvars, conn, reader, getter, batch, wire, slice, tvars>>

\* backlog = collector.snapshot(), up to the await of send_json.
Snapshot(q) ==
  /\ slice = q
  /\ At(q, "subscribed", "backlog")
  /\ batch' = [batch EXCEPT ![q] = buffer]
  /\ slice' = NoQueue
  /\ UNCHANGED <<cvars, conn, reader, getter, wire, tvars>>

\* `await send_json(...)`: the frame goes out, or is lost on a connection that
\* has closed meanwhile.  The handler then sleeps, or after the backlog enters
\* its loop.
SendTo(q, from, to) ==
  /\ LoopFree
  /\ At(q, from, to)
  /\ wire' = IF conn[q] = "open" THEN [wire EXCEPT ![q] = Append(@, batch[q])] ELSE wire
  /\ batch' = [batch EXCEPT ![q] = <<>>]
  /\ UNCHANGED <<cvars, conn, reader, getter, slice, tvars>>

Send(q) == SendTo(q, "backlog", "loop") \/ SendTo(q, "send", "sleep")

\* send_json raises on a closed connection: `except`, then `finally`.
SendFails(q) ==
  /\ LoopFree
  /\ conn[q] = "closed"
  /\ At(q, "backlog", "final") \/ At(q, "send", "final")
  /\ batch' = [batch EXCEPT ![q] = <<>>]
  /\ UNCHANGED <<cvars, conn, reader, getter, wire, slice, tvars>>

\* `while not reader.done()`: start a getter and wait for the first of the two.
Wait(q) ==
  /\ LoopFree
  /\ ~ reader[q]
  /\ At(q, "loop", "wait")
  /\ getter' = [getter EXCEPT ![q] = "waiting"]
  /\ UNCHANGED <<cvars, conn, reader, batch, wire, slice, tvars>>

LoopEnds(q) ==
  /\ LoopFree
  /\ reader[q]
  /\ At(q, "loop", "final")
  /\ UNCHANGED <<cvars, conn, reader, getter, batch, wire, slice, tvars>>

\* The getter task: queue.get() returns the oldest event.
Get(q) ==
  /\ slice = NoQueue
  /\ getter[q] = "waiting"
  /\ queue[q] # <<>>
  /\ Take(q, 1)
  /\ batch' = [batch EXCEPT ![q] = <<Head(queue[q])>>]
  /\ getter' = [getter EXCEPT ![q] = "done"]
  /\ UNCHANGED <<conn, hpc, reader, wire, slice, tvars>>

\* The reader task: receive() returns websocket.disconnect, or raises.
SeeDisconnect(q) ==
  /\ LoopFree
  /\ hpc[q] \notin {"none", "accept", "final", "gone"}
  /\ conn[q] = "closed"
  /\ ~ reader[q]
  /\ reader' = [reader EXCEPT ![q] = TRUE]
  /\ UNCHANGED <<cvars, conn, hpc, getter, batch, wire, slice, tvars>>

\* Mutant: what get_nowait() returns is not added to the batch.
Drain_FirstOnly(q) ==
  /\ slice = NoQueue
  /\ getter[q] = "done"
  /\ At(q, "wait", "send")
  /\ IF queue[q] = <<>> THEN UNCHANGED cvars ELSE Take(q, Len(queue[q]))
  /\ getter' = [getter EXCEPT ![q] = "none"]
  /\ UNCHANGED <<conn, reader, batch, wire, slice, tvars>>

\* asyncio.wait returned with the getter done: drain what else is queued.
Drain(q) ==
  /\ slice = NoQueue
  /\ getter[q] = "done"
  /\ At(q, "wait", "send")
  /\ IF queue[q] = <<>> THEN UNCHANGED cvars ELSE Take(q, Len(queue[q]))
  /\ batch' = [batch EXCEPT ![q] = @ \o queue[q]]
  /\ getter' = [getter EXCEPT ![q] = "none"]
  /\ UNCHANGED <<conn, reader, wire, slice, tvars>>

\* Mutant: the handler awaits queue.get() alone and never sees the reader.
Leave_NoRace(q) ==
  /\ FALSE
  /\ UNCHANGED vars

\* asyncio.wait returned for the reader only: cancel the getter and leave.
Leave(q) ==
  /\ LoopFree
  /\ reader[q]
  /\ getter[q] = "waiting"
  /\ At(q, "wait", "final")
  /\ getter' = [getter EXCEPT ![q] = "none"]
  /\ UNCHANGED <<cvars, conn, reader, batch, wire, slice, tvars>>

\* asyncio.sleep(0.033) ends.
Wake(q) ==
  /\ LoopFree
  /\ At(q, "sleep", "loop")
  /\ UNCHANGED <<cvars, conn, reader, getter, batch, wire, slice, tvars>>

\* `finally`: reader.cancel(), unsubscribe().
Finish(q) ==
  /\ slice = NoQueue
  /\ At(q, "final", "gone")
  /\ Unsubscribe(q)
  /\ UNCHANGED <<conn, reader, getter, batch, wire, slice, tvars>>

-----------------------------------------------------------------------------
(* The tab *)

\* Mutant: onopen does not re-arm the skipping of the backlog.
Connect_NoRearm(q) ==
  /\ tab = NoQueue
  /\ conn[q] = "new"
  /\ conn' = [conn EXCEPT ![q] = "open"]
  /\ hpc' = [hpc EXCEPT ![q] = "accept"]
  /\ tab' = q
  /\ view' = [Fresh(view.dropped) EXCEPT !.saw = view.saw]
  /\ heard' = {}
  /\ UNCHANGED <<cvars, reader, getter, batch, wire, slice, pending>>

\* connect() and onopen: the counters of the connection start afresh.
Connect(q) ==
  /\ tab = NoQueue
  /\ conn[q] = "new"
  /\ conn' = [conn EXCEPT ![q] = "open"]
  /\ hpc' = [hpc EXCEPT ![q] = "accept"]
  /\ tab' = q
  /\ view' = Fresh(view.dropped)
  /\ heard' = {}
  /\ UNCHANGED <<cvars, reader, getter, batch, wire, slice, pending>>

\* The connection ends, from either side; onclose, and a reconnect later.
Disconnect(q) ==
  /\ tab = q
  /\ conn' = [conn EXCEPT ![q] = "closed"]
  /\ wire' = [wire EXCEPT ![q] = <<>>]
  /\ tab' = NoQueue
  /\ UNCHANGED <<cvars, hpc, reader, getter, batch, slice, view, pending, heard>>

Latest(t, e) == IF e.t > t THEN e.t ELSE t

\* Mutant: a jump from 3 to 5 counts two.
NoteSeq_OffByOne(v, e) ==
  [v EXCEPT
    !.dropped = IF v.last # 0 /\ e.seq > v.last + 1 THEN @ + e.seq - v.last ELSE @,
    !.last = IF v.last = 0 \/ e.seq > v.last THEN e.seq ELSE v.last]

\* Mutant: the first live event is compared with "null".
NoteSeq_NullIsZero(v, e) ==
  [v EXCEPT
    !.dropped = IF e.seq > v.last + 1 THEN @ + e.seq - v.last - 1 ELSE @,
    !.last = IF e.seq > v.last THEN e.seq ELSE v.last]

\* noteSeq: a jump of more than one counts the seqs it skipped.
NoteSeq(v, e) ==
  [v EXCEPT
    !.dropped = IF v.last # 0 /\ e.seq > v.last + 1 THEN @ + e.seq - v.last - 1 ELSE @,
    !.last = IF v.last = 0 \/ e.seq > v.last THEN e.seq ELSE v.last]

\* onmessage: the first frame is the backlog, which only sets the live edge.
FirstFrame(q) ==
  LET frame == Head(wire[q])
  IN /\ view' = [view EXCEPT !.saw = TRUE, !.baseline = FoldLeft(Latest, @, frame),
                               !.edge = IF frame = <<>> THEN 0 ELSE Last(frame).seq]
     /\ UNCHANGED <<pending, heard>>

\* bufferEvents, for one event: what is not newer than the live edge is skipped.
Buffered(s, e) == IF e.t > view.baseline THEN Append(s, e) ELSE s

\* A later frame: note every seq, then buffer.
NextFrame(q) ==
  LET frame == Head(wire[q])
  IN /\ view' = FoldLeft(NoteSeq, view, frame)
     /\ heard' = heard \cup {e.seq : e \in ToSet(frame)}
     /\ pending' = FoldLeft(Buffered, pending, frame)

Receive(q) ==
  /\ tab = q
  /\ wire[q] # <<>>
  /\ wire' = [wire EXCEPT ![q] = Tail(@)]
  /\ IF view.saw THEN NextFrame(q) ELSE FirstFrame(q)
  /\ UNCHANGED <<cvars, conn, hpc, reader, getter, batch, slice, tab>>

-----------------------------------------------------------------------------

\* A worker pushes whenever it likes, the loop only between coroutines.
Emit(th) ==
  /\ th = Loop => slice = NoQueue
  /\ Push(th)
  /\ UNCHANGED <<hvars, tvars>>

RunDeliver(q) ==
  /\ slice = NoQueue
  /\ Deliver(q)
  /\ UNCHANGED <<hvars, tvars>>

Handler(q) ==
  \/ Open(q)
  \/ AcceptFails(q)
  \/ Snapshot(q)
  \/ Send(q)
  \/ SendFails(q)
  \/ Wait(q)
  \/ LoopEnds(q)
  \/ Drain(q)
  \/ Leave(q)
  \/ Wake(q)
  \/ Finish(q)

SNext ==
  \/ \E th \in Threads : Emit(th)
  \/ \E q \in Queues :
       \/ RunDeliver(q)
       \/ Handler(q)
       \/ Get(q)
       \/ SeeDisconnect(q)
       \/ Connect(q)
       \/ Disconnect(q)
       \/ Receive(q)

SSpec == SInit /\ [][SNext]_vars

\* Threads in push() finish it, the loop runs its ready callbacks and tasks,
\* and an open socket carries its frames.  The application need not emit, and
\* nobody need connect or disconnect.
Fairness ==
  /\ \A th \in Threads : WF_vars(Emit(th) /\ pc[th] # "idle")
  /\ \A q \in Queues :
       /\ WF_vars(RunDeliver(q))
       /\ WF_vars(Handler(q))
       /\ WF_vars(Get(q))
       /\ WF_vars(SeeDisconnect(q))
       /\ WF_vars(Receive(q))

FairSpec == SSpec /\ Fairness

-----------------------------------------------------------------------------
(* Properties *)

StreamTypeOK ==
  /\ TypeOK
  /\ conn \in [Queues -> {"new", "open", "closed"}]
  /\ hpc \in [Queues -> {"none", "accept", "subscribed", "backlog", "loop", "wait",
                         "send", "sleep", "final", "gone"}]
  /\ reader \in [Queues -> BOOLEAN]
  /\ getter \in [Queues -> {"none", "waiting", "done"}]
  /\ batch \in [Queues -> Seq(Event)]
  /\ wire \in [Queues -> Seq(Seq(Event))]
  /\ slice \in Queues \cup {NoQueue}
  /\ tab \in Queues \cup {NoQueue}
  /\ view \in [saw : BOOLEAN, baseline : Int, last : Nat, dropped : Nat, droppedBefore : Nat,
              edge : Nat]
  /\ pending \in Seq(Event)
  /\ heard \subseteq Nat

\* The seqs of the current connection that its queue shed after the tab heard
\* its first live event and before it heard its latest one.
Missed == {s \in shed[tab] : s < view.last /\ \E h \in heard : h < s}

\* The banner tells the truth: what a connection has added to droppedCount is
\* the number of events the server really shed between the first and the
\* latest event the tab heard, never more (a reordering or a duplicated seq
\* would fake a gap) and never fewer (collector.py:44-49, dashboard.js:160-169).
DropsAreCounted ==
  tab # NoQueue => view.dropped - view.droppedBefore = Cardinality(Missed)

\* Between the first and the latest event heard, every seq was heard or shed:
\* nothing disappears between the queue, the getter task, the batch and the
\* socket (app.py:171-188).
NothingVanishes ==
  tab # NoQueue /\ heard # {} =>
    \A s \in 1 .. view.last :
      (\E h \in heard : h < s) => s \in heard \cup shed[tab]

\* An event is buffered for playback at most once and in the order of
\* emission, over reconnects too, although the backlog of a connection overlaps
\* both the previous connection's events and its own queue
\* (dashboard.js:318-333, 2442-2463).
NoReplay ==
  \A i, j \in 1 .. Len(pending) : i < j => pending[i].seq < pending[j].seq

\* A handler never keeps a subscription, and the queue and deliveries it costs,
\* once it is over (app.py:193-195).
NoDeadSubscriber == \A q \in Queues : hpc[q] \in {"none", "accept", "gone"} => sub[q] # "live"

\* A reconnect costs nothing and repeats nothing (app.py:165-195,
\* dashboard.js:2434-2463).
ReconnectIsClean == NoReplay /\ NoDeadSubscriber

\* The handler of a connection that has closed ends and unsubscribes, on an
\* idle application too, where no event would ever wake it: this is what the
\* reader task is for (app.py:139-146, 171-180).
HandlerEnds ==
  \A q \in Queues : conn[q] = "closed" ~> hpc[q] = "gone" /\ sub[q] # "live"

\* An event handed to the loop for a connected tab is heard by it, or is older
\* than one it has heard, unless the connection closes (collector.py:20-27,
\* 56-71, app.py:171-188).
EventsArrive ==
  \A q \in Queues : \A n \in 1 .. MaxEvents :
    (tab = q /\ sub[q] = "live" /\ \E i \in 1 .. Len(ready[q]) : ready[q][i].seq = n)
      ~> (tab # q \/ view.last >= n)

\* README.md:293-294: "dropping isn't silent (a `seq` gap raises a banner)": an
\* event newer than the backlog that the tab's queue shed, and that the tab is
\* past, has been counted.
NoSilentDrop ==
  tab # NoQueue /\ (\E s \in shed[tab] : view.edge < s /\ s < view.last)
    => view.dropped > view.droppedBefore

\* dashboard.js:311: the buffered events are in ascending t.
PendingAscending ==
  \A i, j \in 1 .. Len(pending) : i < j => pending[i].t <= pending[j].t

-----------------------------------------------------------------------------
(* What the stream promises its tab, without threads, queues and sockets. *)
Promise == INSTANCE CountedStream WITH
  emitted <- seq, connected <- (tab # NoQueue), heard <- heard,
  lost <- view.dropped

PromiseSpec == Promise!Spec

=============================================================================
