------------------------------- MODULE Ingest -------------------------------
(***************************************************************************)
(* The client's state and ingest(), its reaction to one event              *)
(* (dashboard.js): rows with call trees, the loop holder, the busy         *)
(* workers, the frozen loop, the spans of held time.                       *)
(*                                                                         *)
(* Times, durations and labels are left out; suspend and resume stand for  *)
(* the whole batch of them that one await fires.                           *)
(***************************************************************************)
EXTENDS Integers, Sequences, FiniteSets, SequencesExt

CONSTANT None

EmptyRow(seq) ==
  [seq |-> seq, done |-> FALSE, sawLoop |-> FALSE, sawPool |-> FALSE, stack |-> <<>>,
   nodes |-> <<>>, live |-> 0, started |-> {}, blockCount |-> 0, spans |-> <<>>,
   stalled |-> FALSE]

EmptyDash(cap) ==
  [rows |-> <<>>, nextSeq |-> 0, holder |-> None, stalled |-> None, workers |-> {},
   hidden |-> 0, before |-> <<>>, cap |-> cap]

Has(d, r) == r \in DOMAIN d.rows
With(f, x, y) == [z \in DOMAIN f \cup {x} |-> IF z = x THEN y ELSE f[z]]
Without(f, x) == [z \in DOMAIN f \ {x} |-> f[z]]
WithRow(d, r, row) == [d EXCEPT !.rows = With(@, r, row)]

\* The tree only sees state, place and parent of a node.
SetState(row, n, state) ==
  IF n \in DOMAIN row.nodes THEN [row EXCEPT !.nodes[n].state = state] ELSE row

\* updateZone
Zone(row) == IF ~ row.sawLoop /\ row.sawPool THEN "pool" ELSE "loop"

\* Mutant: the newest finished row goes first.
Evictable_Newest(d) ==
  {r \in DOMAIN d.rows : d.rows[r].done
     /\ \A q \in DOMAIN d.rows : d.rows[q].done => d.rows[q].seq <= d.rows[r].seq}

\* The oldest finished row.
Evictable(d) ==
  {r \in DOMAIN d.rows : d.rows[r].done
     /\ \A q \in DOMAIN d.rows : d.rows[q].done => d.rows[r].seq <= d.rows[q].seq}

Full(d) == Cardinality(DOMAIN d.rows) >= d.cap

\* getOrCreateBranch, when the trace has no row: room is made, or there is none.
Admit(d, r) ==
  LET gone == CHOOSE q \in Evictable(d) : TRUE
      kept == IF Full(d) THEN Without(d.rows, gone) ELSE d.rows
      carried == IF r \in DOMAIN d.before THEN d.before[r] ELSE <<>>
      row == [EmptyRow(d.nextSeq) EXCEPT !.spans = carried, !.blockCount = Len(carried)]
  IN IF Full(d) /\ Evictable(d) = {}
     THEN d
     ELSE [d EXCEPT !.rows = With(kept, r, row), !.nextSeq = @ + 1,
                    !.before = Without(@, r)]

OnRequestStart(d, r) ==
  LET e == IF Has(d, r) THEN d ELSE Admit(d, r)
  IN IF Has(e, r) THEN e ELSE [e EXCEPT !.hidden = @ + 1]

\* Mutant: offloads that are still open stay open.
OnRequestEnd_KeepWorkers(d, r) ==
  IF ~ Has(d, r) THEN d
  ELSE WithRow(d, r, [d.rows[r] EXCEPT !.done = TRUE, !.stalled = FALSE])

OnRequestEnd(d, r) ==
  IF ~ Has(d, r) THEN d
  ELSE [WithRow(d, r, [d.rows[r] EXCEPT !.done = TRUE, !.stalled = FALSE, !.live = 0,
                                        !.started = {}])
          EXCEPT !.workers = {w \in @ : w[1] # r}]

\* The frame joins the tree, under its parent or else under the request.
Entered(row, n, where, parent) ==
  LET under == IF parent \in DOMAIN row.nodes THEN parent ELSE None
      node == [state |-> "running", where |-> where, parent |-> under, offloaded |-> FALSE]
  IN [row EXCEPT !.sawLoop = @ \/ where = "loop", !.sawPool = @ \/ where = "pool",
                 !.nodes = With(@, n, node), !.stack = Append(@, n)]

OnCallEnter(d, r, n, where, parent) ==
  IF ~ Has(d, r) THEN d
  ELSE [WithRow(d, r, Entered(d.rows[r], n, where, parent))
          EXCEPT !.holder = IF where = "loop" THEN r ELSE @]

\* Mutant: the top of the stack is popped, whichever frame it is.
OnCallExit_Pop(d, r, n) ==
  IF ~ Has(d, r) THEN d
  ELSE LET row == SetState(d.rows[r], n, "done")
       IN WithRow(d, r, [row EXCEPT !.stack = IF @ = <<>> THEN @ ELSE SubSeq(@, 1, Len(@) - 1)])

OnCallExit(d, r, n) ==
  IF ~ Has(d, r) THEN d
  ELSE LET row == SetState(d.rows[r], n, "done")
           at == {i \in DOMAIN row.stack : row.stack[i] = n}
       IN WithRow(d, r, [row EXCEPT !.stack = IF at = {} THEN @ ELSE RemoveAt(@, Max(at))])

OnSuspend(d, r, n) ==
  IF ~ Has(d, r) THEN d
  ELSE [WithRow(d, r, SetState(d.rows[r], n, "suspended"))
          EXCEPT !.holder = IF @ = r THEN None ELSE @]

\* Mutant: a resumed frame does not take the loop.
OnResume_NoHolder(d, r, n) ==
  IF ~ Has(d, r) THEN d ELSE WithRow(d, r, SetState(d.rows[r], n, "running"))

OnResume(d, r, n) ==
  IF ~ Has(d, r) THEN d
  ELSE LET row == d.rows[r]
           onLoop == n \in DOMAIN row.nodes => row.nodes[n].where = "loop"
       IN [WithRow(d, r, SetState(row, n, "running")) EXCEPT !.holder = IF onLoop THEN r ELSE @]

-----------------------------------------------------------------------------

OnLoopStalled(d, r, n) ==
  LET shown == Has(d, r) /\ ~ d.rows[r].done
      row == d.rows[r]
      listed == \E i \in DOMAIN row.spans : row.spans[i].node = n
      opened == IF listed THEN row
                ELSE [row EXCEPT !.spans = Append(@, [node |-> n, ended |-> FALSE]),
                                 !.blockCount = @ + 1]
      e == IF shown THEN WithRow(d, r, [opened EXCEPT !.stalled = TRUE]) ELSE d
  IN [e EXCEPT !.stalled = [node |-> n, trace |-> r]]

OnLoopUnstalled(d) ==
  LET r == d.stalled.trace
      e == IF d.stalled # None /\ Has(d, r)
           THEN WithRow(d, r, [d.rows[r] EXCEPT !.stalled = FALSE])
           ELSE d
  IN [e EXCEPT !.stalled = None]

\* Mutant: the span the watchdog opened is not looked for.
Blocked_NoMatch(row, n) ==
  [row EXCEPT !.spans = Append(@, [node |-> n, ended |-> TRUE]), !.blockCount = @ + 1]

\* The hold is a span of its own, unless the watchdog has opened one for it.
Blocked(row, n) ==
  LET open == {i \in DOMAIN row.spans : row.spans[i].node = n /\ ~ row.spans[i].ended}
  IN IF open # {}
     THEN [row EXCEPT !.spans[Min(open)].ended = TRUE]
     ELSE [row EXCEPT !.spans = Append(@, [node |-> n, ended |-> TRUE]), !.blockCount = @ + 1]

\* A request without a row has its spans kept for when it gets one.  The code
\* counts all of them, and keeps the first 32.
OnLoopBlocked(d, r, n) ==
  IF Has(d, r)
  THEN WithRow(d, r, Blocked(d.rows[r], n))
  ELSE LET pre == IF r \in DOMAIN d.before THEN d.before[r] ELSE <<>>
       IN [d EXCEPT !.before = With(@, r, Append(pre, [node |-> n, ended |-> TRUE]))]

\* The node is on a worker, or no longer is.
SetOffloaded(row, n, offloaded) ==
  IF n \in DOMAIN row.nodes THEN [row EXCEPT !.nodes[n].offloaded = offloaded] ELSE row

OnOffloadStart(d, r, n) ==
  IF ~ Has(d, r) THEN d
  ELSE
    LET row == d.rows[r]
        told == [SetOffloaded(row, n, TRUE) EXCEPT !.live = @ + 1, !.started = @ \cup {n}]
    IN [WithRow(d, r, told)
          EXCEPT !.workers = @ \cup {w \in {<<r, n>>} : Zone(row) = "loop"}]

\* The start may have been shed, so the count stops at zero.
Ended(row, n) ==
  [SetOffloaded(row, n, FALSE) EXCEPT !.live = IF @ > 0 THEN @ - 1 ELSE 0, !.started = @ \ {n}]

OnOffloadEnd(d, r, n) ==
  LET e == IF Has(d, r) THEN WithRow(d, r, Ended(d.rows[r], n)) ELSE d
  IN [e EXCEPT !.workers = @ \ {<<r, n>>}]

\* One event.  Every kind but pool_sample is dropped if it has no trace.
Ingest(d, ev) ==
  LET r == ev.trace
      n == ev.node
  IN CASE r = None                  -> d
       [] r # None /\ ev.kind = "request_start"  -> OnRequestStart(d, r)
       [] r # None /\ ev.kind = "request_end"    -> OnRequestEnd(d, r)
       [] r # None /\ ev.kind = "call_enter"     -> OnCallEnter(d, r, n, ev.where, ev.parent)
       [] r # None /\ ev.kind = "call_exit"      -> OnCallExit(d, r, n)
       [] r # None /\ ev.kind = "suspend"        -> OnSuspend(d, r, n)
       [] r # None /\ ev.kind = "resume"         -> OnResume(d, r, n)
       [] r # None /\ ev.kind = "loop_stalled"   -> OnLoopStalled(d, r, n)
       [] r # None /\ ev.kind = "loop_unstalled" -> OnLoopUnstalled(d)
       [] r # None /\ ev.kind = "loop_blocked"   -> OnLoopBlocked(d, r, n)
       [] r # None /\ ev.kind = "offload_start"  -> OnOffloadStart(d, r, n)
       [] r # None /\ ev.kind = "offload_end"    -> OnOffloadEnd(d, r, n)

\* The tag of a row, while what it shows is fresh.
BranchState(d, r) ==
  LET row == d.rows[r]
  IN CASE row.done -> "DONE"
       [] ~ row.done /\ row.stalled -> "STALLED"
       [] ~ row.done /\ ~ row.stalled /\ Zone(row) = "pool" ->
            IF row.stack # <<>> THEN "RUNNING" ELSE "WAITING"
       [] ~ row.done /\ ~ row.stalled /\ Zone(row) = "loop" ->
            IF d.holder = r THEN "RUNNING" ELSE IF row.live > 0 THEN "WORKER" ELSE "WAITING"

-----------------------------------------------------------------------------

\* "clear".
Cleared(d) ==
  [d EXCEPT !.rows = <<>>, !.nextSeq = 0, !.before = <<>>, !.hidden = 0, !.holder = None,
            !.stalled = None]

=============================================================================
