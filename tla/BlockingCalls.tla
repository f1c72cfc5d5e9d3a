---------------------------- MODULE BlockingCalls ----------------------------
(***************************************************************************)
(* The listener for blocking calls (blockingcalls.py): one audit hook for  *)
(* the process, which every thread runs at every audited call it makes,    *)
(* and a detector per application that may come and go meanwhile.          *)
(*                                                                         *)
(* A thread in the hook is a stack of invocations, since a report may      *)
(* itself make an audited call.  The registry is cut at its lock: tests,   *)
(* additions and refreshes of different threads interleave elsewhere.      *)
(***************************************************************************)
EXTENDS Integers, Sequences, FiniteSets, SequencesExt

CONSTANTS
  Detectors,  \* each is made for one startup of an application
  Threads,
  Traces,
  Details,    \* what distinguishes two calls: category and detail
  None,
  MaxSeen,    \* _MAX_SEEN
  MaxCalls    \* bound: audited calls, those made by reports included

ASSUME BlockingCallsAssumption ==
  /\ None \notin Detectors \cup Threads \cup Traces \cup Details
  /\ MaxSeen \in Nat \ {0} /\ MaxCalls \in Nat

VARIABLES
  lock,      \* who holds _HOOK_LOCK
  flag,      \* _HOOK_INSTALLED
  hooks,     \* how many hooks the interpreter has
  members,   \* _ACTIVE
  dispatch,  \* _DISPATCH
  alive,     \* the detectors that have not been collected
  op,        \* where the life of each detector is
  tid,       \* loop_tid, None before it is set
  enabled,
  seen,      \* _seen
  clears,    \* history: how often _seen was dropped for its size
  busy,      \* _local.busy on the loop thread of each
  stack,     \* the invocations of the hook on each thread
  calls,     \* history: how many audited calls there were
  reports,   \* history: <<detector, trace, detail>>, in order
  owed       \* history: calls that each detector has to report

registry == <<lock, flag, hooks, members, dispatch, alive, op, tid>>
marks == <<seen, clears, busy>>
history == <<calls, reports, owed>>
vars == <<registry, enabled, marks, stack, history>>

Init ==
  /\ lock = None
  /\ flag = FALSE /\ hooks = 0
  /\ members = {} /\ dispatch = {}
  /\ alive = Detectors
  /\ op = [d \in Detectors |-> "new"]
  /\ tid = [d \in Detectors |-> None]
  /\ enabled = [d \in Detectors |-> FALSE]
  /\ seen = [d \in Detectors |-> {}]
  /\ clears = [d \in Detectors |-> 0]
  /\ busy = [d \in Detectors |-> FALSE]
  /\ stack = [t \in Threads |-> <<>>]
  /\ calls = 0 /\ reports = <<>>
  /\ owed = [d \in Detectors |-> {}]

Goes(d, from, to) == op[d] = from /\ op' = [op EXCEPT ![d] = to]

\* A thread that is in install() or uninstall() is nowhere else.
Steady == {"new", "on", "failed", "off"}
Idle(t) == stack[t] = <<>> /\ \A d \in Detectors : tid[d] = t => op[d] \in Steady

Takes(d) == lock = None /\ lock' = d
Gives(d) == lock = d /\ lock' = None

-----------------------------------------------------------------------------
(* install(), on the thread of the application's loop *)

Install(d, t) ==
  /\ Idle(t)
  /\ Goes(d, "new", "ensure")
  /\ tid' = [tid EXCEPT ![d] = t]
  /\ seen' = [seen EXCEPT ![d] = {}]
  /\ UNCHANGED <<lock, flag, hooks, members, dispatch, alive, enabled, clears, busy, stack, history>>

\* Mutant: whether there is a hook is looked up before the lock is taken.
Ensure_Unlocked(d) ==
  /\ Goes(d, "ensure", IF flag THEN "enable" ELSE "hook")
  /\ UNCHANGED <<lock, flag, hooks, members, dispatch, alive, tid, enabled, marks, stack, history>>

\* _ensure_hook takes the lock and looks whether there is a hook.
Ensure(d) ==
  /\ lock = None
  /\ lock' = IF flag THEN None ELSE d
  /\ Goes(d, "ensure", IF flag THEN "enable" ELSE "hook")
  /\ UNCHANGED <<flag, hooks, members, dispatch, alive, tid, enabled, marks, stack, history>>

Hook(d) ==
  /\ hooks' = hooks + 1
  /\ Goes(d, "hook", "flag")
  /\ UNCHANGED <<lock, flag, members, dispatch, alive, tid, enabled, marks, stack, history>>

\* addaudithook() raises.
HookFails(d) ==
  /\ Goes(d, "hook", "failed")
  /\ lock' = None
  /\ enabled' = [enabled EXCEPT ![d] = FALSE]
  /\ UNCHANGED <<flag, hooks, members, dispatch, alive, tid, marks, stack, history>>

Flag(d) ==
  /\ Goes(d, "flag", "enable")
  /\ flag' = TRUE
  /\ lock' = None
  /\ UNCHANGED <<hooks, members, dispatch, alive, tid, enabled, marks, stack, history>>

Enable(d) ==
  /\ Goes(d, "enable", "add")
  /\ enabled' = [enabled EXCEPT ![d] = TRUE]
  /\ UNCHANGED <<lock, flag, hooks, members, dispatch, alive, tid, marks, stack, history>>

Add(d) ==
  /\ Goes(d, "add", "publish")
  /\ Takes(d)
  /\ members' = members \cup {d}
  /\ UNCHANGED <<flag, hooks, dispatch, alive, tid, enabled, marks, stack, history>>

\* Mutant: the new detector is put into the snapshot that is there.
Refresh_Stale(d) ==
  dispatch' = IF d \in members THEN dispatch \cup {d} ELSE dispatch

\* _refresh_dispatch, by whoever holds the lock.
Refresh(d) == dispatch' = members

Publish(d) ==
  /\ Goes(d, "publish", "on")
  /\ Refresh(d)
  /\ Gives(d)
  /\ UNCHANGED <<flag, hooks, members, alive, tid, enabled, marks, stack, history>>

-----------------------------------------------------------------------------
(* uninstall(), on the same thread, and an application that is dropped *)

Uninstall(d) ==
  /\ Goes(d, "on", "discard")
  /\ d \in alive /\ Idle(tid[d])
  /\ enabled' = [enabled EXCEPT ![d] = FALSE]
  /\ seen' = [seen EXCEPT ![d] = {}]
  /\ UNCHANGED <<lock, flag, hooks, members, dispatch, alive, tid, clears, busy, stack, history>>

Discard(d) ==
  /\ Goes(d, "discard", "unpublish")
  /\ Takes(d)
  /\ members' = members \ {d}
  /\ UNCHANGED <<flag, hooks, dispatch, alive, tid, enabled, marks, stack, history>>

Unpublish(d) ==
  /\ Goes(d, "unpublish", "off")
  /\ Refresh(d)
  /\ Gives(d)
  /\ UNCHANGED <<flag, hooks, members, alive, tid, enabled, marks, stack, history>>

Running(t) == Last(stack[t])
Visiting == {inv.det : inv \in UNION {ToSet(stack[t]) : t \in Threads}}

\* Nothing refers to the application any more, and nobody refreshes.
Drop(d) ==
  /\ op[d] = "on" /\ d \in alive /\ d \notin Visiting
  /\ alive' = alive \ {d}
  /\ members' = members \ {d}
  /\ UNCHANGED <<lock, flag, hooks, dispatch, op, tid, enabled, marks, stack, history>>

-----------------------------------------------------------------------------
(* The hook *)

\* An audited call: what it is, None when it is filtered (not in AUDITED, an
\* import, this package), and for which request, None for no request.
Calls == [trace : Traces \cup {None}, detail : Details \cup {None}]

\* The call is an application's of its own, or made while a report is pushed.
MayCall(t) == Idle(t) \/ (stack[t] # <<>> /\ Running(t).det # None)

\* A call is owed a report by the detectors that are on for this loop, unless
\* they are reporting it.
Owing(t) ==
  {d \in alive : op[d] = "on" /\ tid[d] = t} \ {inv.det : inv \in ToSet(stack[t])}

\* _dispatch reads the snapshot once.
Call(t, c) ==
  /\ calls < MaxCalls /\ MayCall(t)
  /\ hooks > 0
  /\ calls' = calls + 1
  /\ stack' = [stack EXCEPT ![t] = Append(@, [call |-> c, left |-> dispatch, det |-> None])]
  /\ owed' = IF None \in {c.trace, c.detail} THEN owed
             ELSE [d \in Detectors |->
                     IF d \in Owing(t) THEN owed[d] \cup {<<c.trace, c.detail>>} ELSE owed[d]]
  /\ UNCHANGED <<registry, enabled, marks, reports>>

\* Mutant: a detector that is reporting is asked again.
Concerns_Reentrant(d, t, c) ==
  /\ d \in alive /\ enabled[d]
  /\ c.detail # None
  /\ tid[d] = t
  /\ c.trace # None

\* The early returns of _hook: `busy` is the loop thread's, and the others do
\* not come so far.
Concerns(d, t, c) ==
  /\ d \in alive /\ enabled[d]
  /\ c.detail # None
  /\ tid[d] = t /\ ~ busy[d]
  /\ c.trace # None

Remembered(d, key) ==
  IF Cardinality(seen[d]) >= MaxSeen THEN <<{key}, clears[d] + 1>>
  ELSE <<seen[d] \cup {key}, clears[d]>>

\* The next detector of the snapshot: skip it, or begin to report the call.
Visit(t) ==
  /\ stack[t] # <<>> /\ Running(t).det = None
  /\ \E d \in Running(t).left :
       LET inv == Running(t)
           key == <<inv.call.trace, inv.call.detail>>
           now == [inv EXCEPT !.left = @ \ {d}]
           mark == Remembered(d, key)
           there(i) == [stack EXCEPT ![t] = Front(@) \o <<i>>]
       IN IF Concerns(d, t, inv.call) /\ key \notin seen[d]
          THEN /\ seen' = [seen EXCEPT ![d] = mark[1]]
               /\ clears' = [clears EXCEPT ![d] = mark[2]]
               /\ busy' = [busy EXCEPT ![d] = TRUE]
               /\ stack' = there([now EXCEPT !.det = d])
          ELSE /\ stack' = there(now)
               /\ UNCHANGED marks
  /\ UNCHANGED <<registry, enabled, history>>

\* Mutant: the mark of a report in progress is left.
Emit_StaysBusy(t) ==
  /\ stack[t] # <<>> /\ Running(t).det # None
  /\ LET inv == Running(t) IN
     /\ reports' = Append(reports, <<inv.det, inv.call.trace, inv.call.detail>>)
     /\ stack' = [stack EXCEPT ![t] = Front(@) \o <<[inv EXCEPT !.det = None]>>]
  /\ UNCHANGED <<registry, enabled, seen, clears, busy, calls, owed>>

\* _emit pushes the event, and the detector is done with the call.
Emit(t) ==
  /\ stack[t] # <<>> /\ Running(t).det # None
  /\ LET inv == Running(t) IN
     /\ reports' = Append(reports, <<inv.det, inv.call.trace, inv.call.detail>>)
     /\ busy' = [busy EXCEPT ![inv.det] = FALSE]
     /\ stack' = [stack EXCEPT ![t] = Front(@) \o <<[inv EXCEPT !.det = None]>>]
  /\ UNCHANGED <<registry, enabled, seen, clears, calls, owed>>

\* Every detector has been asked: the call itself goes on.
Leave(t) ==
  /\ stack[t] # <<>> /\ Running(t).det = None /\ Running(t).left = {}
  /\ stack' = [stack EXCEPT ![t] = Front(@)]
  /\ UNCHANGED <<registry, enabled, marks, history>>

-----------------------------------------------------------------------------

Life(d) ==
  \/ \E t \in Threads : Install(d, t)
  \/ Ensure(d) \/ Hook(d) \/ HookFails(d) \/ Flag(d) \/ Enable(d) \/ Add(d) \/ Publish(d)
  \/ Uninstall(d) \/ Discard(d) \/ Unpublish(d)
  \/ Drop(d)

Audit(t) == (\E c \in Calls : Call(t, c)) \/ Visit(t) \/ Emit(t) \/ Leave(t)

Next == (\E d \in Detectors : Life(d)) \/ (\E t \in Threads : Audit(t))

Spec == Init /\ [][Next]_vars

-----------------------------------------------------------------------------
(* Properties *)

TypeOK ==
  /\ lock \in Detectors \cup {None}
  /\ flag \in BOOLEAN /\ hooks \in Nat /\ calls \in 0 .. MaxCalls
  /\ {members, dispatch, alive} \subseteq SUBSET Detectors
  /\ op \in [Detectors -> Steady \cup {"ensure", "hook", "flag", "enable", "add", "publish",
                                       "discard", "unpublish"}]
  /\ tid \in [Detectors -> Threads \cup {None}]
  /\ enabled \in [Detectors -> BOOLEAN] /\ busy \in [Detectors -> BOOLEAN]
  /\ seen \in [Detectors -> SUBSET (Traces \X Details)]
  /\ clears \in [Detectors -> Nat]
  /\ stack \in [Threads -> Seq([call : Calls, left : SUBSET Detectors,
                                det : Detectors \cup {None}])]
  /\ reports \in Seq(Detectors \X Traces \X Details)
  /\ owed \in [Detectors -> SUBSET (Traces \X Details)]

\* However many applications start at once, on however many threads, the process
\* never has two hooks, which could never be removed (blockingcalls.py:82-89).
OneHook == hooks <= 1

\* A detector that is installed is dispatched to, and one that is not is not,
\* although others come and go on other threads meanwhile
\* (blockingcalls.py:97-110, 173-188).
SnapshotIsCurrent ==
  /\ \A d \in alive : op[d] = "on" => d \in dispatch
  /\ \A d \in Detectors : op[d] \in {"new", "failed", "off"} => d \notin dispatch

\* One hook, and it serves those that are installed (blockingcalls.py:82-110).
RegistryIsSound == OneHook /\ SnapshotIsCurrent

\* A detector reports on the thread of its loop and while it is installed: no
\* report is under way that uninstall() has overtaken
\* (blockingcalls.py:181-188, 200-204).
QuietWhenOff ==
  \A t \in Threads : \A i \in DOMAIN stack[t] :
    LET d == stack[t][i].det IN d # None => tid[d] = t /\ op[d] = "on"

\* A report that makes audited calls of its own does not start over, so that a
\* single call never recurses deeper than there are detectors
\* (blockingcalls.py:160-162, 198-199).
NoReentry ==
  \A t \in Threads : \A i, j \in DOMAIN stack[t] :
    i # j /\ stack[t][i].det # None => stack[t][i].det # stack[t][j].det

\* Startup and background work is not reported (blockingcalls.py:205-207).
OfRequests == \A i \in DOMAIN reports : reports[i][2] # None

\* A report is one at a time, of one's own loop and of a request
\* (blockingcalls.py:192-244).
ReportsAreOrderly == QuietWhenOff /\ NoReentry /\ OfRequests

\* How often a call was reported.
Times(d, key) == Cardinality({i \in DOMAIN reports : reports[i] = <<d>> \o key})

\* A call is reported once for a request, and again only after the memory of it
\* was dropped for its size (blockingcalls.py:75-78, 163-166).
OncePerRequest ==
  \A d \in Detectors, key \in Traces \X Details : Times(d, key) <= clears[d] + 1

\* No call goes unreported: a thread that is out of the hook has reported every call
\* of a request on its loop (blockingcalls.py:192-244).
NothingMissed ==
  \A d \in alive, t \in Threads :
    tid[d] = t /\ stack[t] = <<>> => \A key \in owed[d] : Times(d, key) > 0

\* The memory is bounded (blockingcalls.py:231-233).
SeenBounded == \A d \in Detectors : Cardinality(seen[d]) <= MaxSeen

\* Every call is reported exactly once, as far as the memory of bounded size
\* reaches (blockingcalls.py:192-244).
ReportedOnce == OncePerRequest /\ NothingMissed /\ SeenBounded

=============================================================================
