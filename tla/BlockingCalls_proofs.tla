------------------------- MODULE BlockingCalls_proofs -------------------------
(***************************************************************************)
(* For any number of applications, threads, requests and calls: the        *)
(* process gets one audit hook, the snapshot it dispatches to is that of   *)
(* the installed detectors, and every call of a request is reported, once  *)
(* as far as the memory reaches.                                           *)
(*                                                                         *)
(* The registry rests on its lock: what its holder is doing, nobody else   *)
(* is (LockInv).  The reports rest on the detector's thread: while it is   *)
(* in the hook it is not in install() or uninstall() (ThreadInv), so a     *)
(* call that is owed a report has one, is being reported, or is still      *)
(* ahead of its detector (OwedInv).                                        *)
(***************************************************************************)
EXTENDS BlockingCalls, FiniteSetTheorems, SequenceTheorems, TLAPS

\* What the holder of the lock is doing, nobody else does.
LockInv ==
  \A d \in Detectors : op[d] \in {"hook", "flag", "publish", "unpublish"} <=> lock = d

\* The flag follows the hook under the same lock.
HookInv ==
  /\ \A d \in Detectors : op[d] \in {"hook", "flag"} => ~ flag
  /\ hooks = IF flag \/ \E d \in Detectors : op[d] = "flag" THEN 1 ELSE 0

\* A detector is collected only while it is installed; the snapshot differs from
\* the registry only under the lock, and by what has been collected.
MemberInv ==
  /\ \A d \in Detectors : op[d] # "on" => d \in alive
  /\ members = {d \in alive : op[d] \in {"publish", "on", "discard"}}
  /\ \A d \in alive :
       /\ op[d] \in {"on", "discard"} => d \in dispatch
       /\ d \in dispatch => op[d] \in {"on", "discard", "unpublish"}

RegistryInv == LockInv /\ HookInv /\ MemberInv

\* A thread that is in install() or uninstall() is not in the hook.
ThreadInv ==
  \A d \in Detectors :
    /\ op[d] # "new" => tid[d] \in Threads
    /\ op[d] \notin Steady => stack[tid[d]] = <<>>
    /\ enabled[d] <=> op[d] \in {"add", "publish", "on"}
    /\ op[d] = "new" => seen[d] = {}

Key == Traces \X Details
KeyOf(inv) == <<inv.call.trace, inv.call.detail>>

\* A mark is that of a report under way.
BusyIsReal ==
  \A d \in Detectors : busy[d] =>
    \E t \in Threads : \E i \in 1 .. Len(stack[t]) : stack[t][i].det = d

\* A call is being reported.
Pending(d, key) ==
  \E t \in Threads : \E i \in 1 .. Len(stack[t]) :
    stack[t][i].det = d /\ KeyOf(stack[t][i]) = key

\* It is still to be shown to its detector, which will then be free.
Ahead(d, key) ==
  \E t \in Threads : \E i \in 1 .. Len(stack[t]) :
    /\ KeyOf(stack[t][i]) = key /\ tid[d] = t /\ d \in stack[t][i].left
    /\ \A j \in 1 .. i - 1 : stack[t][j].det # d

\* What a detector remembers is what it has reported since, and once more if its
\* memory is gone for good.
Known(d, key) == key \in seen[d] \/ op[d] \in {"discard", "unpublish", "off"}
CountInv ==
  \A d \in Detectors, key \in Key :
    Times(d, key) + (IF Pending(d, key) THEN 1 ELSE 0) <= clears[d] + IF Known(d, key) THEN 1 ELSE 0

MemoryInv ==
  \A d \in Detectors :
    /\ IsFiniteSet(seen[d]) /\ Cardinality(seen[d]) <= MaxSeen
    /\ \A key \in seen[d] : Times(d, key) > 0 \/ Pending(d, key)

\* A call that is owed a report has one, is being reported, or is still ahead.
OwedInv ==
  \A d \in alive : \A key \in owed[d] :
    Times(d, key) > 0 \/ (op[d] = "on" /\ (Pending(d, key) \/ Ahead(d, key)))

\* A report under way has the mark of its detector, and is its only one; and it
\* is of a request.
BusyInv ==
  \A t \in Threads : \A i \in 1 .. Len(stack[t]) : stack[t][i].det # None =>
    /\ busy[stack[t][i].det]
    /\ KeyOf(stack[t][i]) \in Key
    /\ \A u \in Threads : \A j \in 1 .. Len(stack[u]) :
         stack[u][j].det = stack[t][i].det => u = t /\ j = i

\* A report as it is written down and as it is counted.
LEMMA Report == \A d, x, y : <<d>> \o <<x, y>> = <<d, x, y>>
<1> SUFFICES ASSUME NEW d, NEW x, NEW y PROVE <<d>> \o <<x, y>> = <<d, x, y>>
  OBVIOUS
<1> DEFINE S == {d, x, y}
<1>1. <<d>> \in Seq(S) /\ <<x, y>> \in Seq(S) /\ <<d, x, y>> \in Seq(S)
  OBVIOUS
<1>2. Len(<<d>>) = 1 /\ Len(<<x, y>>) = 2 /\ Len(<<d, x, y>>) = 3
  OBVIOUS
<1> HIDE DEF S
<1>3. /\ <<d>> \o <<x, y>> \in Seq(S) /\ Len(<<d>> \o <<x, y>>) = 3
      /\ \A i \in 1 .. 3 : (<<d>> \o <<x, y>>)[i] = IF i <= 1 THEN <<d>>[i] ELSE <<x, y>>[i - 1]
  BY <1>1, <1>2, ConcatProperties
<1>4. \A i \in 1 .. 3 : (<<d>> \o <<x, y>>)[i] = <<d, x, y>>[i]
  BY <1>3
<1> QED
  BY <1>1, <1>2, <1>3, <1>4, SeqEqual

USE BlockingCallsAssumption

-----------------------------------------------------------------------------
(* The stacks of the hook *)

Invocation == [call : Calls, left : SUBSET Detectors, det : Detectors \cup {None}]

\* A thread that enters the hook.
LEMMA Pushing ==
  ASSUME NEW S, NEW s \in Seq(S), NEW x \in S
  PROVE  /\ Append(s, x) \in Seq(S) /\ Append(s, x) # <<>>
         /\ Len(Append(s, x)) = Len(s) + 1 /\ DOMAIN Append(s, x) = 1 .. Len(s) + 1
         /\ DOMAIN s = 1 .. Len(s)
         /\ \A i \in 1 .. Len(s) : Append(s, x)[i] = s[i]
         /\ Append(s, x)[Len(s) + 1] = x
BY AppendProperties, LenProperties

\* A thread that leaves the invocation it runs.
LEMMA Popping ==
  ASSUME NEW S, NEW s \in Seq(S), s # <<>>
  PROVE  /\ Front(s) \in Seq(S) /\ Len(Front(s)) = Len(s) - 1
         /\ DOMAIN Front(s) = 1 .. Len(s) - 1
         /\ DOMAIN s = 1 .. Len(s) /\ Len(s) \in 1 .. Len(s)
         /\ \A i \in 1 .. Len(s) - 1 : Front(s)[i] = s[i]
         /\ Last(s) = s[Len(s)] /\ Last(s) \in S
<1> DEFINE n == Len(s) - 1
<1>1. n \in Nat /\ Len(s) = n + 1 /\ Len(s) \in 1 .. Len(s) /\ DOMAIN s = 1 .. Len(s)
  BY EmptySeq, LenProperties
<1>2. \A i \in 1 .. Len(s) : s[i] \in S
  BY ElementOfSeq
<1>3. \A i \in 1 .. n : s[i] \in S
  BY <1>1, <1>2
<1>4. Front(s) = SubSeq(s, 1, n)
  BY DEF Front
<1> HIDE DEF n
<1>5. /\ SubSeq(s, 1, n) \in Seq(S)
      /\ Len(SubSeq(s, 1, n)) = IF 1 <= n THEN n - 1 + 1 ELSE 0
      /\ \A i \in 1 .. n - 1 + 1 : SubSeq(s, 1, n)[i] = s[1 + i - 1]
  BY <1>1, <1>3, SubSeqProperties
<1>6. /\ Front(s) \in Seq(S) /\ Len(Front(s)) = n
      /\ \A i \in 1 .. n : Front(s)[i] = s[i]
  BY <1>1, <1>4, <1>5
<1>7. DOMAIN Front(s) = 1 .. n
  BY <1>6, LenProperties
<1>8. Last(s) = s[Len(s)] /\ Last(s) \in S
  BY <1>1, <1>2 DEF Last
<1> QED
  BY <1>1, <1>6, <1>7, <1>8 DEF n

\* A thread that goes on in the invocation it runs.
LEMMA Replacing ==
  ASSUME NEW S, NEW s \in Seq(S), s # <<>>, NEW x \in S
  PROVE  /\ Front(s) \o <<x>> \in Seq(S) /\ Front(s) \o <<x>> # <<>>
         /\ Len(Front(s) \o <<x>>) = Len(s) /\ Len(s) \in 1 .. Len(s)
         /\ DOMAIN (Front(s) \o <<x>>) = 1 .. Len(s) /\ DOMAIN s = 1 .. Len(s)
         /\ \A i \in 1 .. Len(s) : (Front(s) \o <<x>>)[i] = IF i = Len(s) THEN x ELSE s[i]
         /\ Last(s) = s[Len(s)] /\ Last(s) \in S
<1> DEFINE f == Front(s)
<1>1. /\ f \in Seq(S) /\ Len(f) = Len(s) - 1 /\ \A i \in 1 .. Len(s) - 1 : f[i] = s[i]
      /\ Len(s) \in Nat /\ DOMAIN s = 1 .. Len(s) /\ Len(s) \in 1 .. Len(s)
      /\ Last(s) = s[Len(s)] /\ Last(s) \in S
  BY Popping, LenProperties
<1> HIDE DEF f
<1>2. f \o <<x>> = Append(f, x)
  BY <1>1, AppendIsConcat
<1>3. /\ Append(f, x) \in Seq(S) /\ Append(f, x) # <<>> /\ Len(Append(f, x)) = Len(f) + 1
      /\ \A i \in 1 .. Len(f) : Append(f, x)[i] = f[i]
      /\ Append(f, x)[Len(f) + 1] = x
  BY <1>1, AppendProperties
<1>4. DOMAIN Append(f, x) = 1 .. Len(Append(f, x))
  BY <1>3, LenProperties
<1>5. Len(f) + 1 = Len(s)
  BY <1>1
<1>6. \A i \in 1 .. Len(s) : Append(f, x)[i] = IF i = Len(s) THEN x ELSE s[i]
  BY <1>1, <1>3, <1>5
<1> QED
  BY <1>1, <1>2, <1>3, <1>4, <1>5, <1>6 DEF f

-----------------------------------------------------------------------------
(* What a thread in the hook does *)

Top(t) == stack[t][Len(stack[t])]

\* What is on the stack of a thread, and on top of it.
LEMMA StackType ==
  ASSUME TypeOK, NEW t \in Threads
  PROVE  /\ stack[t] \in Seq(Invocation) /\ DOMAIN stack[t] = 1 .. Len(stack[t])
         /\ Len(stack[t]) \in Nat
         /\ \A i \in 1 .. Len(stack[t]) : stack[t][i] \in Invocation
         /\ stack[t] # <<>> => /\ Running(t) = Top(t) /\ Top(t) \in Invocation
                               /\ Len(stack[t]) \in 1 .. Len(stack[t])
<1>1. stack[t] \in Seq(Invocation)
  BY DEF TypeOK, Invocation
<1> HIDE DEF Invocation
<1>2. DOMAIN stack[t] = 1 .. Len(stack[t]) /\ Len(stack[t]) \in Nat
  BY <1>1, LenProperties
<1>3. \A i \in 1 .. Len(stack[t]) : stack[t][i] \in Invocation
  BY <1>1, ElementOfSeq
<1>4. stack[t] # <<>> => Last(stack[t]) = Top(t) /\ Top(t) \in Invocation
                         /\ Len(stack[t]) \in 1 .. Len(stack[t])
  <2>1. ASSUME stack[t] # <<>>
        PROVE  /\ Last(stack[t]) = stack[t][Len(stack[t])] /\ Last(stack[t]) \in Invocation
               /\ Len(stack[t]) \in 1 .. Len(stack[t])
    BY <1>1, <2>1, Popping
  <2> QED
    BY <2>1 DEF Top
<1> QED
  BY <1>1, <1>2, <1>3, <1>4 DEF Running

\* A key that is remembered, and what a memory of keys may hold.
LEMMA KeyType ==
  ASSUME NEW c \in Calls, c.trace # None, c.detail # None
  PROVE  <<c.trace, c.detail>> \in Key
BY DEF Calls, Key

\* The detector begins to report the call, and remembers it.
Begins(t, d, x) ==
  /\ x.det = d /\ Concerns(d, t, x.call)
  /\ KeyOf(x) \in Key \ seen[d]
  /\ busy' = [busy EXCEPT ![d] = TRUE]
  /\ \/ /\ Cardinality(seen[d]) >= MaxSeen
        /\ seen' = [seen EXCEPT ![d] = {KeyOf(x)}]
        /\ clears' = [clears EXCEPT ![d] = clears[d] + 1]
     \/ /\ ~ (Cardinality(seen[d]) >= MaxSeen)
        /\ seen' = [seen EXCEPT ![d] = seen[d] \cup {KeyOf(x)}]
        /\ clears' = clears

\* The call is not the detector's, or it remembers it.
Skips(t, d, x) ==
  /\ x.det = None /\ (Concerns(d, t, x.call) => KeyOf(x) \in seen[d])
  /\ busy' = busy /\ seen' = seen /\ clears' = clears

VisitTo(t, d, x) ==
  /\ d \in Top(t).left
  /\ x.call = Top(t).call /\ x.left = Top(t).left \ {d}
  /\ stack' = [stack EXCEPT ![t] = Front(stack[t]) \o <<x>>]
  /\ Begins(t, d, x) \/ Skips(t, d, x)

\* What one detector's turn in the hook does, its guards spelled out.
LEMMA VisitIs ==
  ASSUME TypeOK, NEW t \in Threads, Visit(t)
  PROVE  /\ stack[t] # <<>> /\ Top(t) \in Invocation /\ Top(t).det = None
         /\ UNCHANGED <<registry, enabled, history>>
         /\ \E d \in Detectors, x \in Invocation : VisitTo(t, d, x)
<1>1. stack[t] # <<>> /\ Running(t) = Top(t) /\ Top(t) \in Invocation /\ Top(t).det = None
  BY StackType DEF Visit
<1>2. UNCHANGED <<registry, enabled, history>>
  BY DEF Visit
<1>3. PICK d \in Top(t).left :
        LET key == <<Top(t).call.trace, Top(t).call.detail>>
            now == [Top(t) EXCEPT !.left = @ \ {d}]
            mark == Remembered(d, key)
            there(i) == [stack EXCEPT ![t] = Front(@) \o <<i>>]
        IN IF Concerns(d, t, Top(t).call) /\ key \notin seen[d]
           THEN /\ seen' = [seen EXCEPT ![d] = mark[1]]
                /\ clears' = [clears EXCEPT ![d] = mark[2]]
                /\ busy' = [busy EXCEPT ![d] = TRUE]
                /\ stack' = there([now EXCEPT !.det = d])
           ELSE /\ stack' = there(now)
                /\ UNCHANGED marks
  BY <1>1, Zenon DEF Visit
<1>4. d \in Detectors /\ Top(t).call \in Calls /\ Top(t).left \in SUBSET Detectors
  BY <1>1, <1>3 DEF Invocation
<1> DEFINE key == <<Top(t).call.trace, Top(t).call.detail>>
           now == [Top(t) EXCEPT !.left = @ \ {d}]
           then == [now EXCEPT !.det = d]
<1>5. /\ now \in Invocation /\ now.call = Top(t).call /\ now.left = Top(t).left \ {d}
      /\ now.det = None
  BY <1>1, <1>4 DEF Invocation
<1>6. then \in Invocation /\ then.call = Top(t).call /\ then.left = Top(t).left \ {d} /\ then.det = d
  BY <1>1, <1>4 DEF Invocation
<1>7. CASE Concerns(d, t, Top(t).call) /\ key \notin seen[d]
  <2>1. key \in Key
    BY <1>4, <1>7, KeyType DEF Concerns
  <2>2. /\ seen' = [seen EXCEPT ![d] = Remembered(d, key)[1]]
        /\ clears' = [clears EXCEPT ![d] = Remembered(d, key)[2]]
        /\ busy' = [busy EXCEPT ![d] = TRUE]
        /\ stack' = [stack EXCEPT ![t] = Front(stack[t]) \o <<then>>]
    BY <1>3, <1>7
  <2>3. KeyOf(then) = key
    BY <1>6 DEF KeyOf
  <2> HIDE DEF key, then
  <2>4. \/ /\ Cardinality(seen[d]) >= MaxSeen
           /\ seen' = [seen EXCEPT ![d] = {key}]
           /\ clears' = [clears EXCEPT ![d] = clears[d] + 1]
        \/ /\ ~ (Cardinality(seen[d]) >= MaxSeen)
           /\ seen' = [seen EXCEPT ![d] = seen[d] \cup {key}]
           /\ clears' = [clears EXCEPT ![d] = clears[d]]
    BY <2>2 DEF Remembered
  <2>5. [clears EXCEPT ![d] = clears[d]] = clears
    BY <1>4 DEF TypeOK
  <2>6. Concerns(d, t, then.call) /\ KeyOf(then) \in Key \ seen[d]
    BY <1>6, <1>7, <2>1, <2>3 DEF key
  <2>7. Begins(t, d, then)
    BY <1>6, <2>2, <2>3, <2>4, <2>5, <2>6 DEF Begins
  <2> QED
    BY <1>1, <1>2, <1>3, <1>4, <1>6, <2>2, <2>7 DEF VisitTo
<1>8. CASE ~ (Concerns(d, t, Top(t).call) /\ key \notin seen[d])
  <2>1. stack' = [stack EXCEPT ![t] = Front(stack[t]) \o <<now>>] /\ UNCHANGED marks
    BY <1>3, <1>8
  <2>2. KeyOf(now) = key
    BY <1>5 DEF KeyOf
  <2> HIDE DEF now
  <2>3. Concerns(d, t, now.call) => KeyOf(now) \in seen[d]
    BY <1>5, <1>8, <2>2
  <2>4. Skips(t, d, now)
    BY <1>5, <2>1, <2>3 DEF Skips, marks
  <2> QED
    BY <1>1, <1>2, <1>3, <1>4, <1>5, <2>1, <2>4 DEF VisitTo
<1> QED
  BY <1>7, <1>8

\* A report is pushed, and its detector is done with the call.
LEMMA EmitIs ==
  ASSUME TypeOK, NEW t \in Threads, Emit(t)
  PROVE  /\ stack[t] # <<>> /\ Top(t) \in Invocation /\ Top(t).det \in Detectors
         /\ UNCHANGED <<registry, enabled, seen, clears, calls, owed>>
         /\ reports' = Append(reports, <<Top(t).det>> \o KeyOf(Top(t)))
         /\ busy' = [busy EXCEPT ![Top(t).det] = FALSE]
         /\ \E x \in Invocation :
              /\ x.call = Top(t).call /\ x.left = Top(t).left /\ x.det = None
              /\ stack' = [stack EXCEPT ![t] = Front(stack[t]) \o <<x>>]
<1>1. stack[t] # <<>> /\ Running(t) = Top(t) /\ Top(t) \in Invocation /\ Top(t).det # None
  BY StackType DEF Emit
<1> DEFINE x == [Top(t) EXCEPT !.det = None]
<1>2. x \in Invocation /\ x.call = Top(t).call /\ x.left = Top(t).left /\ x.det = None
      /\ Top(t).det \in Detectors
  BY <1>1 DEF Invocation
<1>3. /\ UNCHANGED <<registry, enabled, seen, clears, calls, owed>>
      /\ busy' = [busy EXCEPT ![Top(t).det] = FALSE]
      /\ reports' = Append(reports, <<Top(t).det, Top(t).call.trace, Top(t).call.detail>>)
  BY <1>1 DEF Emit
<1>4. stack' = [stack EXCEPT ![t] = Front(stack[t]) \o <<x>>]
  BY <1>1 DEF Emit
<1>5. <<Top(t).det>> \o KeyOf(Top(t)) = <<Top(t).det, Top(t).call.trace, Top(t).call.detail>>
  BY Report DEF KeyOf
<1> HIDE DEF x
<1> QED
  BY <1>1, <1>2, <1>3, <1>4, <1>5

-----------------------------------------------------------------------------
(* Types *)

RegistryTyped ==
  /\ lock \in Detectors \cup {None} /\ flag \in BOOLEAN /\ hooks \in Nat
  /\ op \in [Detectors -> Steady \cup {"ensure", "hook", "flag", "enable", "add", "publish",
                                       "discard", "unpublish"}]
  /\ tid \in [Detectors -> Threads \cup {None}]

MembersTyped ==
  /\ enabled \in [Detectors -> BOOLEAN]
  /\ members \subseteq Detectors /\ dispatch \subseteq Detectors /\ alive \subseteq Detectors

\* A step of a detector's life keeps the types.
LEMMA LifeType ==
  ASSUME TypeOK, NEW d \in Detectors, Life(d)
  PROVE  TypeOK'
<1>1. UNCHANGED <<stack, calls, reports, owed, busy, clears>>
  BY DEF Life, Install, Ensure, Hook, HookFails, Flag, Enable, Add, Publish, Uninstall, Discard,
         Unpublish, Drop, marks, history
<1>2. seen' \in [Detectors -> SUBSET (Traces \X Details)]
  BY DEF Life, Install, Ensure, Hook, HookFails, Flag, Enable, Add, Publish, Uninstall, Discard,
         Unpublish, Drop, marks, TypeOK
<1>3. RegistryTyped /\ MembersTyped
  BY DEF TypeOK, RegistryTyped, MembersTyped
<1>4. RegistryTyped'
  <2> USE <1>3 DEF RegistryTyped, Goes, Takes, Gives, Steady, registry
  <2>1. ASSUME NEW t \in Threads, Install(d, t) PROVE RegistryTyped'
    BY <2>1 DEF Install
  <2>2. CASE Ensure(d)
    BY <2>2 DEF Ensure
  <2>3. CASE Hook(d) \/ HookFails(d)
    BY <2>3 DEF Hook, HookFails
  <2>4. CASE Flag(d) \/ Enable(d)
    BY <2>4 DEF Flag, Enable
  <2>5. CASE Add(d) \/ Publish(d)
    BY <2>5 DEF Add, Publish
  <2>6. CASE Uninstall(d) \/ Discard(d) \/ Unpublish(d)
    BY <2>6 DEF Uninstall, Discard, Unpublish
  <2>7. CASE Drop(d)
    BY <2>7 DEF Drop
  <2> QED
    BY <2>1, <2>2, <2>3, <2>4, <2>5, <2>6, <2>7 DEF Life
<1>5. MembersTyped'
  <2> USE <1>3 DEF MembersTyped, Refresh
  <2>1. ASSUME NEW t \in Threads, Install(d, t) PROVE MembersTyped'
    BY <2>1 DEF Install
  <2>2. CASE Ensure(d) \/ Hook(d) \/ HookFails(d)
    BY <2>2 DEF Ensure, Hook, HookFails
  <2>3. CASE Flag(d) \/ Enable(d)
    BY <2>3 DEF Flag, Enable
  <2>4. CASE Add(d) \/ Publish(d)
    BY <2>4 DEF Add, Publish
  <2>5. CASE Uninstall(d) \/ Discard(d) \/ Unpublish(d)
    BY <2>5 DEF Uninstall, Discard, Unpublish
  <2>6. CASE Drop(d)
    BY <2>6 DEF Drop
  <2> QED
    BY <2>1, <2>2, <2>3, <2>4, <2>5, <2>6 DEF Life
<1> QED
  BY <1>1, <1>2, <1>4, <1>5 DEF TypeOK, RegistryTyped, MembersTyped

\* A thread's stack keeps its type if what the thread does to it does.
LEMMA StackStep ==
  ASSUME TypeOK, NEW t \in Threads, NEW s \in Seq(Invocation), stack' = [stack EXCEPT ![t] = s]
  PROVE  /\ stack' \in [Threads -> Seq([call : Calls, left : SUBSET Detectors,
                                        det : Detectors \cup {None}])]
         /\ stack'[t] = s
         /\ \A u \in Threads : u # t => stack'[u] = stack[u]
<1>1. stack \in [Threads -> Seq(Invocation)]
  BY DEF TypeOK, Invocation
<1> HIDE DEF Invocation
<1>2. /\ stack' \in [Threads -> Seq(Invocation)] /\ stack'[t] = s
      /\ \A u \in Threads : u # t => stack'[u] = stack[u]
  BY <1>1
<1> QED
  BY <1>2 DEF Invocation

\* So does a step of the audit hook.
LEMMA AuditType ==
  ASSUME TypeOK, BusyInv, NEW t \in Threads, Audit(t)
  PROVE  TypeOK'
<1>0. stack[t] \in Seq(Invocation)
  BY StackType
<1>1. ASSUME NEW c \in Calls, Call(t, c)
      PROVE  TypeOK'
  <2> DEFINE new == [call |-> c, left |-> dispatch, det |-> None]
  <2>1. new \in Invocation
    BY <1>1 DEF Invocation, TypeOK
  <2>2. stack' = [stack EXCEPT ![t] = Append(stack[t], new)]
    BY <1>1 DEF Call
  <2> HIDE DEF new
  <2>3. Append(stack[t], new) \in Seq(Invocation)
    BY <1>0, <2>1, AppendProperties
  <2>4. stack' \in [Threads -> Seq([call : Calls, left : SUBSET Detectors,
                                    det : Detectors \cup {None}])]
    BY <2>2, <2>3, StackStep
  <2>5. calls' \in 0 .. MaxCalls
    BY <1>1 DEF Call, TypeOK
  <2>6. owed' \in [Detectors -> SUBSET (Traces \X Details)]
    <3>1. CASE None \in {c.trace, c.detail}
      BY <1>1, <3>1 DEF Call, TypeOK
    <3>2. CASE None \notin {c.trace, c.detail}
      <4>1. <<c.trace, c.detail>> \in Traces \X Details
        BY <3>2 DEF Calls
      <4>2. owed' = [e \in Detectors |-> IF e \in Owing(t) THEN owed[e] \cup {<<c.trace, c.detail>>}
                                         ELSE owed[e]]
        BY <1>1, <3>2 DEF Call
      <4>3. owed \in [Detectors -> SUBSET (Traces \X Details)]
        BY DEF TypeOK
      <4> QED
        BY <4>1, <4>2, <4>3
    <3> QED
      BY <3>1, <3>2
  <2>7. UNCHANGED <<registry, enabled, marks, reports>>
    BY <1>1 DEF Call
  <2> QED
    BY <2>4, <2>5, <2>6, <2>7 DEF TypeOK, registry, marks
<1>2. CASE Visit(t)
  <2>1. stack[t] # <<>> /\ UNCHANGED <<registry, enabled, history>>
    BY <1>2, VisitIs
  <2>2. PICK d \in Detectors, x \in Invocation : VisitTo(t, d, x)
    BY <1>2, VisitIs
  <2>3. Front(stack[t]) \o <<x>> \in Seq(Invocation)
    BY <1>0, <2>1, Replacing
  <2>4. stack' \in [Threads -> Seq([call : Calls, left : SUBSET Detectors,
                                    det : Detectors \cup {None}])]
    BY <2>2, <2>3, StackStep DEF VisitTo
  <2>5. /\ busy \in [Detectors -> BOOLEAN] /\ clears \in [Detectors -> Nat]
        /\ seen \in [Detectors -> SUBSET Key]
    BY DEF TypeOK, Key
  <2>6. busy' \in [Detectors -> BOOLEAN]
    BY <2>2, <2>5 DEF VisitTo, Begins, Skips
  <2>7. clears' \in [Detectors -> Nat]
    <3>1. clears' = clears \/ clears' = [clears EXCEPT ![d] = clears[d] + 1]
      BY <2>2 DEF VisitTo, Begins, Skips
    <3> QED
      BY <2>5, <3>1
  <2>8. seen' \in [Detectors -> SUBSET Key]
    <3>1. seen' = seen \/ \E S \in SUBSET Key : seen' = [seen EXCEPT ![d] = S]
      <4>1. seen[d] \in SUBSET Key
        BY <2>5
      <4>2. CASE Begins(t, d, x)
        <5>1. {KeyOf(x)} \in SUBSET Key /\ seen[d] \cup {KeyOf(x)} \in SUBSET Key
          BY <4>1, <4>2 DEF Begins
        <5> QED
          BY <4>2, <5>1, Zenon DEF Begins
      <4> QED
        BY <2>2, <4>2 DEF VisitTo, Skips
    <3> QED
      BY <2>5, <3>1
  <2> QED
    BY <2>1, <2>4, <2>6, <2>7, <2>8 DEF TypeOK, registry, history, Key
<1>3. CASE Emit(t)
  <2>1. /\ stack[t] # <<>> /\ Top(t) \in Invocation /\ Top(t).det \in Detectors
        /\ UNCHANGED <<registry, enabled, seen, clears, calls, owed>>
        /\ reports' = Append(reports, <<Top(t).det>> \o KeyOf(Top(t)))
        /\ busy' = [busy EXCEPT ![Top(t).det] = FALSE]
    BY <1>3, EmitIs
  <2>2. PICK x \in Invocation : stack' = [stack EXCEPT ![t] = Front(stack[t]) \o <<x>>]
    BY <1>3, EmitIs
  <2>3. Front(stack[t]) \o <<x>> \in Seq(Invocation)
    BY <1>0, <2>1, Replacing
  <2>4. stack' \in [Threads -> Seq([call : Calls, left : SUBSET Detectors,
                                    det : Detectors \cup {None}])]
    BY <2>2, <2>3, StackStep
  <2>5. busy' \in [Detectors -> BOOLEAN]
    BY <2>1 DEF TypeOK
  <2>6. reports' \in Seq(Detectors \X Traces \X Details)
    <3>1. KeyOf(Top(t)) \in Key
      BY <2>1, StackType DEF BusyInv, Top
    <3>2. <<Top(t).det>> \o KeyOf(Top(t)) = <<Top(t).det, Top(t).call.trace, Top(t).call.detail>>
      BY Report DEF KeyOf
    <3>3. <<Top(t).det>> \o KeyOf(Top(t)) \in Detectors \X Traces \X Details
      BY <2>1, <3>1, <3>2 DEF KeyOf, Key
    <3>4. reports \in Seq(Detectors \X Traces \X Details)
      BY DEF TypeOK
    <3> QED
      BY <2>1, <3>3, <3>4, AppendProperties
  <2> QED
    BY <2>1, <2>4, <2>5, <2>6 DEF TypeOK, registry
<1>4. CASE Leave(t)
  <2>1. stack[t] # <<>> /\ stack' = [stack EXCEPT ![t] = Front(stack[t])]
        /\ UNCHANGED <<registry, enabled, marks, history>>
    BY <1>4 DEF Leave
  <2>2. Front(stack[t]) \in Seq(Invocation)
    BY <1>0, <2>1, Popping
  <2>3. stack' \in [Threads -> Seq([call : Calls, left : SUBSET Detectors,
                                    det : Detectors \cup {None}])]
    BY <2>1, <2>2, StackStep
  <2> QED
    BY <2>1, <2>3 DEF TypeOK, registry, marks, history
<1> QED
  BY <1>1, <1>2, <1>3, <1>4 DEF Audit

-----------------------------------------------------------------------------
(* The stacks, invocation by invocation *)

\* An audited call is put on top of its thread's stack, and of no other.
LEMMA Entering ==
  ASSUME TypeOK, NEW t \in Threads, NEW x \in Invocation,
         stack' = [stack EXCEPT ![t] = Append(stack[t], x)]
  PROVE  /\ stack'[t][Len(stack[t]) + 1] = x
         /\ \A u \in Threads :
              /\ Len(stack[u]) \in Nat
              /\ Len(stack'[u]) = IF u = t THEN Len(stack[u]) + 1 ELSE Len(stack[u])
              /\ \A i \in 1 .. Len(stack[u]) : stack'[u][i] = stack[u][i]
<1>1. /\ Append(stack[t], x) \in Seq(Invocation)
      /\ Len(Append(stack[t], x)) = Len(stack[t]) + 1
      /\ \A i \in 1 .. Len(stack[t]) : Append(stack[t], x)[i] = stack[t][i]
      /\ Append(stack[t], x)[Len(stack[t]) + 1] = x
  BY StackType, Pushing
<1>2. stack'[t] = Append(stack[t], x) /\ \A u \in Threads : u # t => stack'[u] = stack[u]
  BY <1>1, StackStep
<1>3. \A u \in Threads : Len(stack[u]) \in Nat
  BY StackType
<1> QED
  BY <1>1, <1>2, <1>3

\* A turn of the hook changes the top of its thread's stack only.
LEMMA GoingOn ==
  ASSUME TypeOK, NEW t \in Threads, stack[t] # <<>>, NEW x \in Invocation,
         stack' = [stack EXCEPT ![t] = Front(stack[t]) \o <<x>>]
  PROVE  /\ Len(stack[t]) \in 1 .. Len(stack[t])
         /\ \A u \in Threads :
              /\ Len(stack[u]) \in Nat
              /\ Len(stack'[u]) = Len(stack[u])
              /\ \A i \in 1 .. Len(stack[u]) :
                   stack'[u][i] = IF u = t /\ i = Len(stack[t]) THEN x ELSE stack[u][i]
<1> DEFINE s == Front(stack[t]) \o <<x>>
<1>0. stack[t] \in Seq(Invocation)
  BY StackType
<1>1. /\ s \in Seq(Invocation) /\ Len(s) = Len(stack[t]) /\ Len(stack[t]) \in 1 .. Len(stack[t])
      /\ \A i \in 1 .. Len(stack[t]) : s[i] = IF i = Len(stack[t]) THEN x ELSE stack[t][i]
  <2> DEFINE q == stack[t]
  <2>1. q \in Seq(Invocation) /\ q # <<>>
    BY <1>0
  <2> HIDE DEF q
  <2>2. /\ Front(q) \o <<x>> \in Seq(Invocation)
        /\ Len(Front(q) \o <<x>>) = Len(q) /\ Len(q) \in 1 .. Len(q)
        /\ \A i \in 1 .. Len(q) : (Front(q) \o <<x>>)[i] = IF i = Len(q) THEN x ELSE q[i]
    BY <2>1, Replacing
  <2> QED
    BY <2>2 DEF q
<1> HIDE DEF s
<1>2. stack'[t] = s /\ \A u \in Threads : u # t => stack'[u] = stack[u]
  BY <1>1, StackStep DEF s
<1>3. \A u \in Threads : Len(stack[u]) \in Nat
  BY StackType
<1> QED
  BY <1>1, <1>2, <1>3

\* When every detector has had its turn the call is taken off.
LEMMA Leaving ==
  ASSUME TypeOK, NEW t \in Threads, Leave(t)
  PROVE  /\ stack[t] # <<>> /\ Top(t).det = None /\ Top(t).left = {}
         /\ Len(stack[t]) \in 1 .. Len(stack[t])
         /\ \A u \in Threads :
              /\ Len(stack[u]) \in Nat
              /\ Len(stack'[u]) = IF u = t THEN Len(stack[u]) - 1 ELSE Len(stack[u])
              /\ \A i \in 1 .. Len(stack'[u]) : stack'[u][i] = stack[u][i]
<1>1. /\ stack[t] # <<>> /\ Top(t).det = None /\ Top(t).left = {}
      /\ stack' = [stack EXCEPT ![t] = Front(stack[t])]
  BY StackType DEF Leave
<1> DEFINE s == Front(stack[t])
<1>2. /\ s \in Seq(Invocation) /\ Len(s) = Len(stack[t]) - 1 /\ Len(stack[t]) \in 1 .. Len(stack[t])
      /\ \A i \in 1 .. Len(stack[t]) - 1 : s[i] = stack[t][i]
  BY <1>1, StackType, Popping
<1> HIDE DEF s
<1>3. stack'[t] = s /\ \A u \in Threads : u # t => stack'[u] = stack[u]
  BY <1>1, <1>2, StackStep DEF s
<1>4. \A u \in Threads : Len(stack[u]) \in Nat
  BY StackType
<1> QED
  BY <1>1, <1>2, <1>3, <1>4

-----------------------------------------------------------------------------
(* Reports under way *)

\* A step that begins no report and ends none of the marks of those that go on.
LEMMA KeepsBusy ==
  ASSUME TypeOK, BusyInv,
         \A u \in Threads : \A i \in 1 .. Len(stack'[u]) : stack'[u][i].det # None =>
           /\ i \in 1 .. Len(stack[u]) /\ stack'[u][i] = stack[u][i]
           /\ busy[stack[u][i].det] => busy'[stack[u][i].det]
  PROVE  BusyInv'
<1> SUFFICES ASSUME NEW t \in Threads, NEW i \in 1 .. Len(stack'[t]), stack'[t][i].det # None
             PROVE  /\ busy'[stack'[t][i].det]
                    /\ KeyOf(stack'[t][i]) \in Key
                    /\ \A u \in Threads : \A j \in 1 .. Len(stack'[u]) :
                         stack'[u][j].det = stack'[t][i].det => u = t /\ j = i
  BY Zenon DEF BusyInv, KeyOf
<1>1. i \in 1 .. Len(stack[t]) /\ stack'[t][i] = stack[t][i]
  OBVIOUS
<1>2. /\ busy[stack[t][i].det] /\ KeyOf(stack[t][i]) \in Key
      /\ \A u \in Threads : \A j \in 1 .. Len(stack[u]) :
           stack[u][j].det = stack[t][i].det => u = t /\ j = i
  BY <1>1 DEF BusyInv
<1>3. ASSUME NEW u \in Threads, NEW j \in 1 .. Len(stack'[u]),
             stack'[u][j].det = stack'[t][i].det
      PROVE  u = t /\ j = i
  <2>1. j \in 1 .. Len(stack[u]) /\ stack'[u][j] = stack[u][j]
    BY <1>3
  <2> QED
    BY <1>1, <1>2, <1>3, <2>1
<1>4. busy'[stack'[t][i].det] /\ KeyOf(stack'[t][i]) \in Key
  BY <1>1, <1>2
<1> QED
  BY <1>3, <1>4

\* A detector is marked busy while a call on some stack is in its hands.
LEMMA AuditBusy ==
  ASSUME TypeOK, BusyInv, NEW t \in Threads, Audit(t)
  PROVE  BusyInv'
<1>1. ASSUME NEW c \in Calls, Call(t, c)
      PROVE  BusyInv'
  <2> DEFINE new == [call |-> c, left |-> dispatch, det |-> None]
  <2>1. new \in Invocation /\ new.det = None
    BY <1>1 DEF Invocation, TypeOK
  <2>2. stack' = [stack EXCEPT ![t] = Append(stack[t], new)] /\ busy' = busy
    BY <1>1 DEF Call, marks
  <2> HIDE DEF new
  <2>3. /\ stack'[t][Len(stack[t]) + 1] = new
        /\ \A u \in Threads :
             /\ Len(stack[u]) \in Nat
             /\ Len(stack'[u]) = IF u = t THEN Len(stack[u]) + 1 ELSE Len(stack[u])
             /\ \A i \in 1 .. Len(stack[u]) : stack'[u][i] = stack[u][i]
    BY <2>1, <2>2, Entering
  <2>4. ASSUME NEW u \in Threads, NEW i \in 1 .. Len(stack'[u]), stack'[u][i].det # None
        PROVE  i \in 1 .. Len(stack[u]) /\ stack'[u][i] = stack[u][i]
    BY <2>1, <2>3, <2>4
  <2> QED
    BY <2>2, <2>4, KeepsBusy
<1>2. CASE Visit(t)
  <2>1. stack[t] # <<>>
    BY <1>2, VisitIs
  <2>2. PICK d \in Detectors, x \in Invocation : VisitTo(t, d, x)
    BY <1>2, VisitIs
  <2>3. \A u \in Threads :
          /\ Len(stack[u]) \in Nat
          /\ Len(stack'[u]) = Len(stack[u])
          /\ \A i \in 1 .. Len(stack[u]) :
               stack'[u][i] = IF u = t /\ i = Len(stack[t]) THEN x ELSE stack[u][i]
    BY <2>1, <2>2, GoingOn DEF VisitTo
  <2>4. CASE Begins(t, d, x)
    <3>1. /\ x.det = d /\ KeyOf(x) \in Key /\ ~ busy[d]
          /\ busy' = [busy EXCEPT ![d] = TRUE]
      BY <2>4 DEF Begins, Concerns
    <3>2. d # None
      OBVIOUS
    <3>3. \A u \in Threads : \A i \in 1 .. Len(stack[u]) : stack[u][i].det # d
      BY <3>1, <3>2 DEF BusyInv
    <3>4. busy'[d] /\ \A e \in Detectors : busy[e] => busy'[e]
      BY <3>1 DEF TypeOK
    <3>5. SUFFICES ASSUME NEW u \in Threads, NEW i \in 1 .. Len(stack'[u]), stack'[u][i].det # None
                   PROVE  /\ busy'[stack'[u][i].det]
                          /\ KeyOf(stack'[u][i]) \in Key
                          /\ \A v \in Threads : \A j \in 1 .. Len(stack'[v]) :
                               stack'[v][j].det = stack'[u][i].det => v = u /\ j = i
      BY Zenon DEF BusyInv, KeyOf
    <3>6. CASE u = t /\ i = Len(stack[t])
      BY <2>3, <3>1, <3>3, <3>4, <3>6
    <3>7. CASE ~ (u = t /\ i = Len(stack[t]))
      <4>1. i \in 1 .. Len(stack[u]) /\ stack'[u][i] = stack[u][i]
        BY <2>3, <3>7
      <4>2. stack[u][i].det \in Detectors
        BY <3>5, <4>1, StackType DEF Invocation
      <4>3. busy'[stack'[u][i].det] /\ KeyOf(stack'[u][i]) \in Key
        BY <3>4, <3>5, <4>1, <4>2 DEF BusyInv
      <4>4. \A v \in Threads : \A j \in 1 .. Len(stack[v]) :
              stack[v][j].det = stack[u][i].det => v = u /\ j = i
        BY <3>5, <4>1 DEF BusyInv
      <4> QED
        BY <2>3, <3>1, <3>3, <4>1, <4>3, <4>4
    <3> QED
      BY <3>6, <3>7
  <2>5. CASE Skips(t, d, x)
    <3>1. x.det = None /\ busy' = busy
      BY <2>5 DEF Skips
    <3>2. ASSUME NEW u \in Threads, NEW i \in 1 .. Len(stack'[u]), stack'[u][i].det # None
          PROVE  i \in 1 .. Len(stack[u]) /\ stack'[u][i] = stack[u][i]
      BY <2>3, <3>1, <3>2
    <3> QED
      BY <3>1, <3>2, KeepsBusy
  <2> QED
    BY <2>2, <2>4, <2>5 DEF VisitTo
<1>3. CASE Emit(t)
  <2>1. /\ stack[t] # <<>> /\ Top(t).det \in Detectors
        /\ busy' = [busy EXCEPT ![Top(t).det] = FALSE]
    BY <1>3, EmitIs
  <2>2. PICK x \in Invocation :
          /\ x.call = Top(t).call /\ x.left = Top(t).left /\ x.det = None
          /\ stack' = [stack EXCEPT ![t] = Front(stack[t]) \o <<x>>]
    BY <1>3, EmitIs
  <2>3. /\ Len(stack[t]) \in 1 .. Len(stack[t])
        /\ \A u \in Threads :
             /\ Len(stack[u]) \in Nat
             /\ Len(stack'[u]) = Len(stack[u])
             /\ \A i \in 1 .. Len(stack[u]) :
                  stack'[u][i] = IF u = t /\ i = Len(stack[t]) THEN x ELSE stack[u][i]
    BY <2>1, <2>2, GoingOn
  <2>4. Top(t).det # None
    BY <2>1
  <2>5. ASSUME NEW u \in Threads, NEW i \in 1 .. Len(stack'[u]), stack'[u][i].det # None
        PROVE  /\ i \in 1 .. Len(stack[u]) /\ stack'[u][i] = stack[u][i]
               /\ stack[u][i].det # Top(t).det
    <3>1. i \in 1 .. Len(stack[u]) /\ ~ (u = t /\ i = Len(stack[t])) /\ stack'[u][i] = stack[u][i]
      BY <2>2, <2>3, <2>5
    <3>2. stack[u][i].det # Top(t).det
      BY <2>3, <2>4, <3>1 DEF BusyInv, Top
    <3> QED
      BY <3>1, <3>2
  <2>6. ASSUME NEW u \in Threads, NEW i \in 1 .. Len(stack'[u]), stack'[u][i].det # None,
               busy[stack[u][i].det]
        PROVE  busy'[stack[u][i].det]
    <3>1. stack[u][i].det \in Detectors /\ stack[u][i].det # Top(t).det
      BY <2>5, <2>6, StackType DEF Invocation
    <3> QED
      BY <2>1, <2>6, <3>1 DEF TypeOK
  <2> QED
    BY <2>5, <2>6, KeepsBusy
<1>4. CASE Leave(t)
  <2>1. busy' = busy
    BY <1>4 DEF Leave, marks
  <2>2. ASSUME NEW u \in Threads, NEW i \in 1 .. Len(stack'[u])
        PROVE  i \in 1 .. Len(stack[u]) /\ stack'[u][i] = stack[u][i]
    BY <1>4, <2>2, Leaving
  <2> QED
    BY <2>1, <2>2, KeepsBusy
<1> QED
  BY <1>1, <1>2, <1>3, <1>4 DEF Audit

\* Every step keeps the types.
LEMMA StepTyped == TypeOK /\ BusyInv /\ [Next]_vars => TypeOK' /\ BusyInv'
<1> SUFFICES ASSUME TypeOK, BusyInv, [Next]_vars PROVE TypeOK' /\ BusyInv'
  OBVIOUS
<1>1. ASSUME NEW d \in Detectors, Life(d)
      PROVE  TypeOK' /\ BusyInv'
  <2>1. stack' = stack /\ busy' = busy
    BY <1>1 DEF Life, Install, Ensure, Hook, HookFails, Flag, Enable, Add, Publish, Uninstall,
                Discard, Unpublish, Drop, marks
  <2> QED
    BY <1>1, <2>1, LifeType DEF BusyInv
<1>2. ASSUME NEW t \in Threads, Audit(t)
      PROVE  TypeOK' /\ BusyInv'
  BY <1>2, AuditType, AuditBusy
<1>3. CASE UNCHANGED vars
  <2>1. /\ UNCHANGED <<lock, flag, hooks, members, dispatch, alive, op, tid>>
        /\ UNCHANGED <<enabled, seen, clears, busy, stack, calls, reports, owed>>
    BY <1>3 DEF vars, registry, marks, history
  <2>2. TypeOK'
    BY <2>1 DEF TypeOK
  <2> QED
    BY <2>1, <2>2, KeepsBusy
<1> QED
  BY <1>1, <1>2, <1>3 DEF Next

-----------------------------------------------------------------------------
(* The registry *)

\* The lock has the holder that is doing something under it.
LEMMA LifeLock ==
  ASSUME TypeOK, LockInv, NEW d \in Detectors, Life(d)
  PROVE  LockInv'
<1> USE DEF TypeOK, LockInv, Goes, Takes, Gives
<1>1. ASSUME NEW t \in Threads, Install(d, t) PROVE LockInv'
  BY <1>1 DEF Install
<1>2. CASE Ensure(d)
  BY <1>2 DEF Ensure
<1>3. CASE Hook(d)
  BY <1>3 DEF Hook
<1>4. CASE HookFails(d)
  BY <1>4 DEF HookFails
<1>5. CASE Flag(d)
  BY <1>5 DEF Flag
<1>6. CASE Enable(d)
  BY <1>6 DEF Enable
<1>7. CASE Add(d)
  BY <1>7 DEF Add
<1>8. CASE Publish(d)
  BY <1>8 DEF Publish
<1>9. CASE Uninstall(d)
  BY <1>9 DEF Uninstall
<1>10. CASE Discard(d)
  BY <1>10 DEF Discard
<1>11. CASE Unpublish(d)
  BY <1>11 DEF Unpublish
<1>12. CASE Drop(d)
  BY <1>12 DEF Drop
<1> QED
  BY <1>1, <1>2, <1>3, <1>4, <1>5, <1>6, <1>7, <1>8, <1>9, <1>10, <1>11, <1>12 DEF Life

\* The hook is added once, by the holder that found the flag down.
LEMMA LifeHook ==
  ASSUME TypeOK, LockInv, HookInv, NEW d \in Detectors, Life(d)
  PROVE  HookInv'
<1> USE DEF TypeOK, LockInv, HookInv, Goes, Takes, Gives
<1>1. ASSUME NEW t \in Threads, Install(d, t) PROVE HookInv'
  BY <1>1 DEF Install
<1>2. CASE Ensure(d)
  BY <1>2 DEF Ensure
<1>3. CASE Hook(d)
  BY <1>3 DEF Hook
<1>4. CASE HookFails(d)
  BY <1>4 DEF HookFails
<1>5. CASE Flag(d)
  BY <1>5 DEF Flag
<1>6. CASE Enable(d)
  BY <1>6 DEF Enable
<1>7. CASE Add(d)
  BY <1>7 DEF Add
<1>8. CASE Publish(d)
  BY <1>8 DEF Publish
<1>9. CASE Uninstall(d)
  BY <1>9 DEF Uninstall
<1>10. CASE Discard(d)
  BY <1>10 DEF Discard
<1>11. CASE Unpublish(d)
  BY <1>11 DEF Unpublish
<1>12. CASE Drop(d)
  BY <1>12 DEF Drop
<1> QED
  BY <1>1, <1>2, <1>3, <1>4, <1>5, <1>6, <1>7, <1>8, <1>9, <1>10, <1>11, <1>12 DEF Life

\* The snapshot is that of the registry, except under the lock.
LEMMA LifeMember ==
  ASSUME TypeOK, LockInv, MemberInv, NEW d \in Detectors, Life(d)
  PROVE  MemberInv'
<1> USE DEF TypeOK, LockInv, MemberInv, Goes, Takes, Gives, Refresh
<1>1. ASSUME NEW t \in Threads, Install(d, t) PROVE MemberInv'
  BY <1>1 DEF Install
<1>2. CASE Ensure(d)
  BY <1>2 DEF Ensure
<1>3. CASE Hook(d)
  BY <1>3 DEF Hook
<1>4. CASE HookFails(d)
  BY <1>4 DEF HookFails
<1>5. CASE Flag(d)
  BY <1>5 DEF Flag
<1>6. CASE Enable(d)
  BY <1>6 DEF Enable
<1>7. CASE Add(d)
  BY <1>7 DEF Add
<1>8. CASE Publish(d)
  BY <1>8 DEF Publish
<1>9. CASE Uninstall(d)
  BY <1>9 DEF Uninstall
<1>10. CASE Discard(d)
  BY <1>10 DEF Discard
<1>11. CASE Unpublish(d)
  BY <1>11 DEF Unpublish
<1>12. CASE Drop(d)
  BY <1>12 DEF Drop
<1> QED
  BY <1>1, <1>2, <1>3, <1>4, <1>5, <1>6, <1>7, <1>8, <1>9, <1>10, <1>11, <1>12 DEF Life

\* Nothing is installed and nothing audited at first.
LEMMA InitRegistry == Init => TypeOK /\ BusyInv /\ RegistryInv /\ ThreadInv /\ QuietWhenOff
<1> SUFFICES ASSUME Init PROVE TypeOK /\ BusyInv /\ RegistryInv /\ ThreadInv /\ QuietWhenOff
  OBVIOUS
<1>1. TypeOK
  <2>2. /\ stack \in [Threads -> Seq([call : Calls, left : SUBSET Detectors,
                                     det : Detectors \cup {None}])]
        /\ reports \in Seq(Detectors \X Traces \X Details)
    BY DEF Init
  <2>3. /\ lock \in Detectors \cup {None} /\ hooks \in Nat /\ calls \in 0 .. MaxCalls
        /\ {members, dispatch, alive} \subseteq SUBSET Detectors
        /\ op \in [Detectors -> Steady \cup {"ensure", "hook", "flag", "enable", "add", "publish",
                                             "discard", "unpublish"}]
        /\ tid \in [Detectors -> Threads \cup {None}]
        /\ seen \in [Detectors -> SUBSET (Traces \X Details)]
        /\ clears \in [Detectors -> Nat]
        /\ owed \in [Detectors -> SUBSET (Traces \X Details)]
    BY DEF Init, Steady
  <2>4. flag \in BOOLEAN /\ enabled \in [Detectors -> BOOLEAN] /\ busy \in [Detectors -> BOOLEAN]
    BY Zenon DEF Init
  <2> QED
    BY <2>2, <2>3, <2>4 DEF TypeOK
<1>2. BusyInv /\ QuietWhenOff
  BY DEF Init, BusyInv, QuietWhenOff
<1>3. LockInv /\ HookInv /\ MemberInv
  BY DEF Init, LockInv, HookInv, MemberInv
<1>4. ThreadInv
  BY DEF Init, ThreadInv, Steady
<1> QED
  BY <1>1, <1>2, <1>3, <1>4 DEF RegistryInv

\* Every step keeps the lock, the hook and the registry as they should be.
LEMMA StepRegistry ==
  TypeOK /\ BusyInv /\ RegistryInv /\ [Next]_vars => TypeOK' /\ BusyInv' /\ RegistryInv'
<1> SUFFICES ASSUME TypeOK, BusyInv, RegistryInv, [Next]_vars PROVE RegistryInv'
  BY StepTyped
<1>1. ASSUME NEW d \in Detectors, Life(d)
      PROVE  RegistryInv'
  BY <1>1, LifeLock, LifeHook, LifeMember DEF RegistryInv
<1>2. ASSUME UNCHANGED registry
      PROVE  RegistryInv'
  BY <1>2 DEF registry, RegistryInv, LockInv, HookInv, MemberInv
<1>3. ASSUME NEW t \in Threads, Audit(t)
      PROVE  UNCHANGED registry
  BY <1>3 DEF Audit, Call, Visit, Emit, Leave
<1> QED
  BY <1>1, <1>2, <1>3 DEF Next, vars

\* The process never has two hooks, and the snapshot serves those that are
\* installed, however many applications come and go at once on however many
\* threads (blockingcalls.py:82-110, 173-188).
THEOREM RegistryIsSoundAlways == Spec => []RegistryIsSound
<1>1. TypeOK /\ RegistryInv => RegistryIsSound
  <2> SUFFICES ASSUME TypeOK, RegistryInv PROVE RegistryIsSound
    OBVIOUS
  <2>1. OneHook
    BY DEF RegistryInv, HookInv, OneHook
  <2>2. SnapshotIsCurrent
    BY DEF TypeOK, RegistryInv, MemberInv, SnapshotIsCurrent
  <2> QED
    BY <2>1, <2>2 DEF RegistryIsSound
<1> QED
  BY InitRegistry, StepRegistry, <1>1, PTL DEF Spec

-----------------------------------------------------------------------------
(* The thread of a detector *)

\* A detector is put in and taken out by its thread, outside the hook.
LEMMA LifeThread ==
  ASSUME TypeOK, ThreadInv, NEW d \in Detectors, Life(d)
  PROVE  ThreadInv'
<1> USE DEF TypeOK, ThreadInv, Goes, Steady, marks
<1>1. ASSUME NEW t \in Threads, Install(d, t) PROVE ThreadInv'
  BY <1>1 DEF Install, Idle
<1>2. CASE Ensure(d)
  BY <1>2 DEF Ensure
<1>3. CASE Hook(d)
  BY <1>3 DEF Hook
<1>4. CASE HookFails(d)
  BY <1>4 DEF HookFails
<1>5. CASE Flag(d)
  BY <1>5 DEF Flag
<1>6. CASE Enable(d)
  BY <1>6 DEF Enable
<1>7. CASE Add(d)
  BY <1>7 DEF Add
<1>8. CASE Publish(d)
  BY <1>8 DEF Publish
<1>9. CASE Uninstall(d)
  BY <1>9 DEF Uninstall, Idle
<1>10. CASE Discard(d)
  BY <1>10 DEF Discard
<1>11. CASE Unpublish(d)
  BY <1>11 DEF Unpublish
<1>12. CASE Drop(d)
  BY <1>12 DEF Drop
<1> QED
  BY <1>1, <1>2, <1>3, <1>4, <1>5, <1>6, <1>7, <1>8, <1>9, <1>10, <1>11, <1>12 DEF Life

\* Nobody's report is under way while its detector is uninstalled.
LEMMA LifeQuiet ==
  ASSUME TypeOK, ThreadInv, QuietWhenOff, NEW d \in Detectors, Life(d)
  PROVE  QuietWhenOff'
<1>1. stack' = stack
  BY DEF Life, Install, Ensure, Hook, HookFails, Flag, Enable, Add, Publish, Uninstall, Discard,
         Unpublish, Drop
<1>2. \A e \in Detectors : e # d => tid'[e] = tid[e] /\ op'[e] = op[e]
  BY DEF Life, Install, Ensure, Hook, HookFails, Flag, Enable, Add, Publish, Uninstall, Discard,
         Unpublish, Drop, Goes, TypeOK
<1>3. CASE Uninstall(d)
  <2>1. op[d] = "on" /\ tid[d] \in Threads /\ stack[tid[d]] = <<>>
    BY <1>3 DEF Uninstall, Goes, Idle, ThreadInv
  <2>2. \A t \in Threads : \A i \in DOMAIN stack[t] : stack[t][i].det # d
    BY <2>1 DEF QuietWhenOff
  <2>3. \A t \in Threads : \A i \in DOMAIN stack[t] : stack[t][i].det \in Detectors \cup {None}
    BY StackType DEF Invocation
  <2> QED
    BY <1>1, <1>2, <2>2, <2>3 DEF QuietWhenOff
<1>4. CASE ~ Uninstall(d)
  <2>1. op[d] = "on" => op'[d] = "on" /\ tid'[d] = tid[d]
    BY <1>4 DEF Life, Install, Ensure, Hook, HookFails, Flag, Enable, Add, Publish, Discard,
                Unpublish, Drop, Goes, TypeOK
  <2>2. \A t \in Threads : \A i \in DOMAIN stack[t] : stack[t][i].det \in Detectors \cup {None}
    BY StackType DEF Invocation
  <2> QED
    BY <1>1, <1>2, <2>1, <2>2 DEF QuietWhenOff
<1> QED
  BY <1>3, <1>4

\* A thread in the hook belongs to no detector on its way.
LEMMA InHook ==
  ASSUME ThreadInv, NEW t \in Threads, Audit(t), NEW d \in Detectors, tid[d] = t
  PROVE  op[d] \in Steady
BY DEF ThreadInv, Audit, Call, MayCall, Idle, Visit, Emit, Leave

\* A step of the hook interferes with no detector's life.
LEMMA AuditThread ==
  ASSUME TypeOK, BusyInv, ThreadInv, NEW t \in Threads, Audit(t)
  PROVE  ThreadInv'
<1>1. UNCHANGED <<op, tid, enabled>>
  BY DEF Audit, Call, Visit, Emit, Leave, registry
<1>2. \A u \in Threads : u # t => stack'[u] = stack[u]
  BY DEF Audit, Call, Visit, Emit, Leave, TypeOK
<1>3. ASSUME NEW d \in Detectors, op[d] = "new"
      PROVE  seen'[d] = {}
  <2>1. seen[d] = {} /\ ~ enabled[d]
    BY <1>3 DEF ThreadInv
  <2>2. CASE Visit(t)
    <3>1. PICK e \in Detectors, x \in Invocation : VisitTo(t, e, x)
      BY <2>2, VisitIs
    <3>2. CASE Begins(t, e, x)
      <4>1. e # d
        BY <2>1, <3>2 DEF Begins, Concerns
      <4> QED
        BY <2>1, <3>2, <4>1 DEF Begins, TypeOK
    <3>3. CASE Skips(t, e, x)
      BY <2>1, <3>3 DEF Skips
    <3> QED
      BY <3>1, <3>2, <3>3 DEF VisitTo
  <2>3. CASE ~ Visit(t)
    BY <2>1, <2>3 DEF Audit, Call, Emit, Leave, marks
  <2> QED
    BY <2>2, <2>3
<1>4. ASSUME NEW d \in Detectors, op[d] \notin Steady
      PROVE  stack'[tid[d]] = <<>>
  BY <1>2, <1>4, InHook DEF ThreadInv, Steady
<1> QED
  BY <1>1, <1>3, <1>4 DEF ThreadInv

\* What the hook reports is of a detector of its thread that is on.
LEMMA AuditQuiet ==
  ASSUME TypeOK, BusyInv, ThreadInv, QuietWhenOff, NEW t \in Threads, Audit(t)
  PROVE  QuietWhenOff'
<1>1. UNCHANGED <<op, tid>>
  BY DEF Audit, Call, Visit, Emit, Leave, registry
<1>2. TypeOK'
  BY AuditType
<1>3. SUFFICES ASSUME NEW u \in Threads, NEW i \in 1 .. Len(stack'[u]), stack'[u][i].det # None
               PROVE  tid[stack'[u][i].det] = u /\ op[stack'[u][i].det] = "on"
  <2>1. \A u \in Threads : DOMAIN stack'[u] = 1 .. Len(stack'[u])
    <3>1. stack' \in [Threads -> Seq(Invocation)]
      BY <1>2 DEF TypeOK, Invocation
    <3> QED
      BY <3>1, LenProperties
  <2> QED
    BY <1>1, <2>1 DEF QuietWhenOff
<1>4. \A v \in Threads : \A j \in 1 .. Len(stack[v]) : stack[v][j].det # None =>
        tid[stack[v][j].det] = v /\ op[stack[v][j].det] = "on"
  BY StackType DEF QuietWhenOff
<1>5. ASSUME NEW c \in Calls, Call(t, c)
      PROVE  i \in 1 .. Len(stack[u]) /\ stack'[u][i] = stack[u][i]
  <2> DEFINE new == [call |-> c, left |-> dispatch, det |-> None]
  <2>1. new \in Invocation /\ new.det = None
    BY <1>5 DEF Invocation, TypeOK
  <2>2. stack' = [stack EXCEPT ![t] = Append(stack[t], new)]
    BY <1>5 DEF Call
  <2> HIDE DEF new
  <2>3. /\ stack'[t][Len(stack[t]) + 1] = new
        /\ \A v \in Threads :
             /\ Len(stack[v]) \in Nat
             /\ Len(stack'[v]) = IF v = t THEN Len(stack[v]) + 1 ELSE Len(stack[v])
             /\ \A j \in 1 .. Len(stack[v]) : stack'[v][j] = stack[v][j]
    BY <2>1, <2>2, Entering
  <2> QED
    BY <1>3, <2>1, <2>3
<1>6. CASE Visit(t)
  <2>1. stack[t] # <<>>
    BY <1>6, VisitIs
  <2>2. PICK d \in Detectors, x \in Invocation : VisitTo(t, d, x)
    BY <1>6, VisitIs
  <2>3. \A v \in Threads :
          /\ Len(stack[v]) \in Nat
          /\ Len(stack'[v]) = Len(stack[v])
          /\ \A j \in 1 .. Len(stack[v]) :
               stack'[v][j] = IF v = t /\ j = Len(stack[t]) THEN x ELSE stack[v][j]
    BY <2>1, <2>2, GoingOn DEF VisitTo
  <2>4. CASE stack'[u][i] = x /\ u = t
    <3>1. x.det = d /\ tid[d] = t /\ enabled[d]
      BY <1>3, <2>2, <2>4 DEF VisitTo, Begins, Skips, Concerns
    <3>2. op[d] = "on"
      BY <1>6, <3>1, InHook DEF ThreadInv, Steady, Audit
    <3> QED
      BY <2>4, <3>1, <3>2
  <2>5. CASE i \in 1 .. Len(stack[u]) /\ stack'[u][i] = stack[u][i]
    BY <1>3, <1>4, <2>5
  <2> QED
    BY <2>3, <2>4, <2>5
<1>7. CASE Emit(t)
  <2>1. stack[t] # <<>>
    BY <1>7, EmitIs
  <2>2. PICK x \in Invocation :
          /\ x.det = None
          /\ stack' = [stack EXCEPT ![t] = Front(stack[t]) \o <<x>>]
    BY <1>7, EmitIs
  <2>3. \A v \in Threads :
          /\ Len(stack[v]) \in Nat
          /\ Len(stack'[v]) = Len(stack[v])
          /\ \A j \in 1 .. Len(stack[v]) :
               stack'[v][j] = IF v = t /\ j = Len(stack[t]) THEN x ELSE stack[v][j]
    BY <2>1, <2>2, GoingOn
  <2>4. i \in 1 .. Len(stack[u]) /\ stack'[u][i] = stack[u][i]
    BY <1>3, <2>2, <2>3
  <2> QED
    BY <1>3, <1>4, <2>4
<1>8. CASE Leave(t)
  <2>1. i \in 1 .. Len(stack[u]) /\ stack'[u][i] = stack[u][i]
    BY <1>8, Leaving
  <2> QED
    BY <1>3, <1>4, <2>1
<1> QED
  BY <1>3, <1>4, <1>5, <1>6, <1>7, <1>8 DEF Audit

OrderInv == TypeOK /\ BusyInv /\ RegistryInv /\ ThreadInv /\ QuietWhenOff

\* Every step keeps the reports in the order of their calls.
LEMMA StepOrder == OrderInv /\ [Next]_vars => OrderInv'
<1> SUFFICES ASSUME OrderInv, [Next]_vars PROVE ThreadInv' /\ QuietWhenOff'
  BY StepRegistry DEF OrderInv
<1>1. ASSUME NEW d \in Detectors, Life(d)
      PROVE  ThreadInv' /\ QuietWhenOff'
  BY <1>1, LifeThread, LifeQuiet DEF OrderInv
<1>2. ASSUME NEW t \in Threads, Audit(t)
      PROVE  ThreadInv' /\ QuietWhenOff'
  BY <1>2, AuditThread, AuditQuiet DEF OrderInv
<1>3. CASE UNCHANGED vars
  <2>1. UNCHANGED <<op, tid, stack, enabled, seen>>
    BY <1>3 DEF vars, registry, marks
  <2> QED
    BY <2>1 DEF OrderInv, ThreadInv, QuietWhenOff
<1> QED
  BY <1>1, <1>2, <1>3 DEF Next

\* A report is one at a time, of the detector's own loop, while it is installed,
\* and of a request, although reports make audited calls of their own
\* (blockingcalls.py:160-162, 181-188, 192-244).
THEOREM ReportsAreOrderlyAlways == Spec => []ReportsAreOrderly
<1>1. OrderInv => ReportsAreOrderly
  <2> SUFFICES ASSUME OrderInv PROVE NoReentry /\ OfRequests
    BY DEF OrderInv, ReportsAreOrderly
  <2>1. NoReentry
    BY StackType DEF OrderInv, BusyInv, NoReentry
  <2>2. OfRequests
    <3>1. reports \in Seq(Detectors \X Traces \X Details)
      BY DEF OrderInv, TypeOK
    <3>2. \A i \in DOMAIN reports : reports[i] \in Detectors \X Traces \X Details
      BY <3>1, LenProperties, ElementOfSeq
    <3> QED
      BY <3>2 DEF OfRequests
  <2> QED
    BY <2>1, <2>2
<1>2. Init => OrderInv
  BY InitRegistry DEF OrderInv
<1> QED
  BY <1>1, <1>2, StepOrder, PTL DEF Spec

-----------------------------------------------------------------------------
(* What is reported *)

\* How often something was reported or is owed a report is a number.
LEMMA TimesType ==
  ASSUME TypeOK, NEW d, NEW key
  PROVE  /\ IsFiniteSet({i \in DOMAIN reports : reports[i] = <<d>> \o key})
         /\ Times(d, key) \in Nat
<1> DEFINE R == {i \in DOMAIN reports : reports[i] = <<d>> \o key}
<1>1. DOMAIN reports = 1 .. Len(reports) /\ Len(reports) \in Nat
  BY LenProperties DEF TypeOK
<1>2. IsFiniteSet(1 .. Len(reports))
  BY <1>1, FS_Interval
<1>3. R \in SUBSET (1 .. Len(reports))
  BY <1>1
<1> HIDE DEF R
<1>4. IsFiniteSet(R)
  BY <1>2, <1>3, FS_Subset
<1>5. Cardinality(R) \in Nat
  BY <1>4, FS_CardinalityType
<1> QED
  BY <1>4, <1>5 DEF R, Times

\* One more report.
LEMMA TimesStep ==
  ASSUME TypeOK, NEW e \in Detectors, NEW k \in Key,
         reports' = Append(reports, <<e>> \o k), NEW d \in Detectors, NEW key \in Key
  PROVE  Times(d, key)' = Times(d, key) + IF d = e /\ key = k THEN 1 ELSE 0
<1> DEFINE R == {i \in DOMAIN reports : reports[i] = <<d>> \o key}
           n == Len(reports) + 1
           later == {i \in DOMAIN reports' : reports'[i] = <<d>> \o key}
<1>1. IsFiniteSet(R) /\ Times(d, key) = Cardinality(R) /\ Times(d, key) \in Nat
  BY TimesType DEF Times
<1>11. k = <<k[1], k[2]>> /\ key = <<key[1], key[2]>> /\ k[1] \in Traces /\ k[2] \in Details
  BY DEF Key
<1>12. /\ <<e>> \o <<k[1], k[2]>> = <<e, k[1], k[2]>>
       /\ <<d>> \o <<key[1], key[2]>> = <<d, key[1], key[2]>>
  BY Report
<1>2. <<e>> \o k = <<e, k[1], k[2]>> /\ <<e, k[1], k[2]>> \in Detectors \X Traces \X Details
  BY <1>11, <1>12
<1>3. <<d>> \o key = <<d, key[1], key[2]>>
  BY <1>11, <1>12
<1>4. <<e>> \o k = <<d>> \o key <=> (d = e /\ key = k)
  <2>1. ASSUME <<e, k[1], k[2]>> = <<d, key[1], key[2]>>
        PROVE  e = d /\ k[1] = key[1] /\ k[2] = key[2]
    BY <2>1
  <2>2. ASSUME k[1] = key[1], k[2] = key[2]
        PROVE  k = key
    BY <1>11, <2>2
  <2> QED
    BY <1>2, <1>3, <2>1, <2>2
<1>5. reports \in Seq(Detectors \X Traces \X Details) /\ DOMAIN reports = 1 .. Len(reports)
      /\ Len(reports) \in Nat
  BY LenProperties DEF TypeOK
<1>6. /\ DOMAIN reports' = 1 .. n /\ reports'[n] = <<e>> \o k
      /\ \A i \in 1 .. Len(reports) : reports'[i] = reports[i]
  BY <1>2, <1>5, Pushing
<1>7. later = IF d = e /\ key = k THEN R \cup {n} ELSE R
  <2>1. 1 .. n = 1 .. Len(reports) \cup {n} /\ n \notin 1 .. Len(reports)
    BY <1>5
  <2>2. ASSUME NEW i
        PROVE  i \in later <=> i \in R \/ (i = n /\ d = e /\ key = k)
    BY <1>4, <1>5, <1>6, <2>1
  <2> QED
    BY <2>2
<1>8. n \notin R
  BY <1>5
<1>9. Times(d, key)' = Cardinality(later)
  BY DEF Times
<1> HIDE DEF R, n, later
<1>10. Cardinality(R \cup {n}) = Cardinality(R) + 1
  BY <1>1, <1>8, FS_AddElement
<1> QED
  BY <1>1, <1>7, <1>9, <1>10

ReportInv == OrderInv /\ BusyIsReal /\ CountInv /\ MemoryInv /\ OwedInv

\* Until a report is pushed, everything is counted as before.
LEMMA TimesSame ==
  ASSUME reports' = reports, NEW d, NEW key
  PROVE  Times(d, key)' = Times(d, key)
BY DEF Times

\* The life of a detector: only its end drops calls, and then none is left.
LEMMA LifeReports ==
  ASSUME ReportInv, NEW d \in Detectors, Life(d)
  PROVE  BusyIsReal' /\ CountInv' /\ MemoryInv' /\ OwedInv'
<1>1. TypeOK /\ ThreadInv /\ QuietWhenOff
  BY DEF ReportInv, OrderInv
<1>2. UNCHANGED <<stack, reports, owed, busy, clears>>
  BY DEF Life, Install, Ensure, Hook, HookFails, Flag, Enable, Add, Publish, Uninstall, Discard,
         Unpublish, Drop, marks, history
<1>3. \A e, key : Times(e, key)' = Times(e, key) /\ Pending(e, key)' = Pending(e, key)
  BY <1>2, TimesSame DEF Pending
<1>4. alive' \subseteq alive
  BY DEF Life, Install, Ensure, Hook, HookFails, Flag, Enable, Add, Publish, Uninstall, Discard,
         Unpublish, Drop
<1>5. \A e \in Detectors : e # d => tid'[e] = tid[e] /\ op'[e] = op[e] /\ seen'[e] = seen[e]
  BY <1>1 DEF Life, Install, Ensure, Hook, HookFails, Flag, Enable, Add, Publish, Uninstall, Discard,
         Unpublish, Drop, Goes, marks, TypeOK
<1>6. /\ op[d] = "on" /\ ~ Uninstall(d) => op'[d] = "on" /\ tid'[d] = tid[d]
      /\ seen'[d] = seen[d] \/ (seen'[d] = {} /\ (seen[d] = {} \/ Uninstall(d)))
      /\ Uninstall(d) => op'[d] = "discard"
      /\ op[d] \in {"discard", "unpublish", "off"} => op'[d] \in {"discard", "unpublish", "off"}
  BY <1>1 DEF Life, Install, Ensure, Hook, HookFails, Flag, Enable, Add, Publish, Uninstall, Discard,
         Unpublish, Drop, Goes, marks, TypeOK, ThreadInv
<1>7. BusyIsReal'
  BY <1>2 DEF ReportInv, BusyIsReal
<1>8. CountInv'
  <2>1. \A e \in Detectors, key \in Key : Known(e, key) => Known(e, key)'
    BY <1>5, <1>6 DEF Known
  <2>2. \A e \in Detectors, key \in Key : Times(e, key) \in Nat /\ clears[e] \in Nat
    BY <1>1, TimesType DEF TypeOK
  <2> QED
    BY <1>2, <1>3, <2>1, <2>2 DEF ReportInv, CountInv
<1>9. MemoryInv'
  <2>1. IsFiniteSet({}) /\ Cardinality({}) <= MaxSeen
    BY FS_EmptySet
  <2>2. \A e \in Detectors : seen'[e] = seen[e] \/ seen'[e] = {}
    BY <1>5, <1>6
  <2> QED
    BY <1>3, <2>1, <2>2 DEF ReportInv, MemoryInv
<1>10. OwedInv'
  <2>1. SUFFICES ASSUME NEW e \in alive, NEW key \in owed[e], ~ (Times(e, key) > 0)
                 PROVE  op'[e] = "on" /\ (Pending(e, key)' \/ Ahead(e, key)')
    BY <1>2, <1>3, <1>4 DEF OwedInv
  <2>2. op[e] = "on" /\ (Pending(e, key) \/ Ahead(e, key)) /\ e \in Detectors
    BY <1>1, <2>1 DEF ReportInv, OwedInv, TypeOK
  <2>3. ~ (e = d /\ Uninstall(d))
    <3>1. SUFFICES ASSUME e = d, Uninstall(d) PROVE FALSE
      OBVIOUS
    <3>2. stack[tid[d]] = <<>> /\ Len(stack[tid[d]]) = 0
      BY <3>1 DEF Uninstall, Idle
    <3>3. ~ Ahead(d, key)
      BY <3>2 DEF Ahead
    <3>4. ~ Pending(d, key)
      BY <1>1, <3>2, StackType DEF Pending, QuietWhenOff
    <3> QED
      BY <2>2, <3>1, <3>3, <3>4
  <2>4. op'[e] = "on" /\ tid'[e] = tid[e]
    BY <1>5, <1>6, <2>2, <2>3
  <2>5. Ahead(e, key) => Ahead(e, key)'
    BY <1>2, <2>4 DEF Ahead
  <2> QED
    BY <1>3, <2>2, <2>4, <2>5
<1> QED
  BY <1>7, <1>8, <1>9, <1>10

\* Reports under way and calls ahead stay what they are when an invocation is
\* added, or one that reports nothing and has nothing left is taken away.
LEMMA CallReports ==
  ASSUME ReportInv, NEW t \in Threads, NEW c \in Calls, Call(t, c)
  PROVE  BusyIsReal' /\ CountInv' /\ MemoryInv' /\ OwedInv'
<1> DEFINE new == [call |-> c, left |-> dispatch, det |-> None]
           n == Len(stack[t]) + 1
<1>1. TypeOK /\ RegistryInv /\ QuietWhenOff
  BY DEF ReportInv, OrderInv
<1>2. new \in Invocation /\ new.call = c /\ new.left = dispatch /\ new.det = None
  BY <1>1 DEF Invocation, TypeOK
<1>3. /\ stack' = [stack EXCEPT ![t] = Append(stack[t], new)]
      /\ UNCHANGED <<registry, enabled, marks, reports>>
  BY DEF Call
<1>4. UNCHANGED <<tid, op, alive, seen, clears, busy, reports>>
  BY <1>3 DEF registry, marks
<1> HIDE DEF new
<1>5. /\ stack'[t][Len(stack[t]) + 1] = new
      /\ \A u \in Threads :
           /\ Len(stack[u]) \in Nat
           /\ Len(stack'[u]) = IF u = t THEN Len(stack[u]) + 1 ELSE Len(stack[u])
           /\ \A i \in 1 .. Len(stack[u]) : stack'[u][i] = stack[u][i]
  BY <1>1, <1>2, <1>3, Entering
<1>6. \A d \in Detectors : \A key : Pending(d, key)' <=> Pending(d, key)
  <2> SUFFICES ASSUME NEW d \in Detectors, NEW key PROVE Pending(d, key)' <=> Pending(d, key)
    OBVIOUS
  <2>1. d # None
    OBVIOUS
  <2>2. ASSUME NEW u \in Threads, NEW i \in 1 .. Len(stack[u])
        PROVE  i \in 1 .. Len(stack'[u]) /\ stack'[u][i] = stack[u][i]
    BY <1>5
  <2>3. ASSUME NEW u \in Threads, NEW i \in 1 .. Len(stack'[u]), stack'[u][i].det = d
        PROVE  i \in 1 .. Len(stack[u]) /\ stack'[u][i] = stack[u][i]
    BY <1>2, <1>5, <2>1, <2>3
  <2>4. Pending(d, key) => Pending(d, key)'
    BY <2>2 DEF Pending, KeyOf
  <2>5. Pending(d, key)' => Pending(d, key)
    BY <2>3 DEF Pending, KeyOf
  <2> QED
    BY <2>4, <2>5
<1>7. \A d, key : Times(d, key)' = Times(d, key)
  BY <1>4, TimesSame
<1>8. \A d, key : Ahead(d, key) => Ahead(d, key)'
  <2> SUFFICES ASSUME NEW d, NEW key, Ahead(d, key) PROVE Ahead(d, key)'
    OBVIOUS
  <2>1. PICK u \in Threads : \E i \in 1 .. Len(stack[u]) :
          /\ KeyOf(stack[u][i]) = key /\ tid[d] = u /\ d \in stack[u][i].left
          /\ \A j \in 1 .. i - 1 : stack[u][j].det # d
    BY DEF Ahead
  <2>2. PICK i \in 1 .. Len(stack[u]) :
          /\ KeyOf(stack[u][i]) = key /\ tid[d] = u /\ d \in stack[u][i].left
          /\ \A j \in 1 .. i - 1 : stack[u][j].det # d
    BY <2>1
  <2>3. i \in 1 .. Len(stack'[u]) /\ stack'[u][i] = stack[u][i]
        /\ \A j \in 1 .. i - 1 : stack'[u][j] = stack[u][j]
    BY <1>5
  <2>4. /\ KeyOf(stack'[u][i]) = key /\ tid'[d] = u /\ d \in stack'[u][i].left
        /\ \A j \in 1 .. i - 1 : stack'[u][j].det # d
    BY <1>4, <2>2, <2>3 DEF KeyOf
  <2> QED
    BY <2>3, <2>4 DEF Ahead, KeyOf
<1>9. BusyIsReal'
  <2>1. \A u \in Threads : \A i \in 1 .. Len(stack[u]) :
          i \in 1 .. Len(stack'[u]) /\ stack'[u][i] = stack[u][i]
    BY <1>5
  <2> QED
    BY <1>4, <2>1 DEF ReportInv, BusyIsReal
<1>10. CountInv'
  BY <1>4, <1>6, <1>7 DEF ReportInv, CountInv, Known
<1>11. MemoryInv'
  BY <1>4, <1>6, <1>7 DEF ReportInv, MemoryInv
<1>12. OwedInv'
  <2>1. SUFFICES ASSUME NEW d \in alive, NEW key \in owed'[d], ~ (Times(d, key) > 0)
                 PROVE  op[d] = "on" /\ (Pending(d, key) \/ Ahead(d, key)')
    BY <1>4, <1>6, <1>7, <1>1 DEF OwedInv, TypeOK
  <2>2. CASE key \in owed[d]
    BY <1>8, <2>1, <2>2 DEF ReportInv, OwedInv
  <2>3. CASE key \notin owed[d]
    <3>1. d \in Detectors
      BY <1>1 DEF TypeOK
    <3>2. d \in Owing(t) /\ key = <<c.trace, c.detail>>
      BY <2>3, <3>1 DEF Call
    <3>3. /\ op[d] = "on" /\ tid[d] = t
          /\ \A j \in 1 .. Len(stack[t]) : stack[t][j].det # d
      BY <1>1, <3>2, StackType DEF Owing, ToSet
    <3>4. d \in new.left
      BY <1>1, <1>2, <3>3 DEF RegistryInv, MemberInv
    <3>5. n \in 1 .. Len(stack'[t]) /\ stack'[t][n] = new /\ KeyOf(new) = key
          /\ \A j \in 1 .. n - 1 : stack'[t][j].det # d
      BY <1>2, <1>5, <3>2, <3>3 DEF KeyOf
    <3>6. Ahead(d, key)'
      BY <1>4, <3>3, <3>4, <3>5 DEF Ahead, KeyOf
    <3> QED
      BY <3>3, <3>6
  <2> QED
    BY <2>2, <2>3
<1> QED
  BY <1>9, <1>10, <1>11, <1>12

\* The hook's last turn leaves no call without the report it is owed.
LEMMA LeaveReports ==
  ASSUME ReportInv, NEW t \in Threads, Leave(t)
  PROVE  BusyIsReal' /\ CountInv' /\ MemoryInv' /\ OwedInv'
<1>1. TypeOK
  BY DEF ReportInv, OrderInv
<1>2. UNCHANGED <<tid, op, alive, seen, clears, busy, reports, owed>>
  BY DEF Leave, registry, marks, history
<1>3. /\ Top(t).det = None /\ Top(t).left = {} /\ Len(stack[t]) \in 1 .. Len(stack[t])
      /\ \A u \in Threads :
           /\ Len(stack[u]) \in Nat
           /\ Len(stack'[u]) = IF u = t THEN Len(stack[u]) - 1 ELSE Len(stack[u])
           /\ \A i \in 1 .. Len(stack'[u]) : stack'[u][i] = stack[u][i]
  BY <1>1, Leaving
<1>4. ASSUME NEW u \in Threads, NEW i \in 1 .. Len(stack[u]),
             stack[u][i].det # None \/ stack[u][i].left # {}
      PROVE  i \in 1 .. Len(stack'[u]) /\ stack'[u][i] = stack[u][i]
  BY <1>3, <1>4 DEF Top
<1>5. ASSUME NEW u \in Threads, NEW i \in 1 .. Len(stack'[u])
      PROVE  i \in 1 .. Len(stack[u]) /\ stack'[u][i] = stack[u][i]
  BY <1>3
<1>6. \A d \in Detectors : \A key : Pending(d, key)' <=> Pending(d, key)
  <2> SUFFICES ASSUME NEW d \in Detectors, NEW key PROVE Pending(d, key)' <=> Pending(d, key)
    OBVIOUS
  <2>1. d # None
    OBVIOUS
  <2>2. Pending(d, key) => Pending(d, key)'
    BY <1>4, <2>1 DEF Pending, KeyOf
  <2>3. Pending(d, key)' => Pending(d, key)
    BY <1>5 DEF Pending, KeyOf
  <2> QED
    BY <2>2, <2>3
<1>7. \A d, key : Times(d, key)' = Times(d, key)
  BY <1>2, TimesSame
<1>8. \A d, key : Ahead(d, key) => Ahead(d, key)'
  <2> SUFFICES ASSUME NEW d, NEW key, Ahead(d, key) PROVE Ahead(d, key)'
    OBVIOUS
  <2>1. PICK u \in Threads : \E i \in 1 .. Len(stack[u]) :
          /\ KeyOf(stack[u][i]) = key /\ tid[d] = u /\ d \in stack[u][i].left
          /\ \A j \in 1 .. i - 1 : stack[u][j].det # d
    BY DEF Ahead
  <2>2. PICK i \in 1 .. Len(stack[u]) :
          /\ KeyOf(stack[u][i]) = key /\ tid[d] = u /\ d \in stack[u][i].left
          /\ \A j \in 1 .. i - 1 : stack[u][j].det # d
    BY <2>1
  <2>3. i \in 1 .. Len(stack'[u]) /\ stack'[u][i] = stack[u][i]
    BY <1>4, <2>2
  <2>4. \A j \in 1 .. i - 1 : stack'[u][j] = stack[u][j]
    BY <1>3, <2>3
  <2> QED
    BY <1>2, <2>2, <2>3, <2>4 DEF Ahead, KeyOf
<1>9. BusyIsReal'
  BY <1>2, <1>4 DEF ReportInv, BusyIsReal
<1>10. CountInv'
  BY <1>2, <1>6, <1>7 DEF ReportInv, CountInv, Known
<1>11. MemoryInv'
  BY <1>2, <1>6, <1>7 DEF ReportInv, MemoryInv
<1>12. OwedInv'
  BY <1>1, <1>2, <1>6, <1>7, <1>8 DEF ReportInv, OwedInv, TypeOK
<1> QED
  BY <1>9, <1>10, <1>11, <1>12

\* The report that is pushed is the only one its detector has under way.
LEMMA EmitReports ==
  ASSUME ReportInv, NEW t \in Threads, Emit(t)
  PROVE  BusyIsReal' /\ CountInv' /\ MemoryInv' /\ OwedInv'
<1> DEFINE e == Top(t).det
           k == KeyOf(Top(t))
           n == Len(stack[t])
<1>1. TypeOK /\ BusyInv
  BY DEF ReportInv, OrderInv
<1>2. /\ stack[t] # <<>> /\ e \in Detectors
      /\ UNCHANGED <<registry, enabled, seen, clears, calls, owed>>
      /\ reports' = Append(reports, <<e>> \o k)
      /\ busy' = [busy EXCEPT ![e] = FALSE]
  BY <1>1, EmitIs
<1>3. PICK x \in Invocation :
        /\ x.call = Top(t).call /\ x.left = Top(t).left /\ x.det = None
        /\ stack' = [stack EXCEPT ![t] = Front(stack[t]) \o <<x>>]
  BY <1>1, EmitIs
<1>4. UNCHANGED <<tid, op, alive, seen, clears, owed>>
  BY <1>2 DEF registry
<1>5. /\ n \in 1 .. n
      /\ \A u \in Threads :
           /\ Len(stack[u]) \in Nat
           /\ Len(stack'[u]) = Len(stack[u])
           /\ \A i \in 1 .. Len(stack[u]) :
                stack'[u][i] = IF u = t /\ i = Len(stack[t]) THEN x ELSE stack[u][i]
  BY <1>1, <1>2, <1>3, GoingOn
<1>6. /\ e # None /\ k \in Key /\ stack[t][n].det = e /\ KeyOf(stack[t][n]) = k
      /\ KeyOf(x) = k
  <2>1. Top(t) = stack[t][n]
    BY DEF Top
  <2>2. e # None
    BY <1>2
  <2>3. KeyOf(stack[t][n]) \in Key
    BY <1>1, <1>5, <2>1, <2>2 DEF BusyInv
  <2>4. KeyOf(x) = k
    BY <1>3 DEF KeyOf
  <2> QED
    BY <2>1, <2>2, <2>3, <2>4
<1>7. \A u \in Threads : \A i \in 1 .. Len(stack[u]) : stack[u][i].det = e => u = t /\ i = n
  <2>1. n \in 1 .. Len(stack[t]) /\ stack[t][n].det # None
    BY <1>5, <1>6
  <2>2. \A u \in Threads : \A i \in 1 .. Len(stack[u]) :
          stack[u][i].det = stack[t][n].det => u = t /\ i = n
    BY <1>1, <2>1 DEF BusyInv
  <2> QED
    BY <1>6, <2>2
<1> HIDE DEF e, k, n
<1>8. ASSUME NEW d \in Detectors, NEW key \in Key
      PROVE  /\ Times(d, key)' = Times(d, key) + IF d = e /\ key = k THEN 1 ELSE 0
             /\ Times(d, key) \in Nat
  <2>1. TypeOK /\ e \in Detectors /\ k \in Key /\ reports' = Append(reports, <<e>> \o k)
    BY <1>1, <1>2, <1>6
  <2>2. Times(d, key)' = Times(d, key) + IF d = e /\ key = k THEN 1 ELSE 0
    <3>1. PICK e0 \in Detectors, k0 \in Key : e0 = e /\ k0 = k
      BY <2>1
    <3>2. reports' = Append(reports, <<e0>> \o k0)
      BY <2>1, <3>1
    <3>3. Times(d, key)' = Times(d, key) + IF d = e0 /\ key = k0 THEN 1 ELSE 0
      BY <2>1, <3>2, TimesStep
    <3> QED
      BY <3>1, <3>3
  <2>3. Times(d, key) \in Nat
    BY <1>1, <1>8, TimesType
  <2> QED
    BY <2>2, <2>3
<1>9. ASSUME NEW d \in Detectors, NEW key
      PROVE  /\ d # e => (Pending(d, key)' <=> Pending(d, key))
             /\ d = e => ~ Pending(d, key)' /\ (Pending(d, key) <=> key = k)
  <2>1. d # None
    OBVIOUS
  <2>2. CASE d # e
    <3>1. ASSUME NEW u \in Threads, NEW i \in 1 .. Len(stack[u]), stack[u][i].det = d
          PROVE  i \in 1 .. Len(stack'[u]) /\ stack'[u][i] = stack[u][i]
      BY <1>5, <1>6, <2>2, <3>1 DEF n
    <3>2. ASSUME NEW u \in Threads, NEW i \in 1 .. Len(stack'[u]), stack'[u][i].det = d
          PROVE  i \in 1 .. Len(stack[u]) /\ stack'[u][i] = stack[u][i]
      BY <1>3, <1>5, <2>1, <3>2
    <3>3. Pending(d, key) => Pending(d, key)'
      BY <3>1 DEF Pending, KeyOf
    <3>4. Pending(d, key)' => Pending(d, key)
      BY <3>2 DEF Pending, KeyOf
    <3> QED
      BY <2>2, <3>3, <3>4
  <2>3. CASE d = e
    <3>1. \A u \in Threads : \A i \in 1 .. Len(stack'[u]) : stack'[u][i].det # e
      BY <1>3, <1>5, <1>6, <1>7 DEF n
    <3>2. ~ Pending(d, key)'
      BY <2>3, <3>1 DEF Pending
    <3>3. Pending(d, key) => key = k
      BY <1>6, <1>7, <2>3 DEF Pending
    <3>4. Pending(d, k)
      BY <1>5, <1>6, <2>3 DEF Pending, n
    <3> QED
      BY <2>3, <3>2, <3>3, <3>4
  <2> QED
    BY <2>2, <2>3
<1>10. BusyIsReal'
  <2>1. SUFFICES ASSUME NEW d \in Detectors, busy'[d]
                 PROVE  \E u \in Threads : \E i \in 1 .. Len(stack'[u]) : stack'[u][i].det = d
    BY DEF BusyIsReal
  <2>2. d # e /\ busy[d]
    BY <1>1, <1>2, <2>1 DEF TypeOK
  <2>3. PICK u \in Threads : \E i \in 1 .. Len(stack[u]) : stack[u][i].det = d
    BY <2>2 DEF ReportInv, BusyIsReal
  <2>4. PICK i \in 1 .. Len(stack[u]) : stack[u][i].det = d
    BY <2>3
  <2>5. i \in 1 .. Len(stack'[u]) /\ stack'[u][i].det = d
    BY <1>5, <1>6, <2>2, <2>4 DEF n
  <2> QED
    BY <2>5
<1>11. CountInv'
  <2>1. SUFFICES ASSUME NEW d \in Detectors, NEW key \in Key
                 PROVE  Times(d, key)' + (IF Pending(d, key)' THEN 1 ELSE 0)
                          <= clears[d] + IF Known(d, key) THEN 1 ELSE 0
    BY <1>4 DEF CountInv, Known
  <2>2. Times(d, key) + (IF Pending(d, key) THEN 1 ELSE 0)
          <= clears[d] + IF Known(d, key) THEN 1 ELSE 0
    BY DEF ReportInv, CountInv
  <2>3. clears[d] \in Nat
    BY <1>1 DEF TypeOK
  <2> QED
    BY <1>8, <1>9, <2>2, <2>3
<1>12. MemoryInv'
  <2>1. SUFFICES ASSUME NEW d \in Detectors, NEW key \in seen[d]
                 PROVE  Times(d, key)' > 0 \/ Pending(d, key)'
    BY <1>4 DEF ReportInv, MemoryInv
  <2>2. Times(d, key) > 0 \/ Pending(d, key)
    BY DEF ReportInv, MemoryInv
  <2>3. key \in Key
    BY <1>1 DEF TypeOK, Key
  <2> QED
    BY <1>8, <1>9, <2>2, <2>3
<1>13. OwedInv'
  <2>1. SUFFICES ASSUME NEW d \in alive, NEW key \in owed[d]
                 PROVE  Times(d, key)' > 0 \/ (op[d] = "on" /\ (Pending(d, key)' \/ Ahead(d, key)'))
    BY <1>4 DEF OwedInv
  <2>2. d \in Detectors /\ key \in Key
    BY <1>1 DEF TypeOK, Key
  <2>3. Times(d, key) > 0 \/ (op[d] = "on" /\ (Pending(d, key) \/ Ahead(d, key)))
    BY DEF ReportInv, OwedInv
  <2>4. ASSUME Ahead(d, key) PROVE Ahead(d, key)'
    <3>1. PICK u \in Threads : \E i \in 1 .. Len(stack[u]) :
            /\ KeyOf(stack[u][i]) = key /\ tid[d] = u /\ d \in stack[u][i].left
            /\ \A j \in 1 .. i - 1 : stack[u][j].det # d
      BY <2>4 DEF Ahead
    <3>2. PICK i \in 1 .. Len(stack[u]) :
            /\ KeyOf(stack[u][i]) = key /\ tid[d] = u /\ d \in stack[u][i].left
            /\ \A j \in 1 .. i - 1 : stack[u][j].det # d
      BY <3>1
    <3>3. i \in 1 .. Len(stack'[u]) /\ stack'[u][i].call = stack[u][i].call
          /\ stack'[u][i].left = stack[u][i].left
      BY <1>3, <1>5 DEF Top
    <3>4. \A j \in 1 .. i - 1 : stack'[u][j].det # d
      <4>1. d # None
        BY <2>2
      <4>2. ASSUME NEW j \in 1 .. i - 1
            PROVE  stack'[u][j].det # d
        <5>1. j \in 1 .. Len(stack[u]) /\ stack[u][j].det # d
          BY <1>5, <3>2
        <5>2. stack'[u][j] = x \/ stack'[u][j] = stack[u][j]
          BY <1>5, <5>1
        <5> QED
          BY <1>3, <4>1, <5>1, <5>2
      <4> QED
        BY <4>2
    <3> QED
      BY <1>4, <3>2, <3>3, <3>4 DEF Ahead, KeyOf
  <2> QED
    BY <1>8, <1>9, <2>2, <2>3, <2>4
<1> QED
  BY <1>10, <1>11, <1>12, <1>13

\* The detector that is asked begins to report what it does not remember; it is
\* free to, since nothing that is ahead of it is ahead of one of its reports.
LEMMA VisitReports ==
  ASSUME ReportInv, NEW t \in Threads, Visit(t)
  PROVE  BusyIsReal' /\ CountInv' /\ MemoryInv' /\ OwedInv'
<1> DEFINE n == Len(stack[t])
<1>1. TypeOK /\ BusyInv /\ ThreadInv /\ QuietWhenOff
  BY DEF ReportInv, OrderInv
<1>2. stack[t] # <<>> /\ Top(t).det = None /\ UNCHANGED <<registry, enabled, history>>
  BY <1>1, VisitIs
<1>3. PICK e \in Detectors, x \in Invocation : VisitTo(t, e, x)
  BY <1>1, VisitIs
<1>4. UNCHANGED <<tid, op, alive, owed, reports>>
  BY <1>2 DEF registry, history
<1>5. /\ n \in 1 .. n
      /\ \A u \in Threads :
           /\ Len(stack[u]) \in Nat
           /\ Len(stack'[u]) = Len(stack[u])
           /\ \A i \in 1 .. Len(stack[u]) :
                stack'[u][i] = IF u = t /\ i = Len(stack[t]) THEN x ELSE stack[u][i]
  BY <1>1, <1>2, <1>3, GoingOn DEF VisitTo
<1>6. Top(t) = stack[t][n] /\ x.call = Top(t).call /\ x.left = Top(t).left \ {e} /\ e # None
      /\ (x.det = e \/ x.det = None)
  BY <1>3 DEF VisitTo, Top, Begins, Skips
<1> DEFINE k == KeyOf(x)
<1>7. k = KeyOf(stack[t][n])
  BY <1>6 DEF KeyOf
<1> HIDE DEF n, k
\* What was reported before still is.
<1>8. ASSUME NEW u \in Threads, NEW i \in 1 .. Len(stack[u]), stack[u][i].det # None
      PROVE  i \in 1 .. Len(stack'[u]) /\ stack'[u][i] = stack[u][i]
  BY <1>2, <1>5, <1>6, <1>8 DEF n
<1>9. \A d \in Detectors : \A key : Pending(d, key) => Pending(d, key)'
  <2> SUFFICES ASSUME NEW d \in Detectors, NEW key, Pending(d, key) PROVE Pending(d, key)'
    OBVIOUS
  <2>1. d # None
    OBVIOUS
  <2> QED
    BY <1>8, <2>1 DEF Pending, KeyOf
\* What is reported now was before, or is the call the detector was asked.
<1>10. ASSUME NEW d \in Detectors, NEW key, Pending(d, key)'
       PROVE  Pending(d, key) \/ (Begins(t, e, x) /\ d = e /\ key = k)
  <2>1. PICK u \in Threads : \E i \in 1 .. Len(stack'[u]) :
          stack'[u][i].det = d /\ KeyOf(stack'[u][i]) = key
    BY <1>10 DEF Pending, KeyOf
  <2>2. PICK i \in 1 .. Len(stack'[u]) : stack'[u][i].det = d /\ KeyOf(stack'[u][i]) = key
    BY <2>1
  <2>3. d # None
    OBVIOUS
  <2>4. CASE u = t /\ i = Len(stack[t])
    <3>1. stack'[u][i] = x
      BY <1>5, <2>4
    <3>2. x.det = d /\ k = key
      BY <2>2, <3>1 DEF k
    <3>3. Begins(t, e, x)
      BY <1>3, <2>3, <3>2 DEF VisitTo, Skips
    <3> QED
      BY <3>2, <3>3 DEF Begins
  <2>5. CASE ~ (u = t /\ i = Len(stack[t]))
    <3>1. i \in 1 .. Len(stack[u]) /\ stack'[u][i] = stack[u][i]
      BY <1>5, <2>5
    <3> QED
      BY <2>2, <3>1 DEF Pending
  <2> QED
    BY <2>4, <2>5
<1>11. \A d, key : Times(d, key)' = Times(d, key)
  BY <1>4, TimesSame
<1>12. \A d \in Detectors, key \in Key : Times(d, key) \in Nat /\ clears[d] \in Nat
  BY <1>1, TimesType DEF TypeOK
<1>13. Begins(t, e, x) =>
         /\ k \in Key \ seen[e] /\ op[e] = "on" /\ Pending(e, k)'
  <2> SUFFICES ASSUME Begins(t, e, x) PROVE k \in Key \ seen[e] /\ op[e] = "on" /\ Pending(e, k)'
    OBVIOUS
  <2>1. k \in Key \ seen[e] /\ x.det = e /\ tid[e] = t /\ enabled[e]
    BY DEF Begins, Concerns, k
  <2>2. op[e] = "on"
    BY <1>1, <2>1, InHook DEF ThreadInv, Steady, Audit
  <2>3. n \in 1 .. Len(stack'[t]) /\ stack'[t][n] = x
    BY <1>5 DEF n
  <2>4. Pending(e, k)'
    BY <2>1, <2>3 DEF Pending, KeyOf, k
  <2> QED
    BY <2>1, <2>2, <2>4
<1>14. BusyIsReal'
  <2>1. SUFFICES ASSUME NEW d \in Detectors, busy'[d]
                 PROVE  \E u \in Threads : \E i \in 1 .. Len(stack'[u]) : stack'[u][i].det = d
    BY DEF BusyIsReal
  <2>2. CASE busy[d]
    <3>1. d # None
      OBVIOUS
    <3> QED
      BY <1>8, <2>2, <3>1 DEF ReportInv, BusyIsReal
  <2>3. CASE ~ busy[d]
    <3>1. Begins(t, e, x) /\ d = e
      BY <1>1, <1>3, <2>1, <2>3 DEF VisitTo, Begins, Skips, TypeOK
    <3>2. n \in 1 .. Len(stack'[t]) /\ stack'[t][n] = x /\ x.det = e
      BY <1>5, <3>1 DEF n, Begins
    <3> QED
      BY <3>1, <3>2
  <2> QED
    BY <2>2, <2>3
<1>15. CountInv'
  <2>1. SUFFICES ASSUME NEW d \in Detectors, NEW key \in Key
                 PROVE  Times(d, key) + (IF Pending(d, key)' THEN 1 ELSE 0)
                          <= clears'[d] + IF Known(d, key)' THEN 1 ELSE 0
    BY <1>11 DEF CountInv
  <2>2. Times(d, key) + (IF Pending(d, key) THEN 1 ELSE 0)
          <= clears[d] + IF Known(d, key) THEN 1 ELSE 0
    BY DEF ReportInv, CountInv
  <2>3. CASE Skips(t, e, x) \/ d # e
    <3>1. clears'[d] = clears[d] /\ seen'[d] = seen[d]
      BY <1>1, <1>3, <2>3 DEF VisitTo, Begins, Skips, TypeOK
    <3>2. Known(d, key)' <=> Known(d, key)
      BY <1>4, <3>1 DEF Known
    <3>3. Pending(d, key)' => Pending(d, key)
      BY <1>6, <1>10, <2>3 DEF Begins, Skips
    <3> QED
      BY <1>12, <2>2, <3>1, <3>2, <3>3
  <2>4. CASE Begins(t, e, x) /\ d = e
    <3>1. k \notin seen[d] /\ op[d] = "on"
      BY <1>13, <2>4
    <3>2. CASE clears' = [clears EXCEPT ![e] = clears[e] + 1] /\ seen' = [seen EXCEPT ![e] = {k}]
      <4>1. clears'[d] = clears[d] + 1 /\ seen'[d] = {k}
        BY <1>1, <2>4, <3>2 DEF TypeOK
      <4>2. CASE key = k
        <5>1. Known(d, key)' /\ ~ Known(d, key)
          BY <1>4, <3>1, <4>1, <4>2 DEF Known
        <5> QED
          BY <1>12, <2>2, <4>1, <5>1
      <4>3. CASE key # k
        <5>1. Pending(d, key)' => Pending(d, key)
          BY <1>10, <4>3
        <5> QED
          BY <1>12, <2>2, <4>1, <5>1
      <4> QED
        BY <4>2, <4>3
    <3>3. CASE clears' = clears /\ seen' = [seen EXCEPT ![e] = seen[e] \cup {k}]
      <4>1. clears'[d] = clears[d] /\ seen'[d] = seen[d] \cup {k}
        BY <1>1, <2>4, <3>3 DEF TypeOK
      <4>2. CASE key = k
        <5>1. Known(d, key)' /\ ~ Known(d, key)
          BY <1>4, <3>1, <4>1, <4>2 DEF Known
        <5> QED
          BY <1>12, <2>2, <4>1, <5>1
      <4>3. CASE key # k
        <5>1. Pending(d, key)' => Pending(d, key)
          BY <1>10, <4>3
        <5>2. Known(d, key)' <=> Known(d, key)
          BY <1>4, <4>1, <4>3 DEF Known
        <5> QED
          BY <1>12, <2>2, <4>1, <5>1, <5>2
      <4> QED
        BY <4>2, <4>3
    <3> QED
      BY <2>4, <3>2, <3>3 DEF Begins, k
  <2> QED
    BY <1>3, <2>3, <2>4 DEF VisitTo
<1>16. MemoryInv'
  <2>1. SUFFICES ASSUME NEW d \in Detectors
                 PROVE  /\ IsFiniteSet(seen'[d]) /\ Cardinality(seen'[d]) <= MaxSeen
                        /\ \A key \in seen'[d] : Times(d, key) > 0 \/ Pending(d, key)'
    BY <1>11 DEF MemoryInv
  <2>2. /\ IsFiniteSet(seen[d]) /\ Cardinality(seen[d]) <= MaxSeen /\ Cardinality(seen[d]) \in Nat
        /\ \A key \in seen[d] : Times(d, key) > 0 \/ Pending(d, key)
    BY FS_CardinalityType DEF ReportInv, MemoryInv
  <2>3. CASE seen'[d] = seen[d]
    BY <1>9, <2>2, <2>3
  <2>4. CASE seen'[d] # seen[d]
    <3>1. Begins(t, e, x) /\ d = e
      BY <1>1, <1>3, <2>4 DEF VisitTo, Begins, Skips, TypeOK
    <3>2. Pending(d, k)'
      BY <1>13, <3>1
    <3>3. \/ seen'[d] = {k}
          \/ ~ (Cardinality(seen[d]) >= MaxSeen) /\ seen'[d] = seen[d] \cup {k}
      BY <1>1, <3>1 DEF Begins, TypeOK, k
    <3>4. CASE seen'[d] = {k}
      <4>1. IsFiniteSet({k}) /\ Cardinality({k}) = 1
        BY FS_Singleton
      <4> QED
        BY <3>2, <3>4, <4>1
    <3>5. CASE ~ (Cardinality(seen[d]) >= MaxSeen) /\ seen'[d] = seen[d] \cup {k}
      <4>1. IsFiniteSet(seen[d] \cup {k}) /\ Cardinality(seen[d] \cup {k}) <= Cardinality(seen[d]) + 1
        <5>1. IsFiniteSet(seen[d])
          BY <2>2
        <5>2. CASE k \in seen[d]
          <6>1. /\ IsFiniteSet(seen[d] \cup {k})
                /\ Cardinality(seen[d] \cup {k}) = Cardinality(seen[d])
            BY <5>1, <5>2, FS_AddElement, Zenon
          <6> QED
            BY <2>2, <6>1
        <5>3. CASE k \notin seen[d]
          <6>1. /\ IsFiniteSet(seen[d] \cup {k})
                /\ Cardinality(seen[d] \cup {k}) = Cardinality(seen[d]) + 1
            BY <5>1, <5>3, FS_AddElement, Zenon
          <6> QED
            BY <2>2, <6>1
        <5> QED
          BY <5>2, <5>3
      <4>2. Cardinality(seen[d] \cup {k}) <= MaxSeen
        <5>1. Cardinality(seen[d] \cup {k}) \in Nat
          BY <4>1, FS_CardinalityType
        <5> QED
          BY <2>2, <3>5, <4>1, <5>1
      <4> QED
        BY <1>9, <2>2, <3>2, <3>5, <4>1, <4>2
    <3> QED
      BY <3>3, <3>4, <3>5
  <2> QED
    BY <2>3, <2>4
<1>17. OwedInv'
  <2>1. SUFFICES ASSUME NEW d \in alive, NEW key \in owed[d], ~ (Times(d, key) > 0)
                 PROVE  op[d] = "on" /\ (Pending(d, key)' \/ Ahead(d, key)')
    BY <1>4, <1>11 DEF OwedInv
  <2>2. d \in Detectors /\ key \in Key
    BY <1>1 DEF TypeOK, Key
  <2>3. op[d] = "on" /\ (Pending(d, key) \/ Ahead(d, key))
    BY <2>1 DEF ReportInv, OwedInv
  <2>4. ASSUME ~ Pending(d, key) PROVE Pending(d, key)' \/ Ahead(d, key)'
    <3>1. PICK u \in Threads : \E i \in 1 .. Len(stack[u]) :
            /\ KeyOf(stack[u][i]) = key /\ tid[d] = u /\ d \in stack[u][i].left
            /\ \A j \in 1 .. i - 1 : stack[u][j].det # d
      BY <2>3, <2>4 DEF Ahead
    <3>2. PICK i \in 1 .. Len(stack[u]) :
            /\ KeyOf(stack[u][i]) = key /\ tid[d] = u /\ d \in stack[u][i].left
            /\ \A j \in 1 .. i - 1 : stack[u][j].det # d
      BY <3>1
    <3>3. i \in 1 .. Len(stack'[u]) /\ \A j \in 1 .. i - 1 : stack'[u][j] = stack[u][j]
      BY <1>5
    <3>4. CASE ~ (u = t /\ i = n)
      <4>1. stack'[u][i] = stack[u][i]
        BY <1>5, <3>4 DEF n
      <4>2. /\ KeyOf(stack'[u][i]) = key /\ tid'[d] = u /\ d \in stack'[u][i].left
            /\ \A j \in 1 .. i - 1 : stack'[u][j].det # d
        BY <1>4, <3>2, <3>3, <4>1 DEF KeyOf
      <4> QED
        BY <3>3, <4>2 DEF Ahead, KeyOf
    <3>5. CASE u = t /\ i = n /\ d # e
      <4>1. stack'[u][i] = x /\ KeyOf(x) = key /\ d \in x.left
        BY <1>5, <1>6, <1>7, <3>2, <3>5 DEF n, k
      <4>2. /\ KeyOf(stack'[u][i]) = key /\ tid'[d] = u /\ d \in stack'[u][i].left
            /\ \A j \in 1 .. i - 1 : stack'[u][j].det # d
        BY <1>4, <3>2, <3>3, <3>5, <4>1 DEF KeyOf
      <4> QED
        BY <3>3, <4>2 DEF Ahead, KeyOf
    <3>6. CASE u = t /\ i = n /\ d = e
      <4>1. k = key
        BY <1>7, <3>2, <3>6
      <4>2. ~ busy[d]
        <5>1. SUFFICES ASSUME busy[d] PROVE FALSE
          OBVIOUS
        <5>2. PICK v \in Threads : \E j \in 1 .. Len(stack[v]) : stack[v][j].det = d
          BY <2>2, <5>1 DEF ReportInv, BusyIsReal
        <5>3. PICK j \in 1 .. Len(stack[v]) : stack[v][j].det = d
          BY <5>2
        <5>4. v = t
          <6>1. j \in DOMAIN stack[v] /\ d # None
            BY <1>1, <2>2, <5>3, StackType
          <6>2. tid[d] = v
            BY <1>1, <5>3, <6>1 DEF QuietWhenOff
          <6> QED
            BY <3>2, <3>6, <6>2
        <5>5. j # n
          BY <1>2, <1>6, <2>2, <5>3, <5>4
        <5>6. j \in 1 .. i - 1
          BY <1>5, <3>6, <5>3, <5>4, <5>5 DEF n
        <5> QED
          BY <3>2, <3>6, <5>3, <5>4, <5>6
      <4>3. Concerns(d, t, x.call)
        <5>1. x.call.trace # None /\ x.call.detail # None
          BY <2>2, <4>1 DEF k, KeyOf, Key
        <5>2. enabled[d] /\ tid[d] = t
          BY <1>1, <2>2, <2>3, <3>2, <3>6 DEF ThreadInv
        <5> QED
          BY <2>1, <4>2, <5>1, <5>2 DEF Concerns
      <4>4. CASE Begins(t, e, x)
        BY <1>13, <3>6, <4>1, <4>4
      <4>5. CASE Skips(t, e, x)
        <5>1. key \in seen[d]
          BY <3>6, <4>1, <4>3, <4>5 DEF Skips, k
        <5> QED
          BY <2>1, <2>2, <2>4, <5>1 DEF ReportInv, MemoryInv
      <4> QED
        BY <1>3, <4>4, <4>5 DEF VisitTo
    <3> QED
      BY <3>4, <3>5, <3>6
  <2> QED
    BY <1>9, <2>2, <2>3, <2>4
<1> QED
  BY <1>14, <1>15, <1>16, <1>17

\* Every step keeps what is reported, being reported or still ahead in balance.
LEMMA StepReport == ReportInv /\ [Next]_vars => ReportInv'
<1> SUFFICES ASSUME ReportInv, [Next]_vars
             PROVE  BusyIsReal' /\ CountInv' /\ MemoryInv' /\ OwedInv'
  BY StepOrder DEF ReportInv
<1>1. ASSUME NEW d \in Detectors, Life(d)
      PROVE  BusyIsReal' /\ CountInv' /\ MemoryInv' /\ OwedInv'
  BY <1>1, LifeReports
<1>2. ASSUME NEW t \in Threads, Audit(t)
      PROVE  BusyIsReal' /\ CountInv' /\ MemoryInv' /\ OwedInv'
  BY <1>2, CallReports, VisitReports, EmitReports, LeaveReports DEF Audit
<1>3. CASE UNCHANGED vars
  <2>1. UNCHANGED <<tid, op, alive, seen, clears, busy, stack, reports, owed>>
    BY <1>3 DEF vars, registry, marks, history
  <2>2. \A d, key : /\ Times(d, key)' = Times(d, key) /\ (Pending(d, key)' <=> Pending(d, key))
                    /\ (Ahead(d, key)' <=> Ahead(d, key)) /\ (Known(d, key)' <=> Known(d, key))
    BY <2>1 DEF Times, Pending, Ahead, Known
  <2> QED
    BY <2>1, <2>2 DEF ReportInv, BusyIsReal, CountInv, MemoryInv, OwedInv
<1> QED
  BY <1>1, <1>2, <1>3 DEF Next

\* At first nothing is reported and nothing is owed.
LEMMA InitReport == Init => ReportInv
<1> SUFFICES ASSUME Init PROVE BusyIsReal /\ CountInv /\ MemoryInv /\ OwedInv
  BY InitRegistry DEF ReportInv, OrderInv
<1>1. TypeOK
  BY InitRegistry
<1>2. \A t \in Threads : Len(stack[t]) = 0
  BY DEF Init
<1>3. BusyIsReal
  BY DEF Init, BusyIsReal
<1>4. CountInv
  <2>1. SUFFICES ASSUME NEW d \in Detectors, NEW key \in Key
                 PROVE  Times(d, key) = 0 /\ ~ Pending(d, key) /\ clears[d] = 0
    BY DEF CountInv
  <2>2. {i \in DOMAIN reports : reports[i] = <<d>> \o key} = {}
    BY DEF Init
  <2>3. Times(d, key) = 0
    BY <2>2, FS_EmptySet DEF Times
  <2>4. ~ Pending(d, key)
    BY <1>2 DEF Pending
  <2> QED
    BY <2>3, <2>4 DEF Init
<1>5. MemoryInv
  BY FS_EmptySet DEF Init, MemoryInv
<1>6. OwedInv
  BY DEF Init, OwedInv
<1> QED
  BY <1>3, <1>4, <1>5, <1>6

\* Every call of a request on a detector's loop is reported, at the latest when
\* its thread is out of the hook, and once as far as the memory of bounded size
\* reaches, however reports nest and detectors come and go
\* (blockingcalls.py:75-78, 192-244).
THEOREM ReportedOnceAlways == Spec => []ReportedOnce
<1>1. ReportInv => ReportedOnce
  <2> SUFFICES ASSUME ReportInv PROVE OncePerRequest /\ NothingMissed /\ SeenBounded
    BY DEF ReportedOnce
  <2>1. TypeOK /\ QuietWhenOff
    BY DEF ReportInv, OrderInv
  <2>2. OncePerRequest
    <3>1. SUFFICES ASSUME NEW d \in Detectors, NEW key \in Key
                   PROVE  Times(d, key) <= clears[d] + 1
      BY DEF OncePerRequest, Key
    <3>2. Times(d, key) \in Nat /\ clears[d] \in Nat
      BY <2>1, TimesType DEF TypeOK
    <3>3. Times(d, key) + (IF Pending(d, key) THEN 1 ELSE 0)
            <= clears[d] + IF Known(d, key) THEN 1 ELSE 0
      BY DEF ReportInv, CountInv
    <3> QED
      BY <3>2, <3>3
  <2>3. NothingMissed
    <3>1. SUFFICES ASSUME NEW d \in alive, NEW t \in Threads, tid[d] = t, stack[t] = <<>>,
                          NEW key \in owed[d]
                   PROVE  Times(d, key) > 0
      BY DEF NothingMissed
    <3>2. Len(stack[t]) = 0 /\ d \in Detectors /\ d # None
      BY <2>1, <3>1 DEF TypeOK
    <3>3. ~ Ahead(d, key)
      BY <3>1, <3>2 DEF Ahead
    <3>4. ~ Pending(d, key)
      <4>1. ASSUME NEW u \in Threads, NEW i \in 1 .. Len(stack[u]), stack[u][i].det = d
            PROVE  u = t
        BY <2>1, <3>1, <3>2, <4>1, StackType DEF QuietWhenOff
      <4> QED
        BY <3>2, <4>1 DEF Pending
    <3> QED
      BY <3>3, <3>4 DEF ReportInv, OwedInv
  <2>4. SeenBounded
    BY DEF ReportInv, MemoryInv, SeenBounded
  <2> QED
    BY <2>2, <2>3, <2>4
<1> QED
  BY <1>1, InitReport, StepReport, PTL DEF Spec

=============================================================================
