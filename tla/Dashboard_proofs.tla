--------------------------- MODULE Dashboard_proofs ---------------------------
(***************************************************************************)
(* For any requests, frames, caps and lost events: every variable keeps    *)
(* its type, a row comes only with the start of its request and goes only  *)
(* to make room, oldest finished first, and whatever is shed, cleared or   *)
(* refused, a finished row is on no worker, a count agrees with what it    *)
(* counts, and what is withheld is counted.  While every event arrives,    *)
(* the trees, the spans, the holder of the loop, the workers and the tags  *)
(* are those of the server.                                                *)
(*                                                                         *)
(* None of this is inductive.  A row is the oldest only because ages are   *)
(* handed out upwards and none twice (Ages).  A finished row stays quiet   *)
(* only because its request is over, and because the number of frames it   *)
(* has on workers is bounded by those it was told of (Calm): each of them  *)
(* is a frame that was entered, and the next one is not.  What is withheld *)
(* is counted because a request is refused only once, when it starts       *)
(* (HiddenInv).                                                            *)
(*                                                                         *)
(* That the rows are true (Truth) rests on the server as much: a frame     *)
(* returns to a caller of its own request that still runs (CallsOK), and   *)
(* one that is there keeps its request from being over (StartedOK).  The   *)
(* spans are counted frame by frame (Timed): a hold closes the span of its *)
(* frame that is open or is one more, and a stall opens one only for a     *)
(* frame that has none, whichever frame the watchdog names.                *)
(*                                                                         *)
(* What is painted of it is here too, because it builds on the same facts: *)
(* rows have an order of their own to be stacked in only because ages      *)
(* differ (Ages), and only because they are numbered are there finitely    *)
(* many.  A frame stays well-formed however stale it is (Sound), which is  *)
(* all that a click needs, and is true of the rows as long as nothing has  *)
(* happened since (Faithful).                                              *)
(***************************************************************************)
EXTENDS View, SequenceTheorems, FiniteSetTheorems, TLAPS

\* What a step pushes is taken in one event after the other.
Taking == INSTANCE LeftFold WITH Op <- Ingest

\* The rows of a zone are placed one after the other.
Stacking == INSTANCE LeftFold WITH Op <- Place

\* The rows, the tree of a row and the spans kept for later are functions whose
\* domain varies.
Trees == UNION {[S -> Node] : S \in SUBSET Nodes}
Row == [seq : Nat, done : BOOLEAN, sawLoop : BOOLEAN, sawPool : BOOLEAN, stack : Seq(Nodes),
        nodes : Trees, live : Nat, started : SUBSET Nodes,
        blockCount : Nat, spans : Seq(Span), stalled : BOOLEAN]
Rows == UNION {[S -> Row] : S \in SUBSET Traces}
Kept == UNION {[S -> Seq(Span)] : S \in SUBSET Traces}
Dash == [rows : Rows, nextSeq : Nat, holder : Traces \cup {None},
         stalled : [node : Nodes, trace : Traces] \cup {None}, workers : SUBSET (Traces \X Nodes),
         hidden : Nat, before : Kept, cap : Nat \ {0}]

-----------------------------------------------------------------------------
(* The client's data *)

\* Functions with a domain of their own.
LEMMA PartialFunctions ==
  ASSUME NEW D, NEW R
  PROVE  \A f : f \in UNION {[S -> R] : S \in SUBSET D} <=>
           /\ f = [x \in DOMAIN f |-> f[x]]
           /\ DOMAIN f \subseteq D
           /\ \A x \in DOMAIN f : f[x] \in R
OBVIOUS

\* The table of rows, as a function with a domain of its own.
LEMMA RowsAre ==
  \A f : f \in Rows <=> /\ f = [x \in DOMAIN f |-> f[x]]
                        /\ DOMAIN f \subseteq Traces
                        /\ \A x \in DOMAIN f : f[x] \in Row
BY PartialFunctions DEF Rows

\* The spans kept for rows to come.
LEMMA KeptAre ==
  \A f : f \in Kept <=> /\ f = [x \in DOMAIN f |-> f[x]]
                        /\ DOMAIN f \subseteq Traces
                        /\ \A x \in DOMAIN f : f[x] \in Seq(Span)
BY PartialFunctions DEF Kept

\* The call tree of a row.
LEMMA TreesAre ==
  \A f : f \in Trees <=> /\ f = [x \in DOMAIN f |-> f[x]]
                        /\ DOMAIN f \subseteq Nodes
                        /\ \A x \in DOMAIN f : f[x] \in Node
BY PartialFunctions DEF Trees

\* The rows d and e differ in r only, which is row in e.
Instead(d, e, r, row) ==
  /\ DOMAIN e.rows = DOMAIN d.rows
  /\ e.rows[r] = row
  /\ \A q \in DOMAIN d.rows : q # r => e.rows[q] = d.rows[q]

\* The client with another row.
LEMMA OtherRow ==
  ASSUME NEW d \in Dash, NEW r \in DOMAIN d.rows, NEW row \in Row
  PROVE  /\ WithRow(d, r, row) \in Dash
         /\ Instead(d, WithRow(d, r, row), r, row)
         /\ WithRow(d, r, row).nextSeq = d.nextSeq /\ WithRow(d, r, row).holder = d.holder
         /\ WithRow(d, r, row).stalled = d.stalled /\ WithRow(d, r, row).workers = d.workers
         /\ WithRow(d, r, row).hidden = d.hidden /\ WithRow(d, r, row).before = d.before
         /\ WithRow(d, r, row).cap = d.cap
<1> DEFINE f == With(d.rows, r, row)
<1>1. d.rows \in Rows
  BY DEF Dash
<1>2. DOMAIN f = DOMAIN d.rows /\ f[r] = row /\ \A z \in DOMAIN d.rows : z # r => f[z] = d.rows[z]
  BY DEF With
<1>3. f = [z \in DOMAIN f |-> f[z]]
  BY DEF With
<1>4. f \in Rows
  <2>1. DOMAIN d.rows \subseteq Traces /\ \A z \in DOMAIN d.rows : d.rows[z] \in Row
    BY <1>1, RowsAre
  <2>2. DOMAIN f \subseteq Traces /\ \A z \in DOMAIN f : f[z] \in Row
    BY <1>2, <2>1
  <2> HIDE DEF f
  <2> QED BY <1>3, <2>2, RowsAre
<1> HIDE DEF f
<1>5. WithRow(d, r, row) = [d EXCEPT !.rows = f]
  BY DEF WithRow, f
<1>6. [d EXCEPT !.rows = f] \in Dash
  BY <1>4 DEF Dash
<1> QED BY <1>2, <1>5, <1>6 DEF Dash, Instead

-----------------------------------------------------------------------------
(* What an event does to its row *)

\* A set of indices that is not empty has a first and a last one.
LEMMA FirstAndLast ==
  ASSUME NEW n \in Nat, NEW S \in SUBSET (1 .. n), S # {}
  PROVE  /\ Min(S) \in S /\ \A x \in S : Min(S) <= x
         /\ Max(S) \in S /\ \A x \in S : x <= Max(S)
<1>1. S \in SUBSET Nat
  OBVIOUS
<1>2. \E x \in S : \A y \in S : x <= y
  BY <1>1, Taking!LeastOf
<1>3. \E x \in S : \A y \in S : x >= y
  <2> DEFINE T == {k \in Nat : \E x \in S : k = n - x}
  <2>0. \A x \in S : n - x \in Nat /\ n - x \in T
    OBVIOUS
  <2>1. T \in SUBSET Nat /\ T # {}
    <3> HIDE DEF T
    <3>1. PICK x \in S : TRUE
      OBVIOUS
    <3>2. T # {}
      BY <2>0, <3>1
    <3> QED BY <3>2 DEF T
  <2>2. PICK m \in T : \A y \in T : m <= y
    <3> HIDE DEF T
    <3> QED BY <2>1, Taking!LeastOf
  <2>3. PICK x \in S : m = n - x
    OBVIOUS
  <2>4. ASSUME NEW y \in S PROVE x >= y
    <3>1. n - y \in T
      BY <2>0
    <3>2. n - x <= n - y
      BY <2>2, <2>3, <3>1
    <3> HIDE DEF T
    <3> QED BY <3>2, <1>1
  <2> QED BY <2>4
<1> QED BY <1>2, <1>3 DEF Min, Max

\* A sequence without its i-th element.
LEMMA Removed ==
  ASSUME NEW S, NEW s \in Seq(S), NEW i \in 1 .. Len(s)
  PROVE  /\ RemoveAt(s, i) \in Seq(S)
         /\ Len(RemoveAt(s, i)) = Len(s) - 1
         /\ \A j \in 1 .. Len(s) - 1 : RemoveAt(s, i)[j] = IF j < i THEN s[j] ELSE s[j + 1]
<1> DEFINE a == SubSeq(s, 1, i - 1)
           b == SubSeq(s, i + 1, Len(s))
<1>1. Len(s) \in Nat /\ \A k \in 1 .. Len(s) : s[k] \in S
  BY LenProperties, ElementOfSeq
<1>2. /\ a \in Seq(S) /\ Len(a) = i - 1
      /\ \A j \in 1 .. i - 1 : a[j] = s[j]
  <2>1. \A k \in 1 .. i - 1 : s[k] \in S
    BY <1>1
  <2>2. /\ a \in Seq(S)
        /\ Len(a) = IF 1 <= i - 1 THEN i - 1 - 1 + 1 ELSE 0
        /\ \A j \in 1 .. i - 1 - 1 + 1 : a[j] = s[1 + j - 1]
    BY <2>1, SubSeqProperties
  <2> HIDE DEF a
  <2> QED BY <2>2, <1>1
<1>3. /\ b \in Seq(S) /\ Len(b) = Len(s) - i
      /\ \A j \in 1 .. Len(s) - i : b[j] = s[i + j]
  <2>1. \A k \in i + 1 .. Len(s) : s[k] \in S
    BY <1>1
  <2>2. /\ b \in Seq(S)
        /\ Len(b) = IF i + 1 <= Len(s) THEN Len(s) - (i + 1) + 1 ELSE 0
        /\ \A j \in 1 .. Len(s) - (i + 1) + 1 : b[j] = s[i + 1 + j - 1]
    BY <1>1, <2>1, SubSeqProperties
  <2> HIDE DEF b
  <2>3. \A j \in 1 .. Len(s) - i : b[j] = s[i + j]
    <3> SUFFICES ASSUME NEW j \in 1 .. Len(s) - i PROVE b[j] = s[i + j]
      OBVIOUS
    <3>1. j \in 1 .. Len(s) - (i + 1) + 1 /\ i + 1 + j - 1 = i + j
      BY <1>1
    <3> QED BY <2>2, <3>1
  <2> QED BY <2>2, <2>3, <1>1
<1>4. RemoveAt(s, i) = a \o b
  BY DEF RemoveAt
<1> HIDE DEF a, b
<1>5. /\ a \o b \in Seq(S) /\ Len(a \o b) = Len(a) + Len(b)
      /\ \A j \in 1 .. Len(a) + Len(b) : (a \o b)[j] = IF j <= Len(a) THEN a[j] ELSE b[j - Len(a)]
  BY <1>2, <1>3, ConcatProperties
<1>6. Len(a) + Len(b) = Len(s) - 1
  BY <1>1, <1>2, <1>3
<1>7. ASSUME NEW j \in 1 .. Len(s) - 1
      PROVE  (a \o b)[j] = IF j < i THEN s[j] ELSE s[j + 1]
  <2>1. CASE j < i
    <3>1. j \in 1 .. i - 1 /\ j <= Len(a) /\ j \in 1 .. Len(a) + Len(b)
      BY <2>1, <1>1, <1>2, <1>6
    <3> QED BY <3>1, <2>1, <1>2, <1>5
  <2>2. CASE ~ (j < i)
    <3>1. /\ ~ (j <= Len(a)) /\ j \in 1 .. Len(a) + Len(b)
          /\ j - Len(a) \in 1 .. Len(s) - i /\ i + (j - Len(a)) = j + 1
      BY <2>2, <1>1, <1>2, <1>6
    <3>2. (a \o b)[j] = b[j - Len(a)]
      BY <3>1, <1>5
    <3>3. b[j - Len(a)] = s[i + (j - Len(a))]
      BY <3>1, <1>3
    <3> QED BY <3>1, <3>2, <3>3, <2>2
  <2> QED BY <2>1, <2>2
<1> QED BY <1>4, <1>5, <1>6, <1>7


-----------------------------------------------------------------------------

\* The node's state changes, and nothing else in the row.
LEMMA StateSet ==
  ASSUME NEW row \in Row, NEW n, NEW state \in {"running", "suspended", "done"}
  PROVE  \E t \in Trees :
           /\ SetState(row, n, state) = [row EXCEPT !.nodes = t]
           /\ DOMAIN t = DOMAIN row.nodes
           /\ \A m \in DOMAIN t : t[m] = IF m = n THEN [row.nodes[m] EXCEPT !.state = state]
                                                  ELSE row.nodes[m]
<1>1. row.nodes \in Trees
  BY DEF Row
<1>2. /\ row.nodes = [x \in DOMAIN row.nodes |-> row.nodes[x]]
      /\ DOMAIN row.nodes \subseteq Nodes
      /\ \A x \in DOMAIN row.nodes : row.nodes[x] \in Node
  BY <1>1, TreesAre
<1> DEFINE t == [m \in DOMAIN row.nodes |-> IF m = n THEN [row.nodes[m] EXCEPT !.state = state]
                                                    ELSE row.nodes[m]]
<1>3. \A m \in DOMAIN row.nodes : [row.nodes[m] EXCEPT !.state = state] \in Node
  BY <1>2 DEF Node
<1>4. t \in Trees
  <2>1. t = [x \in DOMAIN t |-> t[x]] /\ DOMAIN t \subseteq Nodes /\ \A x \in DOMAIN t : t[x] \in Node
    BY <1>2, <1>3
  <2> HIDE DEF t
  <2> QED BY <2>1, TreesAre
<1>5. SetState(row, n, state) = [row EXCEPT !.nodes = t]
  <2>1. CASE n \in DOMAIN row.nodes
    <3>1. [row.nodes EXCEPT ![n].state = state] = t
      BY <1>2, <2>1
    <3>2. SetState(row, n, state) = [row EXCEPT !.nodes = [row.nodes EXCEPT ![n].state = state]]
      BY <2>1 DEF SetState, Row
    <3> HIDE DEF t
    <3> QED BY <3>1, <3>2
  <2>2. CASE n \notin DOMAIN row.nodes
    <3>1. t = row.nodes
      BY <1>2, <2>2
    <3>2. [row EXCEPT !.nodes = row.nodes] = row
      BY DEF Row
    <3> HIDE DEF t
    <3> QED BY <2>2, <3>1, <3>2 DEF SetState
  <2> QED BY <2>1, <2>2
<1> QED BY <1>4, <1>5

\* What of a row only requests, watchdog and workers change.
Alike(row, new) ==
  /\ new.seq = row.seq /\ new.done = row.done /\ new.live = row.live
  /\ new.started = row.started /\ new.blockCount = row.blockCount
  /\ new.spans = row.spans /\ new.stalled = row.stalled

\* A frame joins the tree and the stack.
LEMMA EnteredRow ==
  ASSUME NEW row \in Row, NEW n \in Nodes, NEW where \in {"loop", "pool"},
         NEW parent \in Nodes \cup {None}
  PROVE  Entered(row, n, where, parent) \in Row /\ Alike(row, Entered(row, n, where, parent))
<1> DEFINE under == IF parent \in DOMAIN row.nodes THEN parent ELSE None
           node == [state |-> "running", where |-> where, parent |-> under, offloaded |-> FALSE]
           t == With(row.nodes, n, node)
<1>1. /\ row.nodes = [x \in DOMAIN row.nodes |-> row.nodes[x]]
      /\ DOMAIN row.nodes \subseteq Nodes
      /\ \A x \in DOMAIN row.nodes : row.nodes[x] \in Node
  <2>1. row.nodes \in Trees
    BY DEF Row
  <2> QED BY <2>1, TreesAre
<1>2. node \in Node
  BY <1>1 DEF Node
<1>3. /\ DOMAIN t = DOMAIN row.nodes \cup {n} /\ t[n] = node
      /\ \A m \in DOMAIN row.nodes : m # n => t[m] = row.nodes[m]
      /\ t = [x \in DOMAIN t |-> t[x]]
  BY DEF With
<1>4. t \in Trees
  <2>1. DOMAIN t \subseteq Nodes /\ \A x \in DOMAIN t : t[x] \in Node
    BY <1>1, <1>2, <1>3
  <2> HIDE DEF t
  <2> QED BY <1>3, <2>1, TreesAre
<1>5. Append(row.stack, n) \in Seq(Nodes)
  <2>1. row.stack \in Seq(Nodes)
    BY DEF Row
  <2> QED BY <2>1, AppendProperties
<1>6. Entered(row, n, where, parent) =
        [row EXCEPT !.sawLoop = row.sawLoop \/ where = "loop", !.sawPool = row.sawPool \/ where = "pool",
                    !.nodes = t, !.stack = Append(row.stack, n)]
  BY DEF Entered, Row
<1> HIDE DEF t
<1> QED BY <1>4, <1>5, <1>6 DEF Row, Alike

\* The row when a frame leaves.
Returned(row, n) ==
  LET told == SetState(row, n, "done")
      at == {i \in DOMAIN told.stack : told.stack[i] = n}
  IN [told EXCEPT !.stack = IF at = {} THEN @ ELSE RemoveAt(@, Max(at))]

\* It leaves the stack wherever it is.
LEMMA LeavesRow ==
  ASSUME NEW row \in Row, NEW n \in Nodes
  PROVE  Returned(row, n) \in Row /\ Alike(row, Returned(row, n))
<1>1. PICK t \in Trees : SetState(row, n, "done") = [row EXCEPT !.nodes = t]
  BY StateSet
<1> DEFINE at == {i \in DOMAIN row.stack : row.stack[i] = n}
           s == IF at = {} THEN row.stack ELSE RemoveAt(row.stack, Max(at))
<1>2. row.stack \in Seq(Nodes) /\ Len(row.stack) \in Nat /\ DOMAIN row.stack = 1 .. Len(row.stack)
  BY LenProperties DEF Row
<1>3. [row EXCEPT !.nodes = t].stack = row.stack
  BY DEF Row
<1>4. Returned(row, n) = [row EXCEPT !.nodes = t, !.stack = s]
  <2>1. Returned(row, n) = [[row EXCEPT !.nodes = t] EXCEPT !.stack = s]
    BY <1>1, <1>3 DEF Returned
  <2> HIDE DEF s
  <2>2. [[row EXCEPT !.nodes = t] EXCEPT !.stack = s] = [row EXCEPT !.nodes = t, !.stack = s]
    BY DEF Row
  <2> QED BY <2>1, <2>2
<1>5. s \in Seq(Nodes)
  <2>1. CASE at = {}
    BY <1>2, <2>1
  <2>2. CASE at # {}
    <3>1. Max(at) \in at
      <4>1. at \in SUBSET (1 .. Len(row.stack))
        BY <1>2
      <4> HIDE DEF at
      <4> QED BY <1>2, <2>2, <4>1, FirstAndLast
    <3>2. Max(at) \in 1 .. Len(row.stack)
      BY <1>2, <3>1
    <3>3. s = RemoveAt(row.stack, Max(at))
      BY <2>2
    <3> HIDE DEF s, at
    <3> QED BY <1>2, <3>2, <3>3, Removed
  <2> QED BY <2>1, <2>2
<1> HIDE DEF s
<1> QED BY <1>4, <1>5 DEF Row, Alike

-----------------------------------------------------------------------------

\* A span goes to the end of the list.
LEMMA SpanAdded ==
  ASSUME NEW s \in Seq(Span), NEW n \in Nodes, NEW b \in BOOLEAN
  PROVE  LET u == Append(s, [node |-> n, ended |-> b]) IN u \in Seq(Span) /\ Len(u) = Len(s) + 1
<1> DEFINE x == [node |-> n, ended |-> b]
<1>1. x \in Span
  BY DEF Span
<1> HIDE DEF x
<1>2. Append(s, x) \in Seq(Span) /\ Len(Append(s, x)) = Len(s) + 1
  BY <1>1, AppendProperties
<1> QED BY <1>2 DEF x

\* What of a row the watchdog and the timer leave alone; a list of spans that
\* was counted right still is.
Spanned(row, new) ==
  /\ new.seq = row.seq /\ new.done = row.done /\ new.live = row.live /\ new.started = row.started
  /\ row.blockCount = Len(row.spans) => new.blockCount = Len(new.spans)

\* The row when the watchdog finds the loop frozen in a frame of it.
Freezes(row, n) ==
  LET listed == \E i \in DOMAIN row.spans : row.spans[i].node = n
      opened == IF listed THEN row
                ELSE [row EXCEPT !.spans = Append(@, [node |-> n, ended |-> FALSE]),
                                 !.blockCount = @ + 1]
  IN [opened EXCEPT !.stalled = TRUE]

\* A span is opened unless there is one of the frame.
LEMMA FreezesRow ==
  ASSUME NEW row \in Row, NEW n \in Nodes
  PROVE  Freezes(row, n) \in Row /\ Spanned(row, Freezes(row, n))
<1> DEFINE u == Append(row.spans, [node |-> n, ended |-> FALSE])
           listed == \E i \in DOMAIN row.spans : row.spans[i].node = n
           s == IF listed THEN row.spans ELSE u
           c == IF listed THEN row.blockCount ELSE row.blockCount + 1
<1>1. row.spans \in Seq(Span) /\ row.blockCount \in Nat
  BY DEF Row
<1>2. u \in Seq(Span) /\ Len(u) = Len(row.spans) + 1
  BY <1>1, SpanAdded
<1>3. Freezes(row, n) = [row EXCEPT !.spans = s, !.blockCount = c, !.stalled = TRUE]
  <2>1. CASE listed
    BY <2>1 DEF Freezes, Row, listed
  <2>2. CASE ~ listed
    BY <2>2 DEF Freezes, Row, listed, u
  <2> QED BY <2>1, <2>2
<1> HIDE DEF u, listed
<1>4. s \in Seq(Span) /\ c \in Nat /\ (row.blockCount = Len(row.spans) => c = Len(s))
  BY <1>1, <1>2
<1> HIDE DEF s, c
<1> QED BY <1>3, <1>4 DEF Row, Spanned

\* The hold that is over is one more span that has ended, be it a new one or one
\* that was open.
LEMMA BlockedRow ==
  ASSUME NEW row \in Row, NEW n \in Nodes
  PROVE  /\ Blocked(row, n) \in Row /\ Spanned(row, Blocked(row, n))
         /\ Blocked(row, n).stalled = row.stalled
<1> DEFINE opens == {i \in DOMAIN row.spans : row.spans[i].node = n /\ ~ row.spans[i].ended}
<1>1. /\ row.spans \in Seq(Span) /\ row.blockCount \in Nat /\ Len(row.spans) \in Nat
      /\ DOMAIN row.spans = 1 .. Len(row.spans)
  BY LenProperties DEF Row
<1>2. CASE opens = {}
  <2> DEFINE u == Append(row.spans, [node |-> n, ended |-> TRUE])
             c == row.blockCount + 1
  <2>0. u \in Seq(Span) /\ Len(u) = Len(row.spans) + 1
    BY <1>1, SpanAdded
  <2>1. u \in Seq(Span) /\ Len(u) = Len(row.spans) + 1 /\ c \in Nat
    BY <1>1, <2>0
  <2>2. Blocked(row, n) = [row EXCEPT !.spans = u, !.blockCount = c]
    BY <1>2 DEF Blocked, Row
  <2>3. row.blockCount = Len(row.spans) => c = Len(u)
    BY <2>1
  <2> HIDE DEF u, c
  <2> QED BY <2>1, <2>2, <2>3 DEF Row, Spanned
<1>3. CASE opens # {}
  <2> DEFINE m == Min(opens)
  <2>1. m \in opens
    <3>1. opens \in SUBSET (1 .. Len(row.spans))
      BY <1>1
    <3> HIDE DEF opens
    <3> QED BY <1>1, <1>3, <3>1, FirstAndLast
  <2>2. m \in DOMAIN row.spans
    BY <2>1
  <2> DEFINE y == [row.spans[m] EXCEPT !.ended = TRUE]
             s == [row.spans EXCEPT ![m] = y]
  <2>3. row.spans[m] \in Span
    BY <1>1, <2>2, ElementOfSeq
  <2>4. y \in Span
    BY <2>3 DEF Span
  <2>5. Blocked(row, n) = [row EXCEPT !.spans = s]
    BY <1>3 DEF Blocked, Row
  <2> HIDE DEF opens, m, y
  <2>6. s \in Seq(Span) /\ Len(s) = Len(row.spans)
    BY <1>1, <2>2, <2>4, ExceptSeq
  <2> HIDE DEF s
  <2> QED BY <2>5, <2>6 DEF Row, Spanned
<1> QED BY <1>2, <1>3

\* A node is marked as being on a worker or not, and nothing else in the row.
LEMMA OffloadedSet ==
  ASSUME NEW row \in Row, NEW n, NEW b \in BOOLEAN
  PROVE  \E t \in Trees : SetOffloaded(row, n, b) = [row EXCEPT !.nodes = t]
<1>1. row.nodes \in Trees
  BY DEF Row
<1>2. /\ row.nodes = [x \in DOMAIN row.nodes |-> row.nodes[x]]
      /\ DOMAIN row.nodes \subseteq Nodes
      /\ \A x \in DOMAIN row.nodes : row.nodes[x] \in Node
  BY <1>1, TreesAre
<1>3. CASE n \in DOMAIN row.nodes
  <2> DEFINE y == [row.nodes[n] EXCEPT !.offloaded = b]
             t == [row.nodes EXCEPT ![n] = y]
  <2>1. y \in Node
    BY <1>2, <1>3 DEF Node
  <2>2. SetOffloaded(row, n, b) = [row EXCEPT !.nodes = t]
    BY <1>3 DEF SetOffloaded, Row
  <2> HIDE DEF y
  <2>3. t = [x \in DOMAIN t |-> t[x]] /\ DOMAIN t = DOMAIN row.nodes /\ \A x \in DOMAIN t : t[x] \in Node
    BY <1>2, <2>1
  <2> HIDE DEF t
  <2>4. t \in Trees
    BY <1>2, <2>3, TreesAre
  <2> QED BY <2>2, <2>4
<1>4. CASE n \notin DOMAIN row.nodes
  <2>1. [row EXCEPT !.nodes = row.nodes] = row
    BY DEF Row
  <2> QED BY <1>1, <1>4, <2>1 DEF SetOffloaded
<1> QED BY <1>3, <1>4

\* What of a row a worker leaves alone.
Worked(row, new) ==
  /\ new.seq = row.seq /\ new.done = row.done /\ new.stalled = row.stalled
  /\ new.blockCount = row.blockCount /\ new.spans = row.spans

\* The row when a worker starts for it.
Told(row, n) ==
  [SetOffloaded(row, n, TRUE) EXCEPT !.live = @ + 1, !.started = @ \cup {n}]

\* A frame that starts on a worker is counted once, however often it is told.
LEMMA ToldRow ==
  ASSUME NEW row \in Row, NEW n \in Nodes
  PROVE  /\ Told(row, n) \in Row /\ Worked(row, Told(row, n))
         /\ Told(row, n).live = row.live + 1 /\ Told(row, n).started = row.started \cup {n}
<1> DEFINE k == row.live + 1
           s == row.started \cup {n}
<1>1. PICK t \in Trees : SetOffloaded(row, n, TRUE) = [row EXCEPT !.nodes = t]
  BY OffloadedSet
<1>2. k \in Nat /\ s \in SUBSET Nodes
  BY DEF Row
<1>3. Told(row, n) = [row EXCEPT !.live = k, !.started = s, !.nodes = t]
  BY <1>1 DEF Told, Row
<1> HIDE DEF k, s
<1>4. /\ Told(row, n) \in Row /\ Worked(row, Told(row, n))
      /\ Told(row, n).live = k /\ Told(row, n).started = s
  BY <1>2, <1>3 DEF Row, Worked
<1> QED BY <1>4 DEF k, s

\* A worker that is done is counted down, if it was counted.
LEMMA EndedRow ==
  ASSUME NEW row \in Row, NEW n \in Nodes
  PROVE  /\ Ended(row, n) \in Row /\ Worked(row, Ended(row, n))
         /\ Ended(row, n).live = (IF row.live > 0 THEN row.live - 1 ELSE 0)
         /\ Ended(row, n).started = row.started \ {n}
<1> DEFINE k == IF row.live > 0 THEN row.live - 1 ELSE 0
           s == row.started \ {n}
<1>1. PICK t \in Trees : SetOffloaded(row, n, FALSE) = [row EXCEPT !.nodes = t]
  BY OffloadedSet
<1>2. row.live \in Nat /\ row.started \in SUBSET Nodes
  BY DEF Row
<1>3. k \in Nat /\ s \in SUBSET Nodes
  BY <1>2
<1>4. Ended(row, n) = [row EXCEPT !.live = k, !.started = s, !.nodes = t]
  BY <1>1 DEF Ended, Row
<1> HIDE DEF k, s
<1>5. /\ Ended(row, n) \in Row /\ Worked(row, Ended(row, n))
      /\ Ended(row, n).live = k /\ Ended(row, n).started = s
  BY <1>3, <1>4 DEF Row, Worked
<1> QED BY <1>5 DEF k, s

-----------------------------------------------------------------------------
(* What an event does to the client *)

\* No row comes or goes, and none is given another age.
Keeps(d, e) ==
  /\ e \in Dash /\ DOMAIN e.rows = DOMAIN d.rows
  /\ \A q \in DOMAIN d.rows : e.rows[q].seq = d.rows[q].seq
  /\ e.nextSeq = d.nextSeq /\ e.hidden = d.hidden /\ e.cap = d.cap

\* The counts of a row agree with its lists, and the frames it has seen start on
\* a worker are in S.
Settled(row, S) ==
  /\ row.blockCount = Len(row.spans)
  /\ IsFiniteSet(row.started) /\ row.started \subseteq S
  /\ row.live \in 0 .. Cardinality(row.started)

\* The rows are settled, and a finished one, whose request is in O, is quiet.
Calm(d, S, O) ==
  \A r \in DOMAIN d.rows :
    /\ Settled(d.rows[r], S)
    /\ d.rows[r].done => /\ r \in O /\ d.rows[r].live = 0 /\ ~ d.rows[r].stalled
                         /\ \A w \in d.workers : w[1] # r

\* One row is another, and so may be the holder, the workers and the stall.
Shift(d, r, row, h, W, z) ==
  [WithRow(d, r, row) EXCEPT !.holder = h, !.workers = W, !.stalled = z]

\* What the client may note of a stall, and of busy workers.
StallNote == [node : Nodes, trace : Traces] \cup {None}
Works == SUBSET (Traces \X Nodes)

\* A shift of one row is calm if that row is settled and, when done, quiet.
LEMMA Shifted ==
  ASSUME NEW d \in Dash, NEW r \in DOMAIN d.rows, NEW row \in Row, row.seq = d.rows[r].seq,
         NEW h \in Traces \cup {None}, NEW W \in Works, NEW z \in StallNote
  PROVE  /\ Keeps(d, Shift(d, r, row, h, W, z))
         /\ \A S, T, O, P :
              /\ Calm(d, S, O) /\ S \subseteq T /\ O \subseteq P
              /\ Settled(row, T)
              /\ row.done => /\ r \in P /\ row.live = 0 /\ ~ row.stalled
                             /\ \A w \in W : w[1] # r
              /\ \A w \in W : w \in d.workers \/ w[1] = r
              => Calm(Shift(d, r, row, h, W, z), T, P)
<1> DEFINE c == WithRow(d, r, row)
           e == Shift(d, r, row, h, W, z)
<1>1. /\ c \in Dash /\ Instead(d, c, r, row)
      /\ c.nextSeq = d.nextSeq /\ c.hidden = d.hidden /\ c.before = d.before /\ c.cap = d.cap
  BY OtherRow
<1>2. e = [c EXCEPT !.holder = h, !.workers = W, !.stalled = z]
  BY DEF Shift
<1> HIDE DEF c, e
<1>3. /\ e \in Dash /\ e.rows = c.rows /\ e.nextSeq = d.nextSeq /\ e.hidden = d.hidden
      /\ e.cap = d.cap /\ e.workers = W
  BY <1>1, <1>2 DEF Dash, Works, StallNote
<1>4. /\ DOMAIN e.rows = DOMAIN d.rows /\ e.rows[r] = row
      /\ \A q \in DOMAIN d.rows : q # r => e.rows[q] = d.rows[q]
  BY <1>1, <1>3 DEF Instead
<1>5. Keeps(d, e)
  BY <1>3, <1>4 DEF Keeps
<1>6. ASSUME NEW S, NEW T, NEW O, NEW P,
             Calm(d, S, O), S \subseteq T, O \subseteq P, Settled(row, T),
             row.done => /\ r \in P /\ row.live = 0 /\ ~ row.stalled /\ \A w \in W : w[1] # r,
             \A w \in W : w \in d.workers \/ w[1] = r
      PROVE  Calm(e, T, P)
  <2> SUFFICES ASSUME NEW q \in DOMAIN d.rows
               PROVE  /\ Settled(e.rows[q], T)
                      /\ e.rows[q].done => /\ q \in P /\ e.rows[q].live = 0 /\ ~ e.rows[q].stalled
                                           /\ \A w \in e.workers : w[1] # q
    BY <1>4 DEF Calm
  <2>1. CASE q = r
    BY <1>3, <1>4, <1>6, <2>1
  <2>2. CASE q # r
    <3>1. e.rows[q] = d.rows[q]
      BY <1>4, <2>2
    <3>2. Settled(d.rows[q], S)
      BY <1>6 DEF Calm
    <3>3. Settled(d.rows[q], T)
      BY <1>6, <3>2 DEF Settled
    <3>4. d.rows[q].done => /\ q \in P /\ d.rows[q].live = 0 /\ ~ d.rows[q].stalled
                            /\ \A w \in W : w[1] # q
      BY <1>6, <2>2 DEF Calm
    <3> QED BY <1>3, <3>1, <3>3, <3>4
  <2> QED BY <2>1, <2>2
<1> QED BY <1>5, <1>6 DEF e

\* No row is touched.
LEMMA Aside ==
  ASSUME NEW d \in Dash, NEW e \in Dash, e.rows = d.rows, e.nextSeq = d.nextSeq,
         e.hidden = d.hidden, e.cap = d.cap, e.workers \subseteq d.workers
  PROVE  /\ Keeps(d, e)
         /\ \A S, T, O, P : Calm(d, S, O) /\ S \subseteq T /\ O \subseteq P => Calm(e, T, P)
<1>1. Keeps(d, e)
  BY DEF Keeps
<1>2. ASSUME NEW S, NEW T, NEW O, NEW P, Calm(d, S, O), S \subseteq T, O \subseteq P
      PROVE  Calm(e, T, P)
  BY <1>2 DEF Calm, Settled
<1> QED BY <1>1, <1>2

\* A shift that leaves the row as busy, as finished and as counted as it was.
LEMMA ShiftedCalmly ==
  ASSUME NEW d \in Dash, NEW r \in DOMAIN d.rows, NEW row \in Row, row.seq = d.rows[r].seq,
         NEW h \in Traces \cup {None}, NEW z \in StallNote,
         row.done = d.rows[r].done, row.live = d.rows[r].live, row.started = d.rows[r].started,
         d.rows[r].blockCount = Len(d.rows[r].spans) => row.blockCount = Len(row.spans),
         row.stalled => d.rows[r].stalled \/ ~ row.done
  PROVE  /\ Keeps(d, Shift(d, r, row, h, d.workers, z))
         /\ \A S, O : Calm(d, S, O) => Calm(Shift(d, r, row, h, d.workers, z), S, O)
<1>1. d.workers \in Works
  BY DEF Dash, Works
<1>2. ASSUME NEW S, NEW O, Calm(d, S, O)
      PROVE  Calm(Shift(d, r, row, h, d.workers, z), S, O)
  <2>1. Settled(d.rows[r], S)
    BY <1>2 DEF Calm
  <2>2. Settled(row, S)
    BY <2>1 DEF Settled
  <2>3. row.done => /\ r \in O /\ row.live = 0 /\ ~ row.stalled
                    /\ \A w \in d.workers : w[1] # r
    BY <1>2 DEF Calm
  <2> QED BY <1>1, <1>2, <2>2, <2>3, Shifted
<1> QED BY <1>1, <1>2, Shifted

-----------------------------------------------------------------------------
(* One event after the other *)

\* Nothing the client shows as settled and quiet ceases to be.
Calms(d, e) == \A S, O : Calm(d, S, O) => Calm(e, S, O)

\* The parts of a client state.
LEMMA ClientTypes ==
  ASSUME NEW d \in Dash
  PROVE  /\ \A r \in DOMAIN d.rows : d.rows[r] \in Row /\ r \in Traces
         /\ d.holder \in Traces \cup {None} /\ d.workers \in Works /\ d.stalled \in StallNote
         /\ d.before \in Kept
<1>1. d.rows \in Rows
  BY DEF Dash
<1> QED BY <1>1, RowsAre DEF Dash, Works, StallNote

\* An event that is skipped changes nothing.
LEMMA Nothing == ASSUME NEW d \in Dash PROVE Keeps(d, d) /\ Calms(d, d)
BY DEF Keeps, Calms

\* A call_enter leaves every row as busy as it was.
LEMMA CallEnter ==
  ASSUME NEW d \in Dash, NEW r \in Traces, NEW n \in Nodes, NEW where \in {"loop", "pool"},
         NEW parent \in Nodes \cup {None}
  PROVE  LET e == OnCallEnter(d, r, n, where, parent) IN Keeps(d, e) /\ Calms(d, e)
<1>1. CASE r \in DOMAIN d.rows
  <2> DEFINE row == d.rows[r]
             new == Entered(row, n, where, parent)
             h == IF where = "loop" THEN r ELSE d.holder
  <2>1. row \in Row /\ h \in Traces \cup {None} /\ d.workers \in Works /\ d.stalled \in StallNote
    BY <1>1, ClientTypes
  <2>2. new \in Row /\ Alike(row, new)
    BY <2>1, EnteredRow
  <2>3. OnCallEnter(d, r, n, where, parent) = Shift(d, r, new, h, d.workers, d.stalled)
    BY <1>1 DEF OnCallEnter, Has, Shift, WithRow, Dash
  <2> HIDE DEF new, h
  <2>4. /\ Keeps(d, Shift(d, r, new, h, d.workers, d.stalled))
        /\ Calms(d, Shift(d, r, new, h, d.workers, d.stalled))
    BY <1>1, <2>1, <2>2, ShiftedCalmly DEF Calms, Alike
  <2> QED BY <2>3, <2>4
<1>2. CASE r \notin DOMAIN d.rows
  BY <1>2, Nothing DEF OnCallEnter, Has
<1> QED BY <1>1, <1>2

\* So does a call_exit.
LEMMA CallExit ==
  ASSUME NEW d \in Dash, NEW r \in Traces, NEW n \in Nodes
  PROVE  LET e == OnCallExit(d, r, n) IN Keeps(d, e) /\ Calms(d, e)
<1>1. CASE r \in DOMAIN d.rows
  <2> DEFINE row == d.rows[r]
             new == Returned(row, n)
  <2>1. row \in Row /\ d.holder \in Traces \cup {None} /\ d.stalled \in StallNote
    BY <1>1, ClientTypes
  <2>2. new \in Row /\ Alike(row, new)
    BY <2>1, LeavesRow
  <2>4. OnCallExit(d, r, n) = WithRow(d, r, new)
    BY <1>1 DEF OnCallExit, Has, Returned
  <2> HIDE DEF new
  <2>5. WithRow(d, r, new) = Shift(d, r, new, d.holder, d.workers, d.stalled)
    BY DEF Shift, WithRow, Dash
  <2> HIDE DEF row
  <2>6. /\ Keeps(d, Shift(d, r, new, d.holder, d.workers, d.stalled))
        /\ Calms(d, Shift(d, r, new, d.holder, d.workers, d.stalled))
    BY <1>1, <2>1, <2>2, ShiftedCalmly DEF Calms, Alike, row
  <2> QED BY <2>4, <2>5, <2>6
<1>2. CASE r \notin DOMAIN d.rows
  BY <1>2, Nothing DEF OnCallExit, Has
<1> QED BY <1>1, <1>2

\* Only the state of a node, and whom the loop is shown with.
LEMMA StateStep ==
  ASSUME NEW d \in Dash, NEW r \in DOMAIN d.rows, NEW n,
         NEW state \in {"running", "suspended", "done"}, NEW h \in Traces \cup {None}
  PROVE  LET e == [WithRow(d, r, SetState(d.rows[r], n, state)) EXCEPT !.holder = h] IN
         Keeps(d, e) /\ Calms(d, e)
<1> DEFINE row == d.rows[r]
           new == SetState(row, n, state)
<1>1. row \in Row /\ d.stalled \in StallNote
  BY ClientTypes
<1>2. PICK t \in Trees : new = [row EXCEPT !.nodes = t]
  BY <1>1, StateSet
<1>3. new \in Row /\ Alike(row, new)
  BY <1>1, <1>2 DEF Row, Alike
<1> HIDE DEF new
<1>4. [WithRow(d, r, new) EXCEPT !.holder = h] = Shift(d, r, new, h, d.workers, d.stalled)
  BY DEF Shift, WithRow, Dash
<1>5. Keeps(d, Shift(d, r, new, h, d.workers, d.stalled)) /\ Calms(d, Shift(d, r, new, h, d.workers, d.stalled))
  BY <1>1, <1>3, ShiftedCalmly DEF Calms, Alike
<1> QED BY <1>4, <1>5 DEF new

\* So does a suspend.
LEMMA Suspends ==
  ASSUME NEW d \in Dash, NEW r \in Traces, NEW n
  PROVE  LET e == OnSuspend(d, r, n) IN Keeps(d, e) /\ Calms(d, e)
<1>1. CASE r \in DOMAIN d.rows
  <2> DEFINE h == IF d.holder = r THEN None ELSE d.holder
             c == WithRow(d, r, SetState(d.rows[r], n, "suspended"))
  <2>1. h \in Traces \cup {None}
    BY ClientTypes
  <2>2. c.holder = d.holder
    BY DEF WithRow, Dash
  <2>3. OnSuspend(d, r, n) = [c EXCEPT !.holder = h]
    BY <1>1, <2>2 DEF OnSuspend, Has
  <2> HIDE DEF h
  <2> QED BY <1>1, <2>1, <2>3, StateStep
<1>2. CASE r \notin DOMAIN d.rows
  BY <1>2, Nothing DEF OnSuspend, Has
<1> QED BY <1>1, <1>2

\* So does a resume.
LEMMA Resumes ==
  ASSUME NEW d \in Dash, NEW r \in Traces, NEW n
  PROVE  LET e == OnResume(d, r, n) IN Keeps(d, e) /\ Calms(d, e)
<1>1. CASE r \in DOMAIN d.rows
  <2> DEFINE onLoop == n \in DOMAIN d.rows[r].nodes => d.rows[r].nodes[n].where = "loop"
             h == IF onLoop THEN r ELSE d.holder
             c == WithRow(d, r, SetState(d.rows[r], n, "running"))
  <2>1. h \in Traces \cup {None}
    BY ClientTypes
  <2>2. c.holder = d.holder
    BY DEF WithRow, Dash
  <2>3. OnResume(d, r, n) = [c EXCEPT !.holder = h]
    BY <1>1, <2>2 DEF OnResume, Has
  <2> HIDE DEF h
  <2> QED BY <1>1, <2>1, <2>3, StateStep
<1>2. CASE r \notin DOMAIN d.rows
  BY <1>2, Nothing DEF OnResume, Has
<1> QED BY <1>1, <1>2

\* A stall is shown at a row that is not finished.
LEMMA LoopStalled ==
  ASSUME NEW d \in Dash, NEW r \in Traces, NEW n \in Nodes
  PROVE  LET e == OnLoopStalled(d, r, n) IN Keeps(d, e) /\ Calms(d, e)
<1> DEFINE z == [node |-> n, trace |-> r]
<1>1. z \in StallNote
  BY DEF StallNote
<1> HIDE DEF z
<1>2. CASE r \in DOMAIN d.rows /\ ~ d.rows[r].done
  <2> DEFINE row == d.rows[r]
             new == Freezes(row, n)
  <2>1. row \in Row /\ d.holder \in Traces \cup {None}
    BY <1>2, ClientTypes
  <2>2. new \in Row /\ Spanned(row, new)
    BY <2>1, FreezesRow
  <2>3. OnLoopStalled(d, r, n) = [WithRow(d, r, new) EXCEPT !.stalled = z]
    BY <1>2 DEF OnLoopStalled, Has, Freezes, z
  <2> HIDE DEF new
  <2>4. [WithRow(d, r, new) EXCEPT !.stalled = z] = Shift(d, r, new, d.holder, d.workers, z)
    BY DEF Shift, WithRow, Dash
  <2>5. /\ Keeps(d, Shift(d, r, new, d.holder, d.workers, z))
        /\ Calms(d, Shift(d, r, new, d.holder, d.workers, z))
    BY <1>1, <1>2, <2>1, <2>2, ShiftedCalmly DEF Calms, Spanned
  <2> QED BY <2>3, <2>4, <2>5
<1>3. CASE ~ (r \in DOMAIN d.rows /\ ~ d.rows[r].done)
  <2> DEFINE e == [d EXCEPT !.stalled = z]
  <2>1. OnLoopStalled(d, r, n) = e
    BY <1>3 DEF OnLoopStalled, Has, z
  <2>2. /\ e \in Dash /\ e.rows = d.rows /\ e.nextSeq = d.nextSeq /\ e.hidden = d.hidden
        /\ e.cap = d.cap /\ e.workers = d.workers
    BY <1>1 DEF Dash, StallNote
  <2> HIDE DEF e
  <2> QED BY <2>1, <2>2, Aside DEF Calms
<1> QED BY <1>2, <1>3

\* A loop_unstalled only lifts a stall.
LEMMA LoopUnstalled ==
  ASSUME NEW d \in Dash
  PROVE  LET e == OnLoopUnstalled(d) IN Keeps(d, e) /\ Calms(d, e)
<1> DEFINE r == d.stalled.trace
<1>1. None \in StallNote
  BY DEF StallNote
<1>2. CASE d.stalled # None /\ r \in DOMAIN d.rows
  <2> DEFINE row == d.rows[r]
             new == [row EXCEPT !.stalled = FALSE]
  <2> HIDE DEF r
  <2>1. row \in Row /\ d.holder \in Traces \cup {None}
    BY <1>2, ClientTypes
  <2>2. /\ new \in Row /\ new.seq = row.seq /\ new.done = row.done /\ new.live = row.live
        /\ new.started = row.started /\ new.blockCount = row.blockCount /\ new.spans = row.spans
        /\ ~ new.stalled
    BY <2>1 DEF Row
  <2>3. OnLoopUnstalled(d) = [WithRow(d, r, new) EXCEPT !.stalled = None]
    BY <1>2 DEF OnLoopUnstalled, Has, r
  <2> HIDE DEF new
  <2>4. [WithRow(d, r, new) EXCEPT !.stalled = None] = Shift(d, r, new, d.holder, d.workers, None)
    BY DEF Shift, WithRow, Dash
  <2>5. /\ Keeps(d, Shift(d, r, new, d.holder, d.workers, None))
        /\ Calms(d, Shift(d, r, new, d.holder, d.workers, None))
    BY <1>1, <1>2, <2>1, <2>2, ShiftedCalmly DEF Calms
  <2> QED BY <2>3, <2>4, <2>5
<1>3. CASE ~ (d.stalled # None /\ r \in DOMAIN d.rows)
  <2> DEFINE e == [d EXCEPT !.stalled = None]
  <2>1. OnLoopUnstalled(d) = e
    BY <1>3 DEF OnLoopUnstalled, Has
  <2>2. /\ e \in Dash /\ e.rows = d.rows /\ e.nextSeq = d.nextSeq /\ e.hidden = d.hidden
        /\ e.cap = d.cap /\ e.workers = d.workers
    BY DEF Dash
  <2> HIDE DEF e
  <2> QED BY <2>1, <2>2, Aside DEF Calms
<1> QED BY <1>2, <1>3


\* A hold that is over is one span more, of the row or of those kept for later.
LEMMA LoopBlocked ==
  ASSUME NEW d \in Dash, NEW r \in Traces, NEW n \in Nodes
  PROVE  LET e == OnLoopBlocked(d, r, n) IN Keeps(d, e) /\ Calms(d, e)
<1>1. CASE r \in DOMAIN d.rows
  <2> DEFINE row == d.rows[r]
             new == Blocked(row, n)
  <2>1. row \in Row /\ d.holder \in Traces \cup {None} /\ d.stalled \in StallNote
    BY <1>1, ClientTypes
  <2>2. new \in Row /\ Spanned(row, new) /\ new.stalled = row.stalled
    BY <2>1, BlockedRow
  <2>3. OnLoopBlocked(d, r, n) = WithRow(d, r, new)
    BY <1>1 DEF OnLoopBlocked, Has
  <2> HIDE DEF new
  <2>4. WithRow(d, r, new) = Shift(d, r, new, d.holder, d.workers, d.stalled)
    BY DEF Shift, WithRow, Dash
  <2>5. /\ Keeps(d, Shift(d, r, new, d.holder, d.workers, d.stalled))
        /\ Calms(d, Shift(d, r, new, d.holder, d.workers, d.stalled))
    BY <1>1, <2>1, <2>2, ShiftedCalmly DEF Calms, Spanned
  <2> QED BY <2>3, <2>4, <2>5
<1>2. CASE r \notin DOMAIN d.rows
  <2> DEFINE pre == IF r \in DOMAIN d.before THEN d.before[r] ELSE <<>>
             post == Append(pre, [node |-> n, ended |-> TRUE])
             f == With(d.before, r, post)
             e == [d EXCEPT !.before = f]
  <2>1. /\ d.before = [x \in DOMAIN d.before |-> d.before[x]] /\ DOMAIN d.before \subseteq Traces
        /\ \A x \in DOMAIN d.before : d.before[x] \in Seq(Span)
    <3>1. d.before \in Kept
      BY ClientTypes
    <3> QED BY <3>1, KeptAre
  <2>2. pre \in Seq(Span)
    BY <2>1
  <2>3. post \in Seq(Span)
    BY <2>2, SpanAdded
  <2> HIDE DEF pre, post
  <2>4. /\ DOMAIN f = DOMAIN d.before \cup {r} /\ f[r] = post
        /\ \A z \in DOMAIN d.before : z # r => f[z] = d.before[z]
        /\ f = [z \in DOMAIN f |-> f[z]]
    BY DEF With
  <2> HIDE DEF f
  <2>5. f \in Kept
    BY <2>1, <2>3, <2>4, KeptAre
  <2>6. OnLoopBlocked(d, r, n) = e
    BY <1>2 DEF OnLoopBlocked, Has, f, post, pre
  <2>7. /\ e \in Dash /\ e.rows = d.rows /\ e.nextSeq = d.nextSeq /\ e.hidden = d.hidden
        /\ e.cap = d.cap /\ e.workers = d.workers
    BY <2>5 DEF Dash
  <2> HIDE DEF e
  <2> QED BY <2>6, <2>7, Aside DEF Calms
<1> QED BY <1>1, <1>2

\* A finished row is taken off the workers and is frozen no longer.
LEMMA RequestEnds ==
  ASSUME NEW d \in Dash, NEW r \in Traces
  PROVE  LET e == OnRequestEnd(d, r) IN
         /\ Keeps(d, e)
         /\ \A S, O : Calm(d, S, O) => Calm(e, S, O \cup {r})
<1>1. CASE r \in DOMAIN d.rows
  <2> DEFINE row == d.rows[r]
             new == [row EXCEPT !.done = TRUE, !.stalled = FALSE, !.live = 0, !.started = {}]
             W == {w \in d.workers : w[1] # r}
  <2>1. /\ row \in Row /\ d.holder \in Traces \cup {None} /\ d.stalled \in StallNote
        /\ d.workers \in Works
    BY <1>1, ClientTypes
  <2>2. /\ new \in Row /\ new.seq = row.seq /\ new.done /\ ~ new.stalled
        /\ new.live = 0 /\ new.started = {}
        /\ new.blockCount = row.blockCount /\ new.spans = row.spans
    BY <2>1 DEF Row
  <2>3. W \in Works /\ W \subseteq d.workers /\ \A w \in W : w[1] # r
    BY <2>1 DEF Works
  <2>4. OnRequestEnd(d, r) = [WithRow(d, r, new) EXCEPT !.workers = W]
    BY <1>1 DEF OnRequestEnd, Has, WithRow, Dash
  <2> HIDE DEF new, W
  <2>5. [WithRow(d, r, new) EXCEPT !.workers = W] = Shift(d, r, new, d.holder, W, d.stalled)
    BY DEF Shift, WithRow, Dash
  <2>6. Keeps(d, Shift(d, r, new, d.holder, W, d.stalled))
    BY <1>1, <2>1, <2>2, <2>3, Shifted
  <2>7. ASSUME NEW S, NEW O, Calm(d, S, O)
        PROVE  Calm(Shift(d, r, new, d.holder, W, d.stalled), S, O \cup {r})
    <3>1. Settled(row, S)
      BY <1>1, <2>7 DEF Calm
    <3>2. Settled(new, S)
      BY <2>2, <3>1, FS_EmptySet DEF Settled
    <3> DEFINE P == O \cup {r}
    <3>3. O \subseteq P /\ r \in P
      OBVIOUS
    <3> HIDE DEF P
    <3>4. Calm(Shift(d, r, new, d.holder, W, d.stalled), S, P)
      BY <1>1, <2>1, <2>2, <2>3, <2>7, <3>2, <3>3, Shifted
    <3> QED BY <3>4 DEF P
  <2> QED BY <2>4, <2>5, <2>6, <2>7
<1>2. CASE r \notin DOMAIN d.rows
  <2>1. OnRequestEnd(d, r) = d
    BY <1>2 DEF OnRequestEnd, Has
  <2>2. \A S, O : Calm(d, S, O) => Calm(d, S, O \cup {r})
    BY DEF Calm
  <2> QED BY <2>1, <2>2, Nothing
<1> QED BY <1>1, <1>2

\* A frame that was not seen before starts for a request that is not over.
LEMMA OffloadStarts ==
  ASSUME NEW d \in Dash, NEW r \in Traces, NEW n \in Nodes
  PROVE  LET e == OnOffloadStart(d, r, n) IN
         /\ Keeps(d, e)
         /\ \A S, O : Calm(d, S, O) /\ r \notin O /\ n \notin S => Calm(e, S \cup {n}, O)
<1>1. CASE r \in DOMAIN d.rows
  <2> DEFINE row == d.rows[r]
             new == Told(row, n)
             W == d.workers \cup {w \in {<<r, n>>} : Zone(row) = "loop"}
  <2>1. /\ row \in Row /\ d.holder \in Traces \cup {None} /\ d.stalled \in StallNote
        /\ d.workers \in Works
    BY <1>1, ClientTypes
  <2>2. new \in Row /\ Worked(row, new) /\ new.live = row.live + 1 /\ new.started = row.started \cup {n}
    BY <2>1, ToldRow
  <2>3. W \in Works /\ \A w \in W : w \in d.workers \/ w[1] = r
    BY <2>1 DEF Works
  <2>4. OnOffloadStart(d, r, n) = [WithRow(d, r, new) EXCEPT !.workers = W]
    BY <1>1 DEF OnOffloadStart, Has, WithRow, Dash, Told
  <2> HIDE DEF new, W
  <2>5. [WithRow(d, r, new) EXCEPT !.workers = W] = Shift(d, r, new, d.holder, W, d.stalled)
    BY DEF Shift, WithRow, Dash
  <2>6. Keeps(d, Shift(d, r, new, d.holder, W, d.stalled))
    BY <1>1, <2>1, <2>2, <2>3, Shifted DEF Worked
  <2>7. ASSUME NEW S, NEW O, Calm(d, S, O), r \notin O, n \notin S
        PROVE  Calm(Shift(d, r, new, d.holder, W, d.stalled), S \cup {n}, O)
    <3>1. Settled(row, S) /\ ~ row.done
      BY <1>1, <2>7 DEF Calm
    <3>2. IsFiniteSet(row.started) /\ n \notin row.started
      BY <2>7, <3>1 DEF Settled
    <3>3. IsFiniteSet(new.started) /\ Cardinality(new.started) = Cardinality(row.started) + 1
      <4>1. IsFiniteSet(row.started \cup {n}) /\ Cardinality(row.started \cup {n}) = Cardinality(row.started) + 1
        BY <3>2, FS_AddElement
      <4> QED BY <2>2, <4>1
    <3>4. Cardinality(row.started) \in Nat /\ row.live \in 0 .. Cardinality(row.started)
      BY <3>1, <3>2, FS_CardinalityType DEF Settled
    <3> DEFINE T == S \cup {n}
    <3>5. new.started \subseteq T /\ S \subseteq T
      BY <2>2, <3>1 DEF Settled
    <3> HIDE DEF T
    <3>6. new.live \in 0 .. Cardinality(new.started)
      BY <2>2, <3>3, <3>4
    <3>7. Settled(new, T)
      BY <2>2, <3>1, <3>3, <3>5, <3>6 DEF Settled, Worked
    <3>8. Calm(Shift(d, r, new, d.holder, W, d.stalled), T, O)
      BY <1>1, <2>1, <2>2, <2>3, <2>7, <3>1, <3>5, <3>7, Shifted DEF Worked
    <3> QED BY <3>8 DEF T
  <2> QED BY <2>4, <2>5, <2>6, <2>7
<1>2. CASE r \notin DOMAIN d.rows
  <2>1. OnOffloadStart(d, r, n) = d
    BY <1>2 DEF OnOffloadStart, Has
  <2>2. \A S, O : Calm(d, S, O) => Calm(d, S \cup {n}, O)
    BY DEF Calm, Settled
  <2> QED BY <2>1, <2>2, Nothing
<1> QED BY <1>1, <1>2

\* The end of one whose start was not seen is not counted below zero.
LEMMA OffloadEnds ==
  ASSUME NEW d \in Dash, NEW r \in Traces, NEW n \in Nodes
  PROVE  LET e == OnOffloadEnd(d, r, n) IN Keeps(d, e) /\ Calms(d, e)
<1> DEFINE W == d.workers \ {<<r, n>>}
<1>0. d.workers \in Works /\ W \in Works /\ W \subseteq d.workers
  BY ClientTypes DEF Works
<1>1. CASE r \in DOMAIN d.rows
  <2> DEFINE row == d.rows[r]
             new == Ended(row, n)
  <2>1. row \in Row /\ d.holder \in Traces \cup {None} /\ d.stalled \in StallNote
    BY <1>1, ClientTypes
  <2>2. /\ new \in Row /\ Worked(row, new)
        /\ new.live = (IF row.live > 0 THEN row.live - 1 ELSE 0) /\ new.started = row.started \ {n}
    BY <2>1, EndedRow
  <2>3. OnOffloadEnd(d, r, n) = [WithRow(d, r, new) EXCEPT !.workers = W]
    BY <1>1 DEF OnOffloadEnd, Has, WithRow, Dash
  <2> HIDE DEF new, W
  <2>4. [WithRow(d, r, new) EXCEPT !.workers = W] = Shift(d, r, new, d.holder, W, d.stalled)
    BY DEF Shift, WithRow, Dash
  <2>5. Keeps(d, Shift(d, r, new, d.holder, W, d.stalled))
    BY <1>0, <1>1, <2>1, <2>2, Shifted DEF Worked
  <2>6. ASSUME NEW S, NEW O, Calm(d, S, O)
        PROVE  Calm(Shift(d, r, new, d.holder, W, d.stalled), S, O)
    <3>1. Settled(row, S)
      BY <1>1, <2>6 DEF Calm
    <3>2. IsFiniteSet(row.started) /\ row.live \in 0 .. Cardinality(row.started)
      BY <3>1 DEF Settled
    <3>3. /\ IsFiniteSet(new.started) /\ Cardinality(row.started) \in Nat
          /\ Cardinality(new.started) = Cardinality(row.started) - (IF n \in row.started THEN 1 ELSE 0)
      <4>1. /\ IsFiniteSet(row.started \ {n})
            /\ Cardinality(row.started \ {n})
                 = IF n \in row.started THEN Cardinality(row.started) - 1 ELSE Cardinality(row.started)
        BY <3>2, FS_RemoveElement
      <4> QED BY <2>2, <3>2, <4>1, FS_CardinalityType
    <3>4. n \in row.started => Cardinality(row.started) > 0
      <4> SUFFICES ASSUME n \in row.started PROVE Cardinality(row.started) # 0
        BY <3>3
      <4> QED BY <3>2, FS_EmptySet
    <3>5. new.live \in 0 .. Cardinality(new.started)
      BY <2>2, <3>2, <3>3, <3>4
    <3>6. Settled(new, S)
      BY <2>2, <3>1, <3>3, <3>5 DEF Settled, Worked
    <3>7. new.done => /\ r \in O /\ new.live = 0 /\ ~ new.stalled /\ \A w \in W : w[1] # r
      <4> SUFFICES ASSUME new.done
                   PROVE  r \in O /\ new.live = 0 /\ ~ new.stalled /\ \A w \in W : w[1] # r
        OBVIOUS
      <4>1. r \in O /\ row.live = 0 /\ ~ row.stalled /\ \A w \in d.workers : w[1] # r
        BY <1>1, <2>2, <2>6 DEF Calm, Worked
      <4>2. new.live = 0 /\ ~ new.stalled
        BY <2>2, <4>1 DEF Worked
      <4> QED BY <1>0, <4>1, <4>2
    <3> QED BY <1>0, <1>1, <2>1, <2>2, <2>6, <3>6, <3>7, Shifted DEF Worked
  <2> QED BY <2>3, <2>4, <2>5, <2>6 DEF Calms
<1>2. CASE r \notin DOMAIN d.rows
  <2> DEFINE e == [d EXCEPT !.workers = W]
  <2>1. OnOffloadEnd(d, r, n) = e
    BY <1>2 DEF OnOffloadEnd, Has
  <2>2. /\ e \in Dash /\ e.rows = d.rows /\ e.nextSeq = d.nextSeq /\ e.hidden = d.hidden
        /\ e.cap = d.cap /\ e.workers = W
    BY <1>0 DEF Dash, Works
  <2> HIDE DEF e, W
  <2> QED BY <1>0, <2>1, <2>2, Aside DEF Calms
<1> QED BY <1>1, <1>2


\* Rows are numbered in the order they came.
Ages(d) ==
  /\ \A r \in DOMAIN d.rows : d.rows[r].seq < d.nextSeq
  /\ \A q, r \in DOMAIN d.rows : d.rows[q].seq = d.rows[r].seq => q = r

\* The row that makes room, if one must.
Gone(d) == IF Full(d) THEN {CHOOSE q \in Evictable(d) : TRUE} ELSE {}

\* A row is admitted: one more, youngest of all, in the place of the oldest finished
\* one if the table is full.
LEMMA Admitted ==
  ASSUME NEW d \in Dash, NEW r \in Traces, r \notin DOMAIN d.rows,
         ~ (Full(d) /\ Evictable(d) = {})
  PROVE  LET e == Admit(d, r) IN
         /\ e \in Dash
         /\ DOMAIN e.rows = (DOMAIN d.rows \ Gone(d)) \cup {r}
         /\ \A q \in DOMAIN d.rows \ Gone(d) : e.rows[q] = d.rows[q]
         /\ e.rows[r].seq = d.nextSeq /\ ~ e.rows[r].done /\ \A S : Settled(e.rows[r], S)
         /\ e.nextSeq = d.nextSeq + 1 /\ e.hidden = d.hidden /\ e.cap = d.cap /\ e.workers = d.workers
<1> DEFINE gone == CHOOSE q \in Evictable(d) : TRUE
           kept == IF Full(d) THEN Without(d.rows, gone) ELSE d.rows
           carried == IF r \in DOMAIN d.before THEN d.before[r] ELSE <<>>
           k == Len(carried)
           row == [EmptyRow(d.nextSeq) EXCEPT !.spans = carried, !.blockCount = Len(carried)]
           f == With(kept, r, row)
           b == Without(d.before, r)
           e == Admit(d, r)
<1>1. /\ d.rows = [x \in DOMAIN d.rows |-> d.rows[x]] /\ DOMAIN d.rows \subseteq Traces
      /\ \A x \in DOMAIN d.rows : d.rows[x] \in Row
  <2>1. d.rows \in Rows
    BY DEF Dash
  <2> QED BY <2>1, RowsAre
<1>2. /\ d.before = [x \in DOMAIN d.before |-> d.before[x]] /\ DOMAIN d.before \subseteq Traces
      /\ \A x \in DOMAIN d.before : d.before[x] \in Seq(Span)
  <2>1. d.before \in Kept
    BY ClientTypes
  <2> QED BY <2>1, KeptAre
<1>3. carried \in Seq(Span)
  BY <1>2
<1>4. /\ row \in Row /\ row.seq = d.nextSeq /\ ~ row.done /\ \A S : Settled(row, S)
  <2> HIDE DEF carried
  <2> DEFINE c == Len(carried)
             t == [x \in {} |-> x]
  <2>1. c \in Nat /\ d.nextSeq \in Nat
    BY <1>3, LenProperties DEF Dash
  <2>2. t \in Trees
    <3>1. t = [x \in DOMAIN t |-> t[x]] /\ DOMAIN t \subseteq Nodes /\ \A x \in DOMAIN t : t[x] \in Node
      OBVIOUS
    <3> HIDE DEF t
    <3> QED BY <3>1, TreesAre
  <2>3. << >> = t /\ << >> \in Seq(Nodes)
    BY EmptySeq
  <2> HIDE DEF c, t
  <2>4. /\ << >> \in Trees /\ << >> \in Seq(Nodes) /\ {} \in SUBSET Nodes /\ 0 \in Nat
        /\ {TRUE, FALSE} = BOOLEAN
    BY <2>2, <2>3
  <2> DEFINE v == EmptyRow(d.nextSeq)
  <2>5. v \in Row /\ v.seq = d.nextSeq /\ ~ v.done /\ v.live = 0 /\ v.started = {}
    BY <2>1, <2>4 DEF EmptyRow, Row
  <2>6. row = [v EXCEPT !.spans = carried, !.blockCount = c]
    BY DEF c
  <2> HIDE DEF row, v
  <2>8. row \in Row
    BY <1>3, <2>1, <2>5, <2>6 DEF Row
  <2>9. row.seq = d.nextSeq /\ ~ row.done /\ row.live = 0 /\ row.started = {}
        /\ row.blockCount = c /\ row.spans = carried
    BY <2>5, <2>6 DEF Row
  <2>7. \A S : Settled(row, S)
    BY <2>9, FS_EmptySet DEF Settled, c
  <2> QED BY <2>7, <2>8, <2>9
<1>5. /\ DOMAIN kept = DOMAIN d.rows \ Gone(d)
      /\ \A q \in DOMAIN kept : kept[q] = d.rows[q]
  <2>1. CASE Full(d)
    <3>1. kept = Without(d.rows, gone) /\ Gone(d) = {gone}
      BY <2>1 DEF Gone
    <3> HIDE DEF kept, gone
    <3> QED BY <3>1 DEF Without
  <2>2. CASE ~ Full(d)
    BY <2>2 DEF Gone
  <2> QED BY <2>1, <2>2
<1> HIDE DEF kept, row
<1>6. /\ DOMAIN f = (DOMAIN d.rows \ Gone(d)) \cup {r} /\ f[r] = row
      /\ \A q \in DOMAIN d.rows \ Gone(d) : f[q] = d.rows[q]
      /\ f = [z \in DOMAIN f |-> f[z]]
  <2>1. /\ DOMAIN f = DOMAIN kept \cup {r} /\ f[r] = row
        /\ \A z \in DOMAIN kept : z # r => f[z] = kept[z]
        /\ f = [z \in DOMAIN f |-> f[z]]
    BY DEF With
  <2> HIDE DEF f
  <2> QED BY <1>5, <2>1
<1>7. /\ DOMAIN b \subseteq DOMAIN d.before /\ b = [z \in DOMAIN b |-> b[z]]
      /\ \A z \in DOMAIN b : b[z] = d.before[z]
  BY DEF Without
<1>8. e = [d EXCEPT !.rows = f, !.nextSeq = d.nextSeq + 1, !.before = b]
  BY DEF Admit, Dash, kept, row
<1> HIDE DEF f, b, e
<1>9. f \in Rows
  <2>1. DOMAIN f \subseteq Traces /\ \A q \in DOMAIN f : f[q] \in Row
    BY <1>1, <1>4, <1>6
  <2> QED BY <1>6, <2>1, RowsAre
<1>10. b \in Kept
  <2>1. DOMAIN b \subseteq Traces /\ \A x \in DOMAIN b : b[x] \in Seq(Span)
    BY <1>2, <1>7
  <2> QED BY <1>7, <2>1, KeptAre
<1>11. /\ e \in Dash /\ e.rows = f
       /\ e.nextSeq = d.nextSeq + 1 /\ e.hidden = d.hidden /\ e.cap = d.cap /\ e.workers = d.workers
  <2> DEFINE m == d.nextSeq + 1
  <2>1. m \in Nat
    BY DEF Dash
  <2> HIDE DEF m
  <2>2. e = [d EXCEPT !.rows = f, !.nextSeq = m, !.before = b]
    BY <1>8 DEF m
  <2>3. /\ e \in Dash /\ e.rows = f
        /\ e.nextSeq = m /\ e.hidden = d.hidden /\ e.cap = d.cap /\ e.workers = d.workers
    BY <1>9, <1>10, <2>1, <2>2 DEF Dash
  <2> QED BY <2>3 DEF m
<1> QED BY <1>4, <1>6, <1>11 DEF e

\* A request that starts gets a row if there is room, and is counted if not; the
\* row that makes room is the oldest of the finished ones.
LEMMA RequestStarts ==
  ASSUME NEW d \in Dash, NEW r \in Traces
  PROVE  LET e == OnRequestStart(d, r) IN
         /\ e \in Dash /\ Calms(d, e) /\ e.cap = d.cap
         /\ DOMAIN e.rows \ DOMAIN d.rows \subseteq {r}
         /\ e.hidden = IF r \in DOMAIN e.rows THEN d.hidden ELSE d.hidden + 1
         /\ Ages(d) =>
              /\ Ages(e)
              /\ \A g \in DOMAIN d.rows \ DOMAIN e.rows :
                   /\ d.rows[g].done /\ Full(d)
                   /\ \A q \in DOMAIN e.rows \cap DOMAIN d.rows :
                        d.rows[q].done => d.rows[g].seq < d.rows[q].seq
<1> DEFINE e == OnRequestStart(d, r)
<1>1. CASE r \in DOMAIN d.rows
  <2>1. e = d
    BY <1>1 DEF OnRequestStart, Has
  <2> HIDE DEF e
  <2> QED BY <1>1, <2>1, Nothing DEF e
<1>2. CASE r \notin DOMAIN d.rows /\ Full(d) /\ Evictable(d) = {}
  <2>1. e = [d EXCEPT !.hidden = d.hidden + 1]
    BY <1>2 DEF OnRequestStart, Has, Admit, Dash
  <2> DEFINE m == d.hidden + 1
  <2>2. m \in Nat
    BY DEF Dash
  <2> HIDE DEF e, m
  <2>3. e = [d EXCEPT !.hidden = m]
    BY <2>1 DEF m
  <2>4. /\ e \in Dash /\ e.rows = d.rows /\ e.hidden = m /\ e.cap = d.cap /\ e.workers = d.workers
        /\ e.nextSeq = d.nextSeq
    BY <2>2, <2>3 DEF Dash
  <2>5. Calms(d, e)
    BY <2>4 DEF Calms, Calm
  <2>6. Ages(d) => Ages(e)
    BY <2>4 DEF Ages
  <2> QED BY <1>2, <2>4, <2>5, <2>6 DEF e, m
<1>3. CASE r \notin DOMAIN d.rows /\ ~ (Full(d) /\ Evictable(d) = {})
  <2>1. /\ Admit(d, r) \in Dash
        /\ DOMAIN Admit(d, r).rows = (DOMAIN d.rows \ Gone(d)) \cup {r}
        /\ \A q \in DOMAIN d.rows \ Gone(d) : Admit(d, r).rows[q] = d.rows[q]
        /\ Admit(d, r).rows[r].seq = d.nextSeq /\ ~ Admit(d, r).rows[r].done
        /\ \A S : Settled(Admit(d, r).rows[r], S)
        /\ Admit(d, r).nextSeq = d.nextSeq + 1 /\ Admit(d, r).hidden = d.hidden
        /\ Admit(d, r).cap = d.cap /\ Admit(d, r).workers = d.workers
    BY <1>3, Admitted
  <2>2. e = Admit(d, r)
    BY <1>3, <2>1 DEF OnRequestStart, Has
  <2> HIDE DEF e
  <2>3. /\ e \in Dash /\ DOMAIN e.rows = (DOMAIN d.rows \ Gone(d)) \cup {r}
        /\ \A q \in DOMAIN d.rows \ Gone(d) : e.rows[q] = d.rows[q]
        /\ e.rows[r].seq = d.nextSeq /\ ~ e.rows[r].done /\ \A S : Settled(e.rows[r], S)
        /\ e.nextSeq = d.nextSeq + 1 /\ e.hidden = d.hidden /\ e.cap = d.cap
        /\ e.workers = d.workers
    BY <2>1, <2>2
  <2>4. Calms(d, e)
    BY <2>3 DEF Calms, Calm
  <2>5. \A q \in DOMAIN d.rows : d.rows[q].seq \in Nat
    BY ClientTypes DEF Row
  <2>6. d.nextSeq \in Nat
    BY DEF Dash
  <2>7. ASSUME Ages(d) PROVE Ages(e)
    <3>1. ASSUME NEW q \in DOMAIN e.rows PROVE e.rows[q].seq < e.nextSeq
      BY <2>3, <2>5, <2>6, <2>7 DEF Ages
    <3>2. ASSUME NEW p \in DOMAIN e.rows, NEW q \in DOMAIN e.rows, e.rows[p].seq = e.rows[q].seq
          PROVE  p = q
      BY <2>3, <2>5, <2>6, <2>7, <3>2 DEF Ages
    <3> QED BY <3>1, <3>2 DEF Ages
  <2>8. ASSUME Ages(d), NEW g \in DOMAIN d.rows \ DOMAIN e.rows
        PROVE  /\ d.rows[g].done /\ Full(d)
               /\ \A q \in DOMAIN e.rows \cap DOMAIN d.rows :
                        d.rows[q].done => d.rows[g].seq < d.rows[q].seq
    <3>1. g \in Gone(d) /\ Full(d) /\ g = CHOOSE q \in Evictable(d) : TRUE
      BY <2>3, <2>8 DEF Gone
    <3>2. g \in Evictable(d)
      BY <1>3, <3>1
    <3>3. d.rows[g].done /\ \A q \in DOMAIN d.rows : d.rows[q].done => d.rows[g].seq <= d.rows[q].seq
      BY <3>2 DEF Evictable
    <3>4. \A q \in DOMAIN e.rows \cap DOMAIN d.rows : d.rows[q].seq # d.rows[g].seq
      BY <2>8 DEF Ages
    <3>5. ASSUME NEW q \in DOMAIN e.rows \cap DOMAIN d.rows, d.rows[q].done
          PROVE  d.rows[g].seq < d.rows[q].seq
      <4>1. /\ d.rows[g].seq \in Nat /\ d.rows[q].seq \in Nat
            /\ d.rows[g].seq <= d.rows[q].seq /\ d.rows[q].seq # d.rows[g].seq
        BY <2>5, <3>3, <3>4, <3>5
      <4> QED BY <4>1
    <3> QED BY <3>1, <3>3, <3>5
  <2> QED BY <2>3, <2>4, <2>7, <2>8 DEF e
<1> QED BY <1>1, <1>2, <1>3

-----------------------------------------------------------------------------
(* One event after the other *)

\* An event that says nothing of when requests start and end or workers start.
Plain(ev) ==
  \/ ev.trace = None
  \/ /\ ev.trace \in Traces /\ ev.node \in Nodes
     /\ \/ ev.kind \in {"call_exit", "suspend", "resume", "loop_stalled", "loop_unstalled",
                        "loop_blocked", "offload_end"}
        \/ /\ ev.kind = "call_enter"
           /\ ev.where \in {"loop", "pool"} /\ ev.parent \in Nodes \cup {None}

\* No plain event lets a row come or go.
LEMMA PlainEvents ==
  ASSUME NEW d \in Dash, NEW ev, Plain(ev)
  PROVE  Keeps(d, Ingest(d, ev)) /\ Calms(d, Ingest(d, ev))
<1>1. CASE ev.trace = None
  BY <1>1, Nothing DEF Ingest
<1>2. CASE ev.trace # None
  <2>1. ev.trace \in Traces /\ ev.node \in Nodes
    BY <1>2 DEF Plain
  <2>2. CASE ev.kind = "call_enter"
    <3>1. ev.where \in {"loop", "pool"} /\ ev.parent \in Nodes \cup {None}
      BY <1>2, <2>2 DEF Plain
    <3>2. Ingest(d, ev) = OnCallEnter(d, ev.trace, ev.node, ev.where, ev.parent)
      BY <1>2, <2>2 DEF Ingest
    <3> QED BY <2>1, <3>1, <3>2, CallEnter
  <2>3. CASE ev.kind = "call_exit"
    <3>1. Ingest(d, ev) = OnCallExit(d, ev.trace, ev.node)
      BY <1>2, <2>3 DEF Ingest
    <3> QED BY <2>1, <3>1, CallExit
  <2>4. CASE ev.kind = "suspend"
    <3>1. Ingest(d, ev) = OnSuspend(d, ev.trace, ev.node)
      BY <1>2, <2>4 DEF Ingest
    <3> QED BY <2>1, <3>1, Suspends
  <2>5. CASE ev.kind = "resume"
    <3>1. Ingest(d, ev) = OnResume(d, ev.trace, ev.node)
      BY <1>2, <2>5 DEF Ingest
    <3> QED BY <2>1, <3>1, Resumes
  <2>6. CASE ev.kind = "loop_stalled"
    <3>1. Ingest(d, ev) = OnLoopStalled(d, ev.trace, ev.node)
      BY <1>2, <2>6 DEF Ingest
    <3> QED BY <2>1, <3>1, LoopStalled
  <2>7. CASE ev.kind = "loop_unstalled"
    <3>1. Ingest(d, ev) = OnLoopUnstalled(d)
      BY <1>2, <2>7 DEF Ingest
    <3> QED BY <3>1, LoopUnstalled
  <2>8. CASE ev.kind = "loop_blocked"
    <3>1. Ingest(d, ev) = OnLoopBlocked(d, ev.trace, ev.node)
      BY <1>2, <2>8 DEF Ingest
    <3> QED BY <2>1, <3>1, LoopBlocked
  <2>9. CASE ev.kind = "offload_end"
    <3>1. Ingest(d, ev) = OnOffloadEnd(d, ev.trace, ev.node)
      BY <1>2, <2>9 DEF Ingest
    <3> QED BY <2>1, <3>1, OffloadEnds
  <2> QED BY <1>2, <2>2, <2>3, <2>4, <2>5, <2>6, <2>7, <2>8, <2>9 DEF Plain
<1> QED BY <1>1, <1>2

\* What arrives is taken in event by event, and an event that is shed changes
\* nothing.
LEMMA Arrival ==
  ASSUME NEW evs, NEW n \in Nat, DOMAIN evs = 1 .. n, Arrive(evs)
  PROVE  \E shed, f :
           /\ shed = {} \/ "loss" \in world.harm
           /\ f[0] = dash /\ f[n] = dash'
           /\ \A k \in 1 .. n : f[k] = IF k \in shed THEN f[k - 1] ELSE Ingest(f[k - 1], evs[k])
           /\ refused' = refused \cup
                {r \in Traces : /\ \E i \in 1 .. n \ shed : evs[i] = Event("request_start", r, None)
                                /\ ~ Has(dash', r)}
<1> DEFINE lost == Event("shed", None, None)
<1>1. PICK shed \in SUBSET DOMAIN evs :
        /\ shed = {} \/ "loss" \in world.harm
        /\ dash' = FoldLeft(Ingest, dash, [i \in DOMAIN evs |-> IF i \in shed THEN lost ELSE evs[i]])
        /\ refused' = refused \cup
             {r \in Traces : /\ \E i \in 1 .. n \ shed : evs[i] = Event("request_start", r, None)
                             /\ ~ Has(dash', r)}
  BY DEF Arrive
<1> DEFINE s == [i \in DOMAIN evs |-> IF i \in shed THEN lost ELSE evs[i]]
<1>2. DOMAIN s = 1 .. n
  OBVIOUS
<1>3. \A k \in 1 .. n : s[k] = IF k \in shed THEN lost ELSE evs[k]
  OBVIOUS
<1>4. lost.trace = None
  BY DEF Event
<1> HIDE DEF s, lost
<1>5. FoldLeft(Ingest, dash, s) = Taking!Folded(dash, s, 1 .. n)
  BY <1>2 DEF FoldLeft, MapThenFoldSet, Max, Taking!Folded, Taking!IsFold, Taking!Top
<1>6. PICK f : Taking!IsTrail(f, dash, s, n) /\ Taking!Folded(dash, s, 1 .. n) = f[n]
  BY Taking!FoldHasTrail
<1>7. f[0] = dash /\ \A k \in 1 .. n : f[k] = Ingest(f[k - 1], s[k])
  BY <1>6 DEF Taking!IsTrail
<1>8. \A d : Ingest(d, lost) = d
  BY <1>4 DEF Ingest
<1>9. \A k \in 1 .. n : f[k] = IF k \in shed THEN f[k - 1] ELSE Ingest(f[k - 1], evs[k])
  BY <1>3, <1>7, <1>8
<1>10. f[n] = dash'
  BY <1>1, <1>5, <1>6 DEF s
<1> QED BY <1>1, <1>7, <1>9, <1>10

\* One event, or two.
LEMMA OneArrives ==
  ASSUME NEW a, Arrive(<<a>>)
  PROVE  dash' = dash \/ dash' = Ingest(dash, a)
<1> DEFINE evs == <<a>>
<1>1. DOMAIN evs = 1 .. 1 /\ evs[1] = a
  OBVIOUS
<1> HIDE DEF evs
<1>2. Arrive(evs)
  BY DEF evs
<1>3. PICK shed, f :
        /\ f[0] = dash /\ f[1] = dash'
        /\ \A k \in 1 .. 1 : f[k] = IF k \in shed THEN f[k - 1] ELSE Ingest(f[k - 1], evs[k])
  <2>1. PICK shed, f :
           /\ shed = {} \/ "loss" \in world.harm
           /\ f[0] = dash /\ f[1] = dash'
           /\ \A k \in 1 .. 1 : f[k] = IF k \in shed THEN f[k - 1] ELSE Ingest(f[k - 1], evs[k])
           /\ refused' = refused \cup
                {r \in Traces : /\ \E i \in 1 .. 1 \ shed : evs[i] = Event("request_start", r, None)
                                /\ ~ Has(dash', r)}
    BY <1>1, <1>2, Arrival
  <2> QED BY <2>1, Zenon
<1>4. 1 \in 1 .. 1 /\ 1 - 1 = 0
  OBVIOUS
<1> QED BY <1>1, <1>3, <1>4

\* Two events arrive, of which any may be shed.
LEMMA TwoArrive ==
  ASSUME NEW a, NEW b, Arrive(<<a, b>>)
  PROVE  \E d : /\ d = dash \/ d = Ingest(dash, a)
                /\ dash' = d \/ dash' = Ingest(d, b)
<1> DEFINE evs == <<a, b>>
<1>1. DOMAIN evs = 1 .. 2 /\ evs[1] = a /\ evs[2] = b
  OBVIOUS
<1> HIDE DEF evs
<1>2. Arrive(evs)
  BY DEF evs
<1> DEFINE n == 2
<1>7. n \in Nat /\ DOMAIN evs = 1 .. n
  BY <1>1
<1> HIDE DEF n
<1>8. PICK shed, f :
        /\ shed = {} \/ "loss" \in world.harm
        /\ f[0] = dash /\ f[n] = dash'
        /\ \A k \in 1 .. n : f[k] = IF k \in shed THEN f[k - 1] ELSE Ingest(f[k - 1], evs[k])
        /\ refused' = refused \cup
             {r \in Traces : /\ \E i \in 1 .. n \ shed : evs[i] = Event("request_start", r, None)
                             /\ ~ Has(dash', r)}
  BY <1>2, <1>7, Arrival
<1>3. /\ f[0] = dash /\ f[2] = dash'
      /\ \A k \in 1 .. 2 : f[k] = f[k - 1] \/ f[k] = Ingest(f[k - 1], evs[k])
  BY <1>8 DEF n
<1>4. 1 \in 1 .. 2 /\ 1 - 1 = 0 /\ 2 \in 1 .. 2 /\ 2 - 1 = 1
  OBVIOUS
<1>5. f[1] = dash \/ f[1] = Ingest(dash, a)
  BY <1>1, <1>3, <1>4
<1>6. dash' = f[1] \/ dash' = Ingest(f[1], b)
  BY <1>1, <1>3, <1>4
<1> QED BY <1>5, <1>6

\* No request is refused unless one starts.
LEMMA NoneRefused ==
  ASSUME NEW evs, Arrive(evs), \A i \in DOMAIN evs : evs[i].kind # "request_start"
  PROVE  refused' = refused
<1>1. \A i \in DOMAIN evs : \A r : evs[i] # Event("request_start", r, None)
  <2>1. \A r : Event("request_start", r, None).kind = "request_start"
    BY DEF Event
  <2> QED BY <2>1
<1> QED BY <1>1 DEF Arrive

\* What plain events do, one or two of them.
LEMMA OnePlain ==
  ASSUME dash \in Dash, NEW a, Plain(a), a.kind # "request_start", Arrive(<<a>>)
  PROVE  Keeps(dash, dash') /\ Calms(dash, dash') /\ refused' = refused
<1>1. dash' = dash \/ dash' = Ingest(dash, a)
  BY OneArrives
<1>2. Keeps(dash, dash') /\ Calms(dash, dash')
  BY <1>1, PlainEvents, Nothing
<1>3. refused' = refused
  <2> DEFINE evs == <<a>>
  <2>1. \A i \in DOMAIN evs : evs[i].kind # "request_start"
    OBVIOUS
  <2> HIDE DEF evs
  <2>2. Arrive(evs)
    BY DEF evs
  <2> QED BY <2>1, <2>2, NoneRefused
<1> QED BY <1>2, <1>3

\* Two events in a row.
LEMMA Twice ==
  ASSUME NEW d, NEW e, NEW c, Keeps(d, e), Keeps(e, c)
  PROVE  Keeps(d, c)
BY DEF Keeps

\* Two plain events that arrive.
LEMMA TwoPlain ==
  ASSUME dash \in Dash, NEW a, Plain(a), a.kind # "request_start",
         NEW b, Plain(b), b.kind # "request_start", Arrive(<<a, b>>)
  PROVE  Keeps(dash, dash') /\ Calms(dash, dash') /\ refused' = refused
<1>1. PICK d : /\ d = dash \/ d = Ingest(dash, a)
               /\ dash' = d \/ dash' = Ingest(d, b)
  BY TwoArrive
<1>2. Keeps(dash, d) /\ Calms(dash, d)
  BY <1>1, PlainEvents, Nothing
<1>3. d \in Dash
  BY <1>2 DEF Keeps
<1>4. Keeps(d, dash') /\ Calms(d, dash')
  BY <1>1, <1>3, PlainEvents, Nothing
<1>5. Keeps(dash, dash') /\ Calms(dash, dash')
  BY <1>2, <1>4, Twice DEF Calms
<1>6. refused' = refused
  <2> DEFINE evs == <<a, b>>
  <2>1. \A i \in DOMAIN evs : evs[i].kind # "request_start"
    OBVIOUS
  <2> HIDE DEF evs
  <2>2. Arrive(evs)
    BY DEF evs
  <2> QED BY <2>1, <2>2, NoneRefused
<1> QED BY <1>5, <1>6

\* A sequence put together of two.
LEMMA OneAndOne ==
  ASSUME NEW x, NEW y
  PROVE  <<x>> \o <<y>> = <<x, y>>
<1> DEFINE S == {x, y}
           s == <<x>> \o <<y>>
           t == <<x, y>>
<1>1. <<x>> \in Seq(S) /\ <<y>> \in Seq(S) /\ t \in Seq(S)
  OBVIOUS
<1>2. /\ s \in Seq(S) /\ Len(s) = 2 /\ s[1] = x /\ s[2] = y
  BY <1>1, ConcatProperties
<1>3. Len(t) = 2 /\ t[1] = x /\ t[2] = y
  OBVIOUS
<1> HIDE DEF S, s, t
<1>4. \A i \in 1 .. Len(s) : s[i] = t[i]
  BY <1>2, <1>3
<1>5. s = t
  BY <1>1, <1>2, <1>3, <1>4, SeqEqual
<1> QED BY <1>5 DEF s, t

\* A frame lets go of the loop, which may have to be reported first.
LEMMA SlowPlain ==
  ASSUME dash \in Dash, NEW slow \in BOOLEAN, slow => exec \in Nodes /\ TraceOf(exec) \in Traces,
         NEW a, Plain(a), a.kind # "request_start", Arrive(Slow(slow) \o <<a>>)
  PROVE  Keeps(dash, dash') /\ Calms(dash, dash') /\ refused' = refused
<1>1. CASE slow
  <2> DEFINE b == Event("loop_blocked", TraceOf(exec), exec)
  <2>1. Plain(b) /\ b.kind # "request_start"
    BY <1>1 DEF Plain, Event
  <2> HIDE DEF b
  <2>2. Slow(slow) \o <<a>> = <<b, a>>
    <3>1. Slow(slow) = <<b>>
      BY <1>1 DEF Slow, b
    <3>2. <<b>> \o <<a>> = <<b, a>>
      BY OneAndOne
    <3> QED BY <3>1, <3>2
  <2> QED BY <2>1, <2>2, TwoPlain
<1>2. CASE ~ slow
  <2>1. Slow(slow) \o <<a>> = <<a>>
    <3>1. Slow(slow) = << >>
      BY <1>2 DEF Slow
    <3>2. << >> \o <<a>> = <<a>>
      OBVIOUS
    <3> QED BY <3>1, <3>2
  <2> QED BY <2>1, OnePlain
<1> QED BY <1>1, <1>2

-----------------------------------------------------------------------------
(* The server *)

\* What the program remembers of a frame.
FrameRec == [trace : Traces, where : {"loop", "pool"}, parent : Nodes \cup {None},
             state : {"run", "park", "gone"}]

\* The watchdog names frames that were entered.
WatchOK ==
  /\ named \subseteq 1 .. Len(frames)
  /\ watch \in {"healthy", "stalling", "stalled", "recovering"}
  /\ culprit \in 1 .. Len(frames) \cup {None}

\* Frames are called by frames that were entered, and one of them executes.
ServerOK ==
  /\ world \in Worlds
  /\ phase \in [Traces -> {"new", "live", "over"}]
  /\ frames \in Seq(FrameRec) /\ Len(frames) <= world.nodes
  /\ \A n \in 1 .. Len(frames) : frames[n].parent \in 1 .. Len(frames) \cup {None}
  /\ exec \in 1 .. Len(frames) \cup {None}
  /\ holds \in [Nodes -> Nat]
  /\ WatchOK

\* Frames are numbered, and the one that executes is one of them.
LEMMA ServerFacts ==
  ASSUME ServerOK
  PROVE  /\ world.nodes \in Nat /\ Len(frames) \in Nat /\ DOMAIN frames = 1 .. Len(frames)
         /\ 1 .. Len(frames) \subseteq Nodes /\ None \notin Nodes
         /\ \A n \in 1 .. Len(frames) : frames[n] \in FrameRec /\ n \in Nodes
         /\ exec # None => exec \in Nodes /\ exec \in 1 .. Len(frames) /\ TraceOf(exec) \in Traces
<1>1. world.nodes \in Nat
  BY DashboardAssumption DEF ServerOK
<1>2. frames \in Seq(FrameRec) /\ Len(frames) <= world.nodes
  BY DEF ServerOK
<1>3. Len(frames) \in Nat /\ DOMAIN frames = 1 .. Len(frames)
      /\ \A n \in 1 .. Len(frames) : frames[n] \in FrameRec
  BY <1>2, LenProperties, ElementOfSeq
<1>4. 1 .. Len(frames) \subseteq Nodes
  BY <1>1, <1>2, <1>3 DEF Nodes
<1>5. None \notin Nodes
  BY <1>1, DashboardAssumption DEF Nodes
<1>6. exec # None => exec \in 1 .. Len(frames)
  BY DEF ServerOK
<1>7. exec # None => TraceOf(exec) \in Traces
  BY <1>3, <1>6 DEF TraceOf, FrameRec
<1> QED BY <1>1, <1>3, <1>4, <1>5, <1>6, <1>7

\* A frame joins the others.
LEMMA FrameJoins ==
  ASSUME ServerOK, NEW f \in FrameRec, f.parent \in 1 .. Len(frames) \cup {None},
         Len(frames) + 1 <= world.nodes
  PROVE  LET u == Append(frames, f) IN
         /\ u \in Seq(FrameRec) /\ Len(u) = Len(frames) + 1 /\ Len(u) <= world.nodes
         /\ \A n \in 1 .. Len(u) : u[n].parent \in 1 .. Len(u) \cup {None}
<1> DEFINE u == Append(frames, f)
<1>1. frames \in Seq(FrameRec) /\ Len(frames) \in Nat
  BY ServerFacts DEF ServerOK
<1>2. /\ u \in Seq(FrameRec) /\ Len(u) = Len(frames) + 1
      /\ \A n \in 1 .. Len(frames) : u[n] = frames[n]
      /\ u[Len(frames) + 1] = f
  BY <1>1, AppendProperties
<1> HIDE DEF u
<1>3. ASSUME NEW n \in 1 .. Len(u)
      PROVE  u[n].parent \in 1 .. Len(u) \cup {None}
  <2>1. CASE n = Len(frames) + 1
    BY <1>1, <1>2, <2>1
  <2>2. CASE n # Len(frames) + 1
    <3>1. n \in 1 .. Len(frames) /\ u[n] = frames[n]
      BY <1>1, <1>2, <2>2
    <3>2. frames[n].parent \in 1 .. Len(frames) \cup {None}
      BY <3>1 DEF ServerOK
    <3> QED BY <1>1, <1>2, <3>1, <3>2
  <2> QED BY <2>1, <2>2
<1>4. u \in Seq(FrameRec) /\ Len(u) = Len(frames) + 1 /\ Len(u) <= world.nodes
  BY <1>2
<1> QED BY <1>3, <1>4 DEF u

\* A frame changes its state.
LEMMA FrameMoves ==
  ASSUME ServerOK, NEW n \in 1 .. Len(frames), NEW state \in {"run", "park", "gone"}
  PROVE  LET u == [frames EXCEPT ![n].state = state] IN
         /\ u \in Seq(FrameRec) /\ Len(u) = Len(frames)
         /\ \A m \in 1 .. Len(u) : u[m].parent = frames[m].parent
<1> DEFINE y == [frames[n] EXCEPT !.state = state]
           u == [frames EXCEPT ![n] = y]
<1>1. frames \in Seq(FrameRec) /\ frames[n] \in FrameRec
  BY ServerFacts DEF ServerOK
<1>2. y \in FrameRec /\ y.parent = frames[n].parent
  BY <1>1 DEF FrameRec
<1>3. [frames EXCEPT ![n].state = state] = u
  OBVIOUS
<1> HIDE DEF y
<1>4. /\ u \in Seq(FrameRec) /\ Len(u) = Len(frames)
      /\ \A i \in 1 .. Len(frames) : u[i] = IF i = n THEN y ELSE frames[i]
  BY <1>1, <1>2, ExceptSeq
<1> HIDE DEF u
<1>5. \A m \in 1 .. Len(u) : u[m].parent = frames[m].parent
  BY <1>2, <1>4
<1> QED BY <1>3, <1>4, <1>5

\* A hold is counted, or not.
LEMMA HoldsCount ==
  ASSUME ServerOK, NEW slow \in BOOLEAN, LetsGo(slow)
  PROVE  holds' \in [Nodes -> Nat] /\ (slow => exec \in Nodes /\ TraceOf(exec) \in Traces)
<1>1. slow => exec \in Nodes /\ TraceOf(exec) \in Traces
  BY ServerFacts DEF LetsGo
<1>2. holds' = IF slow THEN [holds EXCEPT ![exec] = @ + 1] ELSE holds
  BY DEF LetsGo
<1>3. holds \in [Nodes -> Nat]
  BY DEF ServerOK
<1>4. holds' \in [Nodes -> Nat]
  BY <1>1, <1>2, <1>3
<1> QED BY <1>1, <1>4

\* The watchdog looks on.
LEMMA WatchKept ==
  ASSUME ServerOK, watchdog' = watchdog, Len(frames) <= Len(frames'), Len(frames') \in Nat
  PROVE  WatchOK'
<1>1. Len(frames) \in Nat
  BY ServerFacts
<1>2. 1 .. Len(frames) \subseteq 1 .. Len(frames')
  BY <1>1
<1> QED BY <1>2 DEF ServerOK, WatchOK, watchdog

\* Frames are never forgotten, and requests do not go back.
Later ==
  /\ world' = world /\ Len(frames) <= Len(frames')
  /\ \A r \in Traces : /\ phase[r] = "over" => phase'[r] = "over"
                       /\ phase[r] # "new" => phase'[r] # "new"

\* A step that enters no frame and leaves none.
LEMMA SameFrames ==
  ASSUME ServerOK, world' = world, frames' = frames, holds' \in [Nodes -> Nat],
         phase' \in [Traces -> {"new", "live", "over"}],
         exec' \in 1 .. Len(frames) \cup {None},
         WatchOK' \/ watchdog' = watchdog
  PROVE  ServerOK'
<1>1. WatchOK'
  <2>1. Len(frames) \in Nat
    BY ServerFacts
  <2> QED BY <2>1, WatchKept
<1> QED BY <1>1 DEF ServerOK, FrameRec, Nodes

\* A step that changes the frames.
LEMMA OtherFrames ==
  ASSUME ServerOK, world' = world, phase' = phase, holds' \in [Nodes -> Nat],
         frames' \in Seq(FrameRec), Len(frames) <= Len(frames'), Len(frames') <= world.nodes,
         \A n \in 1 .. Len(frames') : frames'[n].parent \in 1 .. Len(frames') \cup {None},
         exec' \in 1 .. Len(frames') \cup {None},
         watchdog' = watchdog
  PROVE  ServerOK'
<1>1. WatchOK'
  <2>1. Len(frames') \in Nat
    BY LenProperties
  <2> QED BY <2>1, WatchKept
<1> QED BY <1>1 DEF ServerOK, FrameRec, Nodes

\* A frame is entered on the loop.
LEMMA EnterStep ==
  ASSUME ServerOK, NEW r \in Traces, NEW slow \in BOOLEAN, EnterLoop(r, slow)
  PROVE  ServerOK' /\ Later /\ (dash \in Dash => Keeps(dash, dash') /\ Calms(dash, dash') /\ refused' = refused)
<1> DEFINE n == Len(frames) + 1
           f == [trace |-> r, where |-> "loop", parent |-> exec, state |-> "run"]
           ev == Enter(r, n, "loop", exec)
<1>1. /\ n <= world.nodes /\ LetsGo(slow) /\ frames' = Append(frames, f) /\ exec' = n
      /\ Arrive(Slow(slow) \o <<ev>>) /\ UNCHANGED <<world, phase, watchdog>>
  BY DEF EnterLoop
<1>2. /\ world.nodes \in Nat /\ Len(frames) \in Nat
      /\ 1 .. Len(frames) \subseteq Nodes /\ exec \in 1 .. Len(frames) \cup {None}
  BY ServerFacts DEF ServerOK
<1>3. f \in FrameRec /\ f.parent \in 1 .. Len(frames) \cup {None}
  BY <1>2 DEF FrameRec
<1>4. n \in Nodes /\ exec \in Nodes \cup {None}
  BY <1>1, <1>2 DEF Nodes
<1>5. holds' \in [Nodes -> Nat] /\ (slow => exec \in Nodes /\ TraceOf(exec) \in Traces)
  BY <1>1, HoldsCount
<1>6. Plain(ev) /\ ev.kind # "request_start"
  BY <1>4 DEF Plain, Enter
<1> HIDE DEF f, ev
<1>7. /\ frames' \in Seq(FrameRec) /\ Len(frames') = n /\ Len(frames') <= world.nodes
      /\ \A m \in 1 .. Len(frames') : frames'[m].parent \in 1 .. Len(frames') \cup {None}
  BY <1>1, <1>3, FrameJoins
<1>8. exec' \in 1 .. Len(frames') \cup {None}
  BY <1>1, <1>2, <1>7
<1>9. ServerOK'
  BY <1>1, <1>2, <1>5, <1>7, <1>8, OtherFrames
<1>10. Later
  BY <1>1, <1>2, <1>7 DEF Later
<1>11. dash \in Dash => Keeps(dash, dash') /\ Calms(dash, dash') /\ refused' = refused
  BY <1>1, <1>5, <1>6, SlowPlain
<1> QED BY <1>9, <1>10, <1>11

\* A frame on the loop is left.
LEMMA ExitStep ==
  ASSUME ServerOK, NEW slow \in BOOLEAN, ExitLoop(slow)
  PROVE  ServerOK' /\ Later /\ (dash \in Dash => Keeps(dash, dash') /\ Calms(dash, dash') /\ refused' = refused)
<1> DEFINE ev == Event("call_exit", TraceOf(exec), exec)
<1>1. /\ exec # None /\ LetsGo(slow) /\ frames' = [frames EXCEPT ![exec].state = "gone"]
      /\ exec' = frames[exec].parent
      /\ Arrive(Slow(slow) \o <<ev>>) /\ UNCHANGED <<world, phase, watchdog>>
  BY DEF ExitLoop
<1>2. /\ exec \in 1 .. Len(frames) /\ exec \in Nodes /\ TraceOf(exec) \in Traces
      /\ Len(frames) <= world.nodes /\ Len(frames) \in Nat
      /\ \A n \in 1 .. Len(frames) : frames[n].parent \in 1 .. Len(frames) \cup {None}
  BY <1>1, ServerFacts DEF ServerOK
<1>3. Plain(ev) /\ ev.kind # "request_start"
  BY <1>2 DEF Plain, Event
<1> HIDE DEF ev
<1>4. holds' \in [Nodes -> Nat] /\ (slow => exec \in Nodes /\ TraceOf(exec) \in Traces)
  BY <1>1, HoldsCount
<1>5. /\ frames' \in Seq(FrameRec) /\ Len(frames') = Len(frames)
      /\ \A m \in 1 .. Len(frames') : frames'[m].parent = frames[m].parent
  BY <1>1, <1>2, FrameMoves
<1>6. /\ exec' \in 1 .. Len(frames') \cup {None}
      /\ \A n \in 1 .. Len(frames') : frames'[n].parent \in 1 .. Len(frames') \cup {None}
      /\ Len(frames') <= world.nodes
  BY <1>1, <1>2, <1>5
<1>8. ServerOK'
  BY <1>1, <1>2, <1>4, <1>5, <1>6, OtherFrames
<1>9. Later
  BY <1>1, <1>2, <1>5 DEF Later
<1>10. dash \in Dash => Keeps(dash, dash') /\ Calms(dash, dash') /\ refused' = refused
  BY <1>1, <1>3, <1>4, SlowPlain
<1> QED BY <1>8, <1>9, <1>10

\* A chain of frames suspends.
LEMMA SuspendStep ==
  ASSUME ServerOK, NEW slow \in BOOLEAN, Suspend(slow)
  PROVE  ServerOK' /\ Later /\ (dash \in Dash => Keeps(dash, dash') /\ Calms(dash, dash') /\ refused' = refused)
<1> DEFINE ev == Event("suspend", TraceOf(exec), exec)
<1>1. /\ exec # None /\ LetsGo(slow) /\ frames' = [frames EXCEPT ![exec].state = "park"]
      /\ exec' = None
      /\ Arrive(Slow(slow) \o <<ev>>) /\ UNCHANGED <<world, phase, watchdog>>
  BY DEF Suspend
<1>2. /\ exec \in 1 .. Len(frames) /\ exec \in Nodes /\ TraceOf(exec) \in Traces
      /\ Len(frames) <= world.nodes /\ Len(frames) \in Nat
      /\ \A n \in 1 .. Len(frames) : frames[n].parent \in 1 .. Len(frames) \cup {None}
  BY <1>1, ServerFacts DEF ServerOK
<1>3. Plain(ev) /\ ev.kind # "request_start"
  BY <1>2 DEF Plain, Event
<1> HIDE DEF ev
<1>4. holds' \in [Nodes -> Nat] /\ (slow => exec \in Nodes /\ TraceOf(exec) \in Traces)
  BY <1>1, HoldsCount
<1>5. /\ frames' \in Seq(FrameRec) /\ Len(frames') = Len(frames)
      /\ \A m \in 1 .. Len(frames') : frames'[m].parent = frames[m].parent
  BY <1>1, <1>2, FrameMoves
<1>6. /\ exec' \in 1 .. Len(frames') \cup {None}
      /\ \A n \in 1 .. Len(frames') : frames'[n].parent \in 1 .. Len(frames') \cup {None}
      /\ Len(frames') <= world.nodes
  BY <1>1, <1>2, <1>5
<1>8. ServerOK'
  BY <1>1, <1>2, <1>4, <1>5, <1>6, OtherFrames
<1>9. Later
  BY <1>1, <1>2, <1>5 DEF Later
<1>10. dash \in Dash => Keeps(dash, dash') /\ Calms(dash, dash') /\ refused' = refused
  BY <1>1, <1>3, <1>4, SlowPlain
<1> QED BY <1>8, <1>9, <1>10

\* A chain of frames resumes.
LEMMA ResumeStep ==
  ASSUME ServerOK, NEW n \in 1 .. Len(frames), Resume(n)
  PROVE  ServerOK' /\ Later /\ (dash \in Dash => Keeps(dash, dash') /\ Calms(dash, dash') /\ refused' = refused)
<1> DEFINE ev == Event("resume", TraceOf(n), n)
<1>1. /\ frames' = [frames EXCEPT ![n].state = "run"] /\ exec' = n
      /\ Arrive(<<ev>>) /\ UNCHANGED <<world, phase, holds, watchdog>>
  BY DEF Resume
<1>2. /\ n \in Nodes /\ None \notin Nodes /\ frames[n] \in FrameRec
      /\ Len(frames) <= world.nodes /\ Len(frames) \in Nat
      /\ \A m \in 1 .. Len(frames) : frames[m].parent \in 1 .. Len(frames) \cup {None}
      /\ holds \in [Nodes -> Nat]
  BY ServerFacts DEF ServerOK
<1>3. TraceOf(n) \in Traces
  BY <1>2 DEF TraceOf, FrameRec
<1>4. Plain(ev) /\ ev.kind # "request_start"
  BY <1>2, <1>3 DEF Plain, Event
<1> HIDE DEF ev
<1>5. /\ frames' \in Seq(FrameRec) /\ Len(frames') = Len(frames)
      /\ \A m \in 1 .. Len(frames') : frames'[m].parent = frames[m].parent
  BY <1>1, <1>2, FrameMoves
<1>6. /\ exec' \in 1 .. Len(frames') \cup {None}
      /\ \A m \in 1 .. Len(frames') : frames'[m].parent \in 1 .. Len(frames') \cup {None}
      /\ Len(frames') <= world.nodes
  BY <1>1, <1>2, <1>5
<1>7. ServerOK'
  BY <1>1, <1>2, <1>5, <1>6, OtherFrames
<1>8. Later
  BY <1>1, <1>2, <1>5 DEF Later
<1>9. dash \in Dash => Keeps(dash, dash') /\ Calms(dash, dash') /\ refused' = refused
  BY <1>1, <1>4, OnePlain
<1> QED BY <1>7, <1>8, <1>9

\* A frame on a worker is left.
LEMMA ExitPoolStep ==
  ASSUME ServerOK, NEW n \in 1 .. Len(frames), ExitPool(n)
  PROVE  ServerOK' /\ Later /\ (dash \in Dash => Keeps(dash, dash') /\ Calms(dash, dash') /\ refused' = refused)
<1> DEFINE a == Event("call_exit", TraceOf(n), n)
           b == Event("offload_end", TraceOf(n), n)
<1>1. /\ frames' = [frames EXCEPT ![n].state = "gone"]
      /\ Arrive(<<a, b>>) /\ UNCHANGED <<world, phase, exec, holds, watchdog>>
  BY DEF ExitPool
<1>2. /\ n \in Nodes /\ None \notin Nodes /\ frames[n] \in FrameRec
      /\ Len(frames) <= world.nodes /\ Len(frames) \in Nat
      /\ \A m \in 1 .. Len(frames) : frames[m].parent \in 1 .. Len(frames) \cup {None}
      /\ holds \in [Nodes -> Nat] /\ exec \in 1 .. Len(frames) \cup {None}
  BY ServerFacts DEF ServerOK
<1>3. TraceOf(n) \in Traces
  BY <1>2 DEF TraceOf, FrameRec
<1>4. Plain(a) /\ a.kind # "request_start" /\ Plain(b) /\ b.kind # "request_start"
  BY <1>2, <1>3 DEF Plain, Event
<1> HIDE DEF a, b
<1>5. /\ frames' \in Seq(FrameRec) /\ Len(frames') = Len(frames)
      /\ \A m \in 1 .. Len(frames') : frames'[m].parent = frames[m].parent
  BY <1>1, <1>2, FrameMoves
<1>6. /\ exec' \in 1 .. Len(frames') \cup {None}
      /\ \A m \in 1 .. Len(frames') : frames'[m].parent \in 1 .. Len(frames') \cup {None}
      /\ Len(frames') <= world.nodes
  BY <1>1, <1>2, <1>5
<1>7. ServerOK'
  BY <1>1, <1>2, <1>5, <1>6, OtherFrames
<1>8. Later
  BY <1>1, <1>2, <1>5 DEF Later
<1>9. dash \in Dash => Keeps(dash, dash') /\ Calms(dash, dash') /\ refused' = refused
  BY <1>1, <1>4, TwoPlain
<1> QED BY <1>7, <1>8, <1>9

\* The watchdog looks, and pushes what it saw.
LEMMA StallStep ==
  ASSUME ServerOK, Notice \/ Stall \/ Recover \/ Unstall
  PROVE  ServerOK' /\ Later /\ (dash \in Dash => Keeps(dash, dash') /\ Calms(dash, dash') /\ refused' = refused)
<1> DEFINE ev(kind) == Event(kind, TraceOf(culprit), culprit)
<1>1. UNCHANGED <<world, phase, frames, exec, holds>>
  BY DEF Notice, Stall, Recover, Unstall
<1>2. /\ exec \in 1 .. Len(frames) \cup {None} /\ 1 .. Len(frames) \subseteq Nodes
      /\ \A n \in 1 .. Len(frames) : n \in Nodes /\ frames[n] \in FrameRec
      /\ phase \in [Traces -> {"new", "live", "over"}] /\ holds \in [Nodes -> Nat]
      /\ Len(frames) \in Nat
  BY ServerFacts DEF ServerOK
<1>3. /\ named \subseteq 1 .. Len(frames) /\ culprit \in 1 .. Len(frames) \cup {None}
      /\ watch \in {"healthy", "stalling", "stalled", "recovering"}
  BY DEF ServerOK, WatchOK
<1>4. culprit # None => culprit \in Nodes /\ TraceOf(culprit) \in Traces
  BY <1>2, <1>3 DEF TraceOf, FrameRec
<1>5. WatchOK'
  <2>1. CASE Notice
    BY <1>1, <1>2, <1>3, <2>1 DEF Notice, WatchOK
  <2>2. CASE Stall
    <3>1. named' = named \cup {n \in {culprit} \ {None} : phase[TraceOf(n)] # "over"}
      BY <2>2 DEF Stall
    <3>2. named' \subseteq 1 .. Len(frames)
      BY <1>3, <3>1
    <3>3. watch' = "stalled" /\ culprit' = None
      BY <2>2 DEF Stall
    <3> QED BY <1>1, <3>2, <3>3 DEF WatchOK
  <2>3. CASE Recover
    BY <1>1, <1>2, <1>3, <2>3 DEF Recover, WatchOK
  <2>4. CASE Unstall
    BY <1>1, <1>3, <2>4 DEF Unstall, WatchOK
  <2> QED BY <2>1, <2>2, <2>3, <2>4
<1>6. ServerOK'
  BY <1>1, <1>2, <1>5, SameFrames
<1>7. Later
  BY <1>1, <1>2 DEF Later
<1>8. dash \in Dash => Keeps(dash, dash') /\ Calms(dash, dash') /\ refused' = refused
  <2>1. CASE Notice \/ Recover
    <3>1. dash' = dash /\ refused' = refused
      BY <2>1 DEF Notice, Recover
    <3> QED BY <3>1, Nothing
  <2>2. CASE Stall \/ Unstall
    <3>1. PICK kind \in {"loop_stalled", "loop_unstalled"} : Arrive(<<ev(kind)>>)
      BY <2>2 DEF Stall, Unstall
    <3>2. Plain(ev(kind)) /\ ev(kind).kind # "request_start"
      <4>1. CASE culprit = None
        BY <4>1 DEF Plain, Event, TraceOf
      <4>2. CASE culprit # None
        BY <1>4, <4>2 DEF Plain, Event
      <4> QED BY <4>1, <4>2
    <3> HIDE DEF ev
    <3> QED BY <3>1, <3>2, OnePlain
  <2> QED BY <2>1, <2>2
<1> QED BY <1>6, <1>7, <1>8

\* A worker starts, for a request that is not over if no frame outlives its
\* request.
LEMMA EnterPoolStep ==
  ASSUME ServerOK, NEW r \in Traces, NEW by \in Nodes \cup {None}, EnterPool(r, by)
  PROVE  /\ ServerOK' /\ Later /\ Len(frames') = Len(frames) + 1
         /\ dash \in Dash =>
              /\ Keeps(dash, dash') /\ refused' = refused
              /\ \A S, O : Calm(dash, S, O) /\ r \notin O /\ Len(frames) + 1 \notin S
                             => Calm(dash', S \cup {Len(frames) + 1}, O)
<1> DEFINE n == Len(frames) + 1
           f == [trace |-> r, where |-> "pool", parent |-> by, state |-> "run"]
           a == Enter(r, n, "pool", by)
           b == Event("offload_start", r, n)
<1>1. /\ n <= world.nodes /\ frames' = Append(frames, f) /\ by \in LiveIn(r, "loop") \cup {None}
      /\ Arrive(<<a, b>>) /\ UNCHANGED <<world, phase, exec, holds, watchdog>>
  BY DEF EnterPool
<1>2. /\ world.nodes \in Nat /\ Len(frames) \in Nat
      /\ 1 .. Len(frames) \subseteq Nodes /\ exec \in 1 .. Len(frames) \cup {None}
      /\ holds \in [Nodes -> Nat]
  BY ServerFacts DEF ServerOK
<1>3. f \in FrameRec /\ f.parent \in 1 .. Len(frames) \cup {None}
  <2>1. by \in 1 .. Len(frames) \cup {None}
    BY <1>1 DEF LiveIn, Live
  <2> QED BY <2>1 DEF FrameRec
<1>4. n \in Nodes
  BY <1>1, <1>2 DEF Nodes
<1>5. Plain(a) /\ a.kind # "request_start"
  BY <1>4 DEF Plain, Enter
<1>6. b.kind = "offload_start" /\ b.trace = r /\ b.node = n /\ r # None
  BY DashboardAssumption DEF Event
<1> HIDE DEF f, a, b
<1>7. /\ frames' \in Seq(FrameRec) /\ Len(frames') = n /\ Len(frames') <= world.nodes
      /\ \A m \in 1 .. Len(frames') : frames'[m].parent \in 1 .. Len(frames') \cup {None}
  BY <1>1, <1>3, FrameJoins
<1>8. exec' \in 1 .. Len(frames') \cup {None}
  BY <1>1, <1>2, <1>7
<1>9. ServerOK'
  BY <1>1, <1>2, <1>7, <1>8, OtherFrames
<1>10. Later
  BY <1>1, <1>2, <1>7 DEF Later
<1>11. ASSUME dash \in Dash
       PROVE  /\ Keeps(dash, dash') /\ refused' = refused
              /\ \A S, O : Calm(dash, S, O) /\ r \notin O /\ n \notin S => Calm(dash', S \cup {n}, O)
  <2>1. PICK d : /\ d = dash \/ d = Ingest(dash, a)
                 /\ dash' = d \/ dash' = Ingest(d, b)
    BY <1>1, TwoArrive
  <2>2. Keeps(dash, d) /\ Calms(dash, d)
    BY <1>5, <1>11, <2>1, PlainEvents, Nothing
  <2>3. d \in Dash
    BY <2>2 DEF Keeps
  <2>4. Ingest(d, b) = OnOffloadStart(d, r, n)
    BY <1>6 DEF Ingest
  <2>5. /\ Keeps(d, OnOffloadStart(d, r, n))
        /\ \A S, O : Calm(d, S, O) /\ r \notin O /\ n \notin S
                       => Calm(OnOffloadStart(d, r, n), S \cup {n}, O)
    BY <1>4, <2>3, OffloadStarts
  <2>6. \A S, O : Calm(d, S, O) => Calm(d, S \cup {n}, O)
    BY DEF Calm, Settled
  <2>7. /\ Keeps(d, dash')
        /\ \A S, O : Calm(d, S, O) /\ r \notin O /\ n \notin S => Calm(dash', S \cup {n}, O)
    BY <2>1, <2>3, <2>4, <2>5, <2>6, Nothing
  <2>8. refused' = refused
    <3> DEFINE evs == <<a, b>>
    <3>1. \A i \in DOMAIN evs : evs[i].kind # "request_start"
      BY <1>5, <1>6
    <3> HIDE DEF evs
    <3>2. Arrive(evs)
      BY <1>1 DEF evs
    <3> QED BY <3>1, <3>2, NoneRefused
  <2> HIDE DEF n
  <2> QED BY <2>2, <2>7, <2>8, Twice DEF Calms
<1> QED BY <1>7, <1>9, <1>10, <1>11

\* A request is over.
LEMMA RequestEndStep ==
  ASSUME ServerOK, NEW r \in Traces, RequestEnd(r)
  PROVE  /\ ServerOK' /\ Later /\ frames' = frames /\ phase'[r] = "over"
         /\ dash \in Dash =>
              /\ Keeps(dash, dash') /\ refused' = refused
              /\ \A S, O : Calm(dash, S, O) => Calm(dash', S, O \cup {r})
<1> DEFINE ev == Event("request_end", r, None)
<1>1. /\ phase' = [phase EXCEPT ![r] = "over"] /\ Arrive(<<ev>>)
      /\ UNCHANGED <<world, frames, exec, holds, watchdog>>
  BY DEF RequestEnd
<1>2. /\ phase \in [Traces -> {"new", "live", "over"}] /\ Len(frames) \in Nat
      /\ exec \in 1 .. Len(frames) \cup {None} /\ holds \in [Nodes -> Nat]
  BY ServerFacts DEF ServerOK
<1>3. ev.kind = "request_end" /\ ev.trace = r /\ r # None
  BY DashboardAssumption DEF Event
<1> HIDE DEF ev
<1>4. phase' \in [Traces -> {"new", "live", "over"}] /\ phase'[r] = "over"
  BY <1>1, <1>2
<1>5. ServerOK'
  BY <1>1, <1>2, <1>4, SameFrames
<1>6. Later
  BY <1>1, <1>2 DEF Later
<1>7. ASSUME dash \in Dash
      PROVE  /\ Keeps(dash, dash') /\ refused' = refused
             /\ \A S, O : Calm(dash, S, O) => Calm(dash', S, O \cup {r})
  <2>1. dash' = dash \/ dash' = Ingest(dash, ev)
    BY <1>1, OneArrives
  <2>2. Ingest(dash, ev) = OnRequestEnd(dash, r)
    BY <1>3 DEF Ingest
  <2>3. \A S, O : Calm(dash, S, O) => Calm(dash, S, O \cup {r})
    BY DEF Calm
  <2>4. /\ Keeps(dash, dash')
        /\ \A S, O : Calm(dash, S, O) => Calm(dash', S, O \cup {r})
    BY <1>7, <2>1, <2>2, <2>3, RequestEnds, Nothing
  <2>5. refused' = refused
    <3> DEFINE evs == <<ev>>
    <3>1. \A i \in DOMAIN evs : evs[i].kind # "request_start"
      BY <1>3
    <3> HIDE DEF evs
    <3>2. Arrive(evs)
      BY <1>1 DEF evs
    <3> QED BY <3>1, <3>2, NoneRefused
  <2> QED BY <2>4, <2>5
<1> QED BY <1>1, <1>4, <1>5, <1>6, <1>7

\* A request starts: the event is shed, or the client takes it in and the
\* request is refused if it has no row then.
LEMMA RequestStartStep ==
  ASSUME ServerOK, NEW r \in Traces, RequestStart(r)
  PROVE  /\ ServerOK' /\ Later /\ frames' = frames /\ phase[r] = "new" /\ phase'[r] = "live"
         /\ \/ dash' = dash /\ refused' = refused
            \/ /\ dash' = OnRequestStart(dash, r)
               /\ refused' = refused \cup {q \in {r} : r \notin DOMAIN dash'.rows}
<1> DEFINE ev == Event("request_start", r, None)
           evs == <<ev>>
<1>1. /\ phase' = [phase EXCEPT ![r] = "live"] /\ Arrive(evs) /\ phase[r] = "new"
      /\ UNCHANGED <<world, frames, exec, holds, watchdog>>
  BY DEF RequestStart
<1>2. /\ phase \in [Traces -> {"new", "live", "over"}] /\ Len(frames) \in Nat
      /\ exec \in 1 .. Len(frames) \cup {None} /\ holds \in [Nodes -> Nat]
  BY ServerFacts DEF ServerOK
<1>3. ev.kind = "request_start" /\ ev.trace = r /\ r # None
  BY DashboardAssumption DEF Event
<1>4. \A q \in Traces : ev = Event("request_start", q, None) <=> q = r
  <2>1. ASSUME NEW q \in Traces, ev = Event("request_start", q, None)
        PROVE  q = r
    <3>1. Event("request_start", q, None).trace = q
      BY DEF Event
    <3> HIDE DEF ev
    <3> QED BY <1>3, <2>1, <3>1
  <2> QED BY <2>1
<1> HIDE DEF ev
<1>5. DOMAIN evs = 1 .. 1 /\ evs[1] = ev
  OBVIOUS
<1> HIDE DEF evs
<1>6. phase' \in [Traces -> {"new", "live", "over"}] /\ phase'[r] = "live"
  BY <1>1, <1>2
<1>7. ServerOK'
  BY <1>1, <1>2, <1>6, SameFrames
<1>8. Later
  BY <1>1, <1>2 DEF Later
<1>9. PICK shed, f :
        /\ shed = {} \/ "loss" \in world.harm
        /\ f[0] = dash /\ f[1] = dash'
        /\ \A k \in 1 .. 1 : f[k] = IF k \in shed THEN f[k - 1] ELSE Ingest(f[k - 1], evs[k])
        /\ refused' = refused \cup
             {q \in Traces : /\ \E i \in 1 .. 1 \ shed : evs[i] = Event("request_start", q, None)
                             /\ ~ Has(dash', q)}
  BY <1>1, <1>5, Arrival
<1>10. 1 \in 1 .. 1 /\ 1 - 1 = 0 /\ \A i \in 1 .. 1 : i = 1
  OBVIOUS
<1>11. Ingest(dash, ev) = OnRequestStart(dash, r)
  BY <1>3 DEF Ingest
<1>12. CASE 1 \in shed
  <2>1. dash' = dash
    BY <1>9, <1>10, <1>12
  <2>2. refused' = refused
    BY <1>9, <1>10, <1>12
  <2> QED BY <1>1, <1>6, <1>7, <1>8, <2>1, <2>2
<1>13. CASE 1 \notin shed
  <2>1. dash' = OnRequestStart(dash, r)
    BY <1>5, <1>9, <1>10, <1>11, <1>13
  <2>2. {q \in Traces : /\ \E i \in 1 .. 1 \ shed : evs[i] = Event("request_start", q, None)
                        /\ ~ Has(dash', q)} = {q \in {r} : r \notin DOMAIN dash'.rows}
    BY <1>4, <1>5, <1>10, <1>13 DEF Has
  <2> QED BY <1>1, <1>6, <1>7, <1>8, <1>9, <2>1, <2>2
<1> QED BY <1>12, <1>13


-----------------------------------------------------------------------------
(* Every step *)

\* The client keeps its types, and a cap the user may have chosen.
ClientOK ==
  /\ dash \in Dash /\ dash.cap \in Caps \cup {Cap}
  /\ refused \subseteq Traces

\* What is counted as withheld is what was refused, and those have started.
HiddenInv ==
  /\ IsFiniteSet(refused) /\ dash.hidden = Cardinality(refused)
  /\ \A r \in refused : phase[r] # "new"

\* The requests that are over.
Over == {r \in Traces : phase[r] = "over"}

\* If no frame outlives its request, a finished row stays quiet: its request is
\* over, and the frames it has seen start on a worker are some of those that were
\* entered.
CalmInv == ~ Orphans => Calm(dash, 1 .. Len(frames), Over)

\* What every step keeps.
IInv == ServerOK /\ ClientOK /\ HiddenInv /\ Ages(dash) /\ CalmInv

\* No row is brought but by the start of a request, and none goes but to make
\* room.
Orderly ==
  LET old == DOMAIN dash.rows  new == DOMAIN dash'.rows IN
  /\ \A r \in new \ old : phase[r] = "new"
  /\ \A r \in old \ new :
       /\ dash.rows[r].done
       /\ Cardinality(old) >= dash.cap
       /\ \A q \in new \cap old : dash.rows[q].done => dash.rows[r].seq < dash.rows[q].seq

\* The types of the client depend on the world only, which no step changes.
LEMMA SameTypes ==
  ASSUME world' = world
  PROVE  Dash' = Dash
BY DEF Dash, Rows, Row, Kept, Trees, Node, Span, Nodes

\* A step that the client takes in without a row coming or going.
LEMMA KeepingStep ==
  ASSUME IInv, ServerOK', Later, Keeps(dash, dash'), refused' = refused
  PROVE  ClientOK' /\ HiddenInv' /\ Ages(dash)' /\ Orderly
<1>1. /\ dash' \in Dash /\ DOMAIN dash'.rows = DOMAIN dash.rows /\ dash'.nextSeq = dash.nextSeq
      /\ \A q \in DOMAIN dash.rows : dash'.rows[q].seq = dash.rows[q].seq
      /\ dash'.hidden = dash.hidden /\ dash'.cap = dash.cap
  BY DEF Keeps
<1>2. ClientOK'
  <2>1. dash.cap \in Caps \cup {Cap} /\ refused \subseteq Traces
    BY DEF IInv, ClientOK
  <2>2. Dash' = Dash
    BY SameTypes DEF Later
  <2> QED BY <1>1, <2>1, <2>2 DEF ClientOK
<1>3. HiddenInv'
  <2>1. /\ IsFiniteSet(refused) /\ dash.hidden = Cardinality(refused)
        /\ \A r \in refused : r \in Traces /\ phase[r] # "new"
    BY DEF IInv, ClientOK, HiddenInv
  <2>2. \A r \in refused : phase'[r] # "new"
    BY <2>1 DEF Later
  <2> QED BY <1>1, <2>1, <2>2 DEF HiddenInv
<1>4. Ages(dash)'
  BY <1>1 DEF IInv, Ages
<1>5. Orderly
  BY <1>1 DEF Orderly
<1> QED BY <1>2, <1>3, <1>4, <1>5

\* More frames, and more requests that are over.
LEMMA CalmGrows ==
  ASSUME NEW d, NEW S, NEW O, Calm(d, S, O), NEW T, S \subseteq T, NEW P, O \subseteq P
  PROVE  Calm(d, T, P)
BY DEF Calm, Settled

\* Frames stay entered, and requests stay over.
LEMMA OverGrows ==
  ASSUME ServerOK, ServerOK', Later
  PROVE  1 .. Len(frames) \subseteq 1 .. Len(frames)' /\ Over \subseteq Over'
<1>1. Len(frames) \in Nat /\ Len(frames)' \in Nat
  <2>1. Len(frames) \in Nat
    BY ServerFacts
  <2>2. frames' \in Seq(FrameRec')
    BY DEF ServerOK
  <2> QED BY <2>1, <2>2, LenProperties
<1> QED BY <1>1 DEF Later, Over

\* A step that the client takes in without any row becoming busier.
LEMMA CalmStep ==
  ASSUME IInv, ServerOK', Later, Keeps(dash, dash') /\ Calms(dash, dash') /\ refused' = refused
  PROVE  IInv' /\ Orderly
<1>1. ClientOK' /\ HiddenInv' /\ Ages(dash)' /\ Orderly
  BY KeepingStep
<1>2. CalmInv'
  <2> SUFFICES ASSUME ~ Orphans PROVE Calm(dash', 1 .. Len(frames)', Over')
    BY DEF CalmInv
  <2>1. Calm(dash, 1 .. Len(frames), Over)
    BY DEF IInv, CalmInv
  <2>2. Calm(dash', 1 .. Len(frames), Over)
    BY <2>1 DEF Calms
  <2>3. 1 .. Len(frames) \subseteq 1 .. Len(frames)' /\ Over \subseteq Over'
    BY OverGrows DEF IInv
  <2> QED BY <2>2, <2>3, CalmGrows
<1> QED BY <1>1, <1>2 DEF IInv

\* A request starts.
LEMMA StartStep ==
  ASSUME IInv, NEW r \in Traces, RequestStart(r)
  PROVE  IInv' /\ Orderly
<1>1. /\ ServerOK' /\ Later /\ frames' = frames /\ phase[r] = "new" /\ phase'[r] = "live"
      /\ \/ dash' = dash /\ refused' = refused
         \/ /\ dash' = OnRequestStart(dash, r)
            /\ refused' = refused \cup {q \in {r} : r \notin DOMAIN dash'.rows}
  BY RequestStartStep DEF IInv
<1>2. CASE dash' = dash /\ refused' = refused
  <2>1. Keeps(dash, dash') /\ Calms(dash, dash')
    BY <1>2, Nothing DEF IInv, ClientOK
  <2> QED BY <1>1, <1>2, <2>1, CalmStep
<1>3. CASE /\ dash' = OnRequestStart(dash, r)
           /\ refused' = refused \cup {q \in {r} : r \notin DOMAIN dash'.rows}
  <2>1. dash \in Dash /\ Ages(dash)
    BY DEF IInv, ClientOK
  <2>2. /\ dash' \in Dash /\ Calms(dash, dash') /\ dash'.cap = dash.cap
        /\ DOMAIN dash'.rows \ DOMAIN dash.rows \subseteq {r}
        /\ dash'.hidden = (IF r \in DOMAIN dash'.rows THEN dash.hidden ELSE dash.hidden + 1)
        /\ Ages(dash')
        /\ \A g \in DOMAIN dash.rows \ DOMAIN dash'.rows :
             /\ dash.rows[g].done /\ Full(dash)
             /\ \A q \in DOMAIN dash'.rows \cap DOMAIN dash.rows :
                  dash.rows[q].done => dash.rows[g].seq < dash.rows[q].seq
    BY <1>3, <2>1, RequestStarts
  <2>3. ClientOK'
    <3>1. refused' \subseteq Traces
      BY <1>3 DEF IInv, ClientOK
    <3> QED BY <1>1, <2>2, <3>1, SameTypes DEF IInv, ClientOK, Later
  <2>4. HiddenInv'
    <3>1. IsFiniteSet(refused) /\ dash.hidden = Cardinality(refused) /\ r \notin refused
          /\ \A q \in refused : phase'[q] # "new" /\ q \in Traces
      BY <1>1 DEF IInv, HiddenInv, ClientOK, Later
    <3>2. CASE r \in DOMAIN dash'.rows
      <4>1. refused' = refused
        BY <1>3, <3>2
      <4> QED BY <2>2, <3>1, <3>2, <4>1 DEF HiddenInv
    <3>3. CASE r \notin DOMAIN dash'.rows
      <4>1. refused' = refused \cup {r}
        BY <1>3, <3>3
      <4>2. IsFiniteSet(refused \cup {r}) /\ Cardinality(refused \cup {r}) = Cardinality(refused) + 1
        BY <3>1, FS_AddElement
      <4> QED BY <1>1, <2>2, <3>1, <3>3, <4>1, <4>2 DEF HiddenInv
    <3> QED BY <3>2, <3>3
  <2>5. CalmInv'
    <3> SUFFICES ASSUME ~ Orphans PROVE Calm(dash', 1 .. Len(frames)', Over')
      BY DEF CalmInv
    <3>1. Calm(dash, 1 .. Len(frames), Over)
      BY DEF IInv, CalmInv
    <3>2. Calm(dash', 1 .. Len(frames), Over)
      BY <2>2, <3>1 DEF Calms
    <3>3. 1 .. Len(frames) \subseteq 1 .. Len(frames)' /\ Over \subseteq Over'
      BY <1>1, OverGrows DEF IInv
    <3> QED BY <3>2, <3>3, CalmGrows
  <2>6. Orderly
    <3>1. \A q \in DOMAIN dash'.rows \ DOMAIN dash.rows : phase[q] = "new"
      BY <1>1, <2>2
    <3>2. Full(dash) => Cardinality(DOMAIN dash.rows) >= dash.cap
      BY DEF Full
    <3> QED BY <2>2, <3>1, <3>2 DEF Orderly
  <2> QED BY <1>1, <2>2, <2>3, <2>4, <2>5, <2>6 DEF IInv
<1> QED BY <1>1, <1>2, <1>3

\* A request ends: its row is finished, and from then on has to be quiet.
LEMMA EndStep ==
  ASSUME IInv, NEW r \in Traces, RequestEnd(r)
  PROVE  IInv' /\ Orderly
<1>1. /\ ServerOK' /\ Later /\ frames' = frames /\ phase'[r] = "over"
      /\ Keeps(dash, dash') /\ refused' = refused
      /\ \A S, O : Calm(dash, S, O) => Calm(dash', S, O \cup {r})
  BY RequestEndStep DEF IInv, ClientOK
<1>2. ClientOK' /\ HiddenInv' /\ Ages(dash)' /\ Orderly
  BY <1>1, KeepingStep
<1>3. CalmInv'
  <2> SUFFICES ASSUME ~ Orphans PROVE Calm(dash', 1 .. Len(frames)', Over')
    BY DEF CalmInv
  <2>1. Calm(dash, 1 .. Len(frames), Over)
    BY DEF IInv, CalmInv
  <2>2. Calm(dash', 1 .. Len(frames), Over \cup {r})
    BY <1>1, <2>1
  <2>3. 1 .. Len(frames) \subseteq 1 .. Len(frames)' /\ Over \cup {r} \subseteq Over'
    BY <1>1, OverGrows DEF IInv, Over
  <2> QED BY <2>2, <2>3, CalmGrows
<1> QED BY <1>1, <1>2, <1>3 DEF IInv

\* A frame starts on a worker, of a request that is not over.
LEMMA WorkerStep ==
  ASSUME IInv, NEW r \in Traces, NEW by \in Nodes \cup {None}, EnterPool(r, by)
  PROVE  IInv' /\ Orderly
<1> DEFINE n == Len(frames) + 1
<1>1. /\ ServerOK' /\ Later /\ Len(frames') = n
      /\ Keeps(dash, dash') /\ refused' = refused
      /\ \A S, O : Calm(dash, S, O) /\ r \notin O /\ n \notin S => Calm(dash', S \cup {n}, O)
  BY EnterPoolStep DEF IInv, ClientOK
<1>2. ClientOK' /\ HiddenInv' /\ Ages(dash)' /\ Orderly
  BY <1>1, KeepingStep
<1>3. CalmInv'
  <2> SUFFICES ASSUME ~ Orphans PROVE Calm(dash', 1 .. Len(frames)', Over')
    BY DEF CalmInv
  <2>1. Calm(dash, 1 .. Len(frames), Over)
    BY DEF IInv, CalmInv
  <2>2. Len(frames) \in Nat
    BY ServerFacts DEF IInv
  <2>3. n \notin 1 .. Len(frames) /\ 1 .. Len(frames) \cup {n} \subseteq 1 .. Len(frames)'
    BY <1>1, <2>2
  <2>4. r \notin Over
    BY DEF EnterPool, Over
  <2>5. Calm(dash', 1 .. Len(frames) \cup {n}, Over)
    BY <1>1, <2>1, <2>3, <2>4
  <2>6. Over \subseteq Over'
    BY <1>1, OverGrows DEF IInv
  <2> QED BY <2>3, <2>5, <2>6, CalmGrows
<1> QED BY <1>1, <1>2, <1>3 DEF IInv

\* "clear" leaves nothing to be wrong about.
LEMMA ClearStep ==
  ASSUME IInv, Clear
  PROVE  IInv'
<1> DEFINE t == [x \in {} |-> x]
<1>1. dash' = Cleared(dash) /\ refused' = {} /\ UNCHANGED server
  BY DEF Clear
<1>2. /\ world' = world /\ phase' = phase /\ frames' = frames /\ exec' = exec
      /\ holds' = holds /\ named' = named /\ watch' = watch /\ culprit' = culprit
  BY <1>1 DEF server, watchdog
<1>3. dash \in Dash
  BY DEF IInv, ClientOK
<1>4. << >> = t
  OBVIOUS
<1>5. t \in Rows /\ t \in Kept
  <2>1. t = [x \in DOMAIN t |-> t[x]] /\ DOMAIN t = {}
    OBVIOUS
  <2> HIDE DEF t
  <2> QED BY <2>1, RowsAre, KeptAre
<1>6. << >> \in Rows /\ << >> \in Kept /\ DOMAIN << >> = {}
  BY <1>4, <1>5
<1>7. /\ dash' \in Dash /\ DOMAIN dash'.rows = {} /\ dash'.hidden = 0 /\ dash'.cap = dash.cap
  BY <1>1, <1>3, <1>6 DEF Cleared, Dash
<1>8. ServerOK'
  BY <1>2 DEF IInv, ServerOK, WatchOK, FrameRec, Nodes
<1>9. ClientOK'
  BY <1>1, <1>2, <1>7, SameTypes DEF IInv, ClientOK
<1>10. HiddenInv'
  BY <1>1, <1>7, FS_EmptySet DEF HiddenInv
<1>11. Ages(dash)' /\ CalmInv'
  BY <1>7 DEF Ages, CalmInv, Calm
<1> QED BY <1>8, <1>9, <1>10, <1>11 DEF IInv

\* The user lowers or raises the number of rows.
LEMMA SetCapStep ==
  ASSUME IInv, NEW n \in Caps, SetCap(n)
  PROVE  IInv' /\ Orderly
<1>1. dash' = [dash EXCEPT !.cap = n] /\ UNCHANGED <<server, refused>>
  BY DEF SetCap
<1>2. /\ world' = world /\ phase' = phase /\ frames' = frames /\ exec' = exec
      /\ holds' = holds /\ refused' = refused /\ named' = named /\ watch' = watch /\ culprit' = culprit
  BY <1>1 DEF server, watchdog
<1>3. dash \in Dash /\ n \in Nat \ {0}
  BY DashboardAssumption DEF IInv, ClientOK
<1>4. /\ dash' \in Dash /\ dash'.rows = dash.rows /\ dash'.nextSeq = dash.nextSeq
      /\ dash'.hidden = dash.hidden /\ dash'.workers = dash.workers /\ dash'.cap = n
  BY <1>1, <1>3 DEF Dash
<1>5. ServerOK'
  BY <1>2 DEF IInv, ServerOK, WatchOK, FrameRec, Nodes
<1>6. ClientOK'
  BY <1>2, <1>4, SameTypes DEF IInv, ClientOK
<1>7. HiddenInv'
  BY <1>2, <1>4 DEF IInv, HiddenInv
<1>8. Ages(dash)'
  BY <1>4 DEF IInv, Ages
<1>9. CalmInv'
  BY <1>2, <1>4 DEF IInv, CalmInv, Calm, Over
<1>10. Orderly
  BY <1>4 DEF Orderly
<1> QED BY <1>5, <1>6, <1>7, <1>8, <1>9, <1>10 DEF IInv

\* Every step keeps IInv, and lets rows come and go in order.
LEMMA Inductive ==
  ASSUME IInv, [Next]_vars
  PROVE  IInv' /\ (Orderly \/ "clear" \in world.harm)
<1>1. ASSUME NEW r \in Traces, RequestStart(r) PROVE IInv' /\ Orderly
  BY <1>1, StartStep
<1>2. ASSUME NEW r \in Traces, RequestEnd(r) PROVE IInv' /\ Orderly
  BY <1>2, EndStep
<1>3. ASSUME NEW r \in Traces, NEW slow \in BOOLEAN, EnterLoop(r, slow) PROVE IInv' /\ Orderly
  BY <1>3, EnterStep, CalmStep DEF IInv, ClientOK
<1>4. ASSUME NEW r \in Traces, NEW by \in Nodes \cup {None}, EnterPool(r, by) PROVE IInv' /\ Orderly
  BY <1>4, WorkerStep
<1>5. ASSUME NEW slow \in BOOLEAN, ExitLoop(slow) PROVE IInv' /\ Orderly
  BY <1>5, ExitStep, CalmStep DEF IInv, ClientOK
<1>6. ASSUME NEW slow \in BOOLEAN, Suspend(slow) PROVE IInv' /\ Orderly
  BY <1>6, SuspendStep, CalmStep DEF IInv, ClientOK
<1>7. ASSUME NEW n \in 1 .. Len(frames), Resume(n) PROVE IInv' /\ Orderly
  BY <1>7, ResumeStep, CalmStep DEF IInv, ClientOK
<1>8. ASSUME NEW n \in 1 .. Len(frames), ExitPool(n) PROVE IInv' /\ Orderly
  BY <1>8, ExitPoolStep, CalmStep DEF IInv, ClientOK
<1>9. ASSUME Notice \/ Stall \/ Recover \/ Unstall PROVE IInv' /\ Orderly
  BY <1>9, StallStep, CalmStep DEF IInv, ClientOK
<1>10. ASSUME Clear PROVE IInv' /\ "clear" \in world.harm
  BY <1>10, ClearStep DEF Clear
<1>11. ASSUME NEW n \in Caps, SetCap(n) PROVE IInv' /\ Orderly
  BY <1>11, SetCapStep
<1>12. ASSUME UNCHANGED vars PROVE IInv' /\ Orderly
  <2>1. /\ world' = world /\ phase' = phase /\ frames' = frames /\ exec' = exec
        /\ holds' = holds /\ named' = named /\ watch' = watch /\ culprit' = culprit
        /\ refused' = refused /\ dash' = dash
    BY <1>12 DEF vars, server, watchdog
  <2>2. ServerOK'
    BY <2>1 DEF IInv, ServerOK, WatchOK, FrameRec, Nodes
  <2>3. Later
    BY <2>1, ServerFacts DEF IInv, Later
  <2>4. Keeps(dash, dash') /\ Calms(dash, dash')
    BY <2>1, Nothing DEF IInv, ClientOK
  <2> QED BY <2>1, <2>2, <2>3, <2>4, CalmStep
<1>13. CASE Next
  BY <1>13, <1>1, <1>2, <1>3, <1>4, <1>5, <1>6, <1>7, <1>8, <1>9, <1>10, <1>11 DEF Next, Serve
<1> QED BY <1>12, <1>13

\* A client without rows satisfies IInv.
LEMMA Initial == Init => IInv
<1> SUFFICES ASSUME Init PROVE IInv
  OBVIOUS
<1> DEFINE t == [x \in {} |-> x]
<1>1. /\ world \in Worlds /\ phase = [r \in Traces |-> "new"] /\ frames = << >> /\ exec = None
      /\ holds = [n \in Nodes |-> 0] /\ refused = {} /\ dash = EmptyDash(Cap)
      /\ named = {} /\ watch = "healthy" /\ culprit = None
  BY DEF Init
<1>2. world.nodes \in Nat
  BY <1>1, DashboardAssumption
<1>3. frames \in Seq(FrameRec) /\ Len(frames) = 0
  BY <1>1, EmptySeq
<1>4. ServerOK
  BY <1>1, <1>2, <1>3 DEF ServerOK, WatchOK
<1>5. << >> = t
  OBVIOUS
<1>6. t \in Rows /\ t \in Kept
  <2>1. t = [x \in DOMAIN t |-> t[x]] /\ DOMAIN t = {}
    OBVIOUS
  <2> HIDE DEF t
  <2> QED BY <2>1, RowsAre, KeptAre
<1>7. << >> \in Rows /\ << >> \in Kept /\ DOMAIN << >> = {}
  BY <1>5, <1>6
<1>8. dash \in Dash /\ DOMAIN dash.rows = {} /\ dash.hidden = 0 /\ dash.cap = Cap
  BY <1>1, <1>7, DashboardAssumption DEF EmptyDash, Dash
<1>9. ClientOK
  BY <1>1, <1>8 DEF ClientOK
<1>10. HiddenInv
  BY <1>1, <1>8, FS_EmptySet DEF HiddenInv
<1>11. Ages(dash) /\ CalmInv
  BY <1>8 DEF Ages, CalmInv, Calm
<1> QED BY <1>4, <1>9, <1>10, <1>11 DEF IInv

\* So IInv always holds.
LEMMA Invariance == Spec => []IInv
<1>1. IInv /\ [Next]_vars => IInv'
  BY Inductive
<1> QED BY Initial, <1>1, PTL DEF Spec

\* Every variable keeps its type: the server's, and the rows, trees, stacks,
\* spans, holder and workers that ingest() builds (dashboard.js:546-918).
THEOREM DashboardTypeCorrect == Spec => []TypeOK
<1>1. ASSUME IInv PROVE TypeOK
  <2>1. ServerOK /\ ClientOK /\ dash \in Dash
    BY <1>1 DEF IInv, ClientOK
  <2>2. \A r \in DOMAIN dash.rows : dash.rows[r] \in Row /\ r \in Traces
    BY <2>1, ClientTypes
  <2>3. ASSUME NEW row \in Row PROVE RowOK(row)
    <3>1. row.nodes \in Trees
      BY DEF Row
    <3>2. DOMAIN row.nodes \subseteq Nodes /\ \A n \in DOMAIN row.nodes : row.nodes[n] \in Node
      BY <3>1, TreesAre
    <3> QED BY <3>2 DEF RowOK, Row
  <2>4. DOMAIN dash.before \subseteq Traces /\ \A r \in DOMAIN dash.before : dash.before[r] \in Seq(Span)
    <3>1. dash.before \in Kept
      BY <2>1, ClientTypes
    <3> QED BY <3>1, KeptAre
  <2>5. exec \in Nodes \cup {None}
    BY <2>1, ServerFacts
  <2>6. /\ dash.holder \in Traces \cup {None}
        /\ dash.stalled \in [node : Nodes, trace : Traces] \cup {None}
        /\ dash.workers \subseteq Traces \X Nodes /\ dash.hidden \in Nat /\ dash.nextSeq \in Nat
        /\ dash.cap \in Caps \cup {Cap} /\ refused \subseteq Traces
    BY <2>1 DEF Dash, ClientOK
  <2>7. /\ world \in Worlds /\ phase \in [Traces -> {"new", "live", "over"}]
        /\ holds \in [Nodes -> Nat]
    BY <2>1 DEF ServerOK
  <2>9. /\ named \subseteq Nodes /\ culprit \in Nodes \cup {None}
        /\ watch \in {"healthy", "stalling", "stalled", "recovering"}
    BY <2>1, ServerFacts DEF ServerOK, WatchOK
  <2>8. frames \in Seq([trace : Traces, where : {"loop", "pool"}, parent : Nodes \cup {None},
                        state : {"run", "park", "gone"}])
    BY <2>1 DEF ServerOK, FrameRec
  <2> QED BY <2>2, <2>3, <2>4, <2>5, <2>6, <2>7, <2>8, <2>9 DEF TypeOK
<1> QED BY Invariance, <1>1, PTL

\* A row comes only with the start of its request, and goes only to make room:
\* finished, when the table is full, and before every younger finished row
\* (dashboard.js:271-277, 608-620).
THEOREM RowsInOrder == Spec => RowsComeAndGo
<1> DEFINE Step ==
      Intact => LET old == DOMAIN dash.rows  new == DOMAIN dash'.rows IN
        /\ \A r \in new \ old : phase[r] = "new"
        /\ \A r \in old \ new :
             /\ dash.rows[r].done
             /\ Cardinality(old) >= dash.cap
             /\ \A q \in new \cap old : dash.rows[q].done => dash.rows[r].seq < dash.rows[q].seq
<1>1. IInv /\ [Next]_vars => [Step]_vars
  <2> SUFFICES ASSUME IInv, [Next]_vars, Intact PROVE Orderly
    BY DEF Orderly
  <2>1. Orderly \/ "clear" \in world.harm
    BY Inductive
  <2> QED BY <2>1 DEF Intact
<1>2. Spec => [][Step]_vars
  BY Invariance, <1>1, PTL DEF Spec
<1> QED BY <1>2 DEF RowsComeAndGo

\* Whatever is shed, cleared or refused, if no frame outlives its request: a
\* finished row is on no worker and not stalled, counts agree with what they
\* count, and a row that is withheld is counted (dashboard.js:291-296, 592-599,
\* 2507-2532).  With such frames it is not so: FinishedOnNoWorker.
THEOREM LossContained == ~ Orphans => (Spec => []LossIsContained)
<1> SUFFICES ASSUME ~ Orphans PROVE Spec => []LossIsContained
  OBVIOUS
<1>1. ASSUME IInv PROVE LossIsContained
  <2>1. Calm(dash, 1 .. Len(frames), Over) /\ HiddenInv
    BY <1>1 DEF IInv, CalmInv
  <2>2. FinishedIsQuiet
    BY <2>1 DEF FinishedIsQuiet, Shown, Calm, Settled
  <2>3. HiddenIsCounted
    BY <2>1 DEF HiddenIsCounted, HiddenInv
  <2> QED BY <2>2, <2>3 DEF LossIsContained
<1> QED BY Invariance, <1>1, PTL

-----------------------------------------------------------------------------
(* While every event arrives *)

\* All that is pushed arrives, if nothing is shed.
LEMMA AllArrive ==
  ASSUME NEW evs, NEW n \in Nat, DOMAIN evs = 1 .. n, Arrive(evs), "loss" \notin world.harm
  PROVE  \E f : /\ f[0] = dash /\ f[n] = dash'
                /\ \A k \in 1 .. n : f[k] = Ingest(f[k - 1], evs[k])
<1>1. PICK shed, f :
        /\ shed = {} \/ "loss" \in world.harm
        /\ f[0] = dash /\ f[n] = dash'
        /\ \A k \in 1 .. n : f[k] = IF k \in shed THEN f[k - 1] ELSE Ingest(f[k - 1], evs[k])
        /\ refused' = refused \cup
             {r \in Traces : /\ \E i \in 1 .. n \ shed : evs[i] = Event("request_start", r, None)
                             /\ ~ Has(dash', r)}
  BY Arrival
<1>2. shed = {}
  BY <1>1
<1> QED BY <1>1, <1>2

\* One event, or two.
LEMMA OneTaken ==
  ASSUME NEW a, Arrive(<<a>>), "loss" \notin world.harm
  PROVE  dash' = Ingest(dash, a)
<1> DEFINE evs == <<a>>
           n == 1
<1>1. DOMAIN evs = 1 .. n /\ evs[1] = a /\ n \in Nat
  OBVIOUS
<1>2. Arrive(evs)
  OBVIOUS
<1> HIDE DEF evs, n
<1>3. PICK f : /\ f[0] = dash /\ f[n] = dash'
               /\ \A k \in 1 .. n : f[k] = Ingest(f[k - 1], evs[k])
  BY <1>1, <1>2, AllArrive
<1>4. 1 \in 1 .. n /\ 1 - 1 = 0
  BY DEF n
<1>5. f[1] = Ingest(f[0], evs[1])
  BY <1>3, <1>4
<1> QED BY <1>1, <1>3, <1>5 DEF n

\* Two events are taken in one after the other.
LEMMA TwoTaken ==
  ASSUME NEW a, NEW b, Arrive(<<a, b>>), "loss" \notin world.harm
  PROVE  dash' = Ingest(Ingest(dash, a), b)
<1> DEFINE evs == <<a, b>>
           n == 2
<1>1. DOMAIN evs = 1 .. n /\ evs[1] = a /\ evs[2] = b /\ n \in Nat
  OBVIOUS
<1>2. Arrive(evs)
  OBVIOUS
<1> HIDE DEF evs, n
<1>3. PICK f : /\ f[0] = dash /\ f[n] = dash'
               /\ \A k \in 1 .. n : f[k] = Ingest(f[k - 1], evs[k])
  BY <1>1, <1>2, AllArrive
<1>4. 1 \in 1 .. n /\ 1 - 1 = 0 /\ 2 \in 1 .. n /\ 2 - 1 = 1
  BY DEF n
<1>5. f[1] = Ingest(f[0], evs[1]) /\ f[2] = Ingest(f[1], evs[2])
  BY <1>3, <1>4
<1> QED BY <1>1, <1>3, <1>5 DEF n

-----------------------------------------------------------------------------
(* The tree and the stack of a row, and the frames of its request *)

\* How a frame is shown.
Shows(state) == CASE state = "run" -> "running" [] state = "park" -> "suspended" [] state = "gone" -> "done"

FramesOf(fs, r) == {n \in 1 .. Len(fs) : fs[n].trace = r}

\* The row shows every frame in fs of its request, where it runs and under its
\* caller, and has those on its stack, once, that are not gone.
Pictured(row, fs, r) ==
  /\ DOMAIN row.nodes = FramesOf(fs, r)
  /\ \A n \in FramesOf(fs, r) :
       /\ row.nodes[n].parent = fs[n].parent /\ row.nodes[n].where = fs[n].where
       /\ row.nodes[n].state = Shows(fs[n].state)
       /\ fs[n].where = "loop" => row.sawLoop
       /\ n \in ToSet(row.stack) <=> fs[n].state # "gone"
  /\ ToSet(row.stack) \subseteq FramesOf(fs, r)
  /\ IsInjective(row.stack)

\* u are the frames in fs and one more.
Grown(fs, u, f) ==
  /\ Len(u) = Len(fs) + 1 /\ u[Len(fs) + 1] = f
  /\ \A i \in 1 .. Len(fs) : u[i] = fs[i]

\* u are the frames in fs, of which n is in another state.
Altered(fs, u, n, state) ==
  /\ Len(u) = Len(fs)
  /\ \A i \in 1 .. Len(fs) :
       /\ u[i].trace = fs[i].trace /\ u[i].where = fs[i].where /\ u[i].parent = fs[i].parent
       /\ u[i].state = IF i = n THEN state ELSE fs[i].state

\* What a row may undergo: nothing that the tree shows,
SameTree(row, new) ==
  /\ DOMAIN new.nodes = DOMAIN row.nodes /\ new.stack = row.stack /\ new.sawLoop = row.sawLoop
  /\ \A n \in DOMAIN row.nodes :
       /\ new.nodes[n].state = row.nodes[n].state /\ new.nodes[n].where = row.nodes[n].where
       /\ new.nodes[n].parent = row.nodes[n].parent

\* a frame joins,
Joined(row, new, n, where, parent) ==
  /\ DOMAIN new.nodes = DOMAIN row.nodes \cup {n}
  /\ \A m \in DOMAIN row.nodes : m # n => new.nodes[m] = row.nodes[m]
  /\ new.nodes[n].state = "running" /\ new.nodes[n].where = where
  /\ new.nodes[n].parent = IF parent \in DOMAIN row.nodes THEN parent ELSE None
  /\ new.stack = Append(row.stack, n)
  /\ new.sawLoop <=> row.sawLoop \/ where = "loop"

\* one changes its state,
Turned(row, new, n, state) ==
  /\ DOMAIN new.nodes = DOMAIN row.nodes /\ new.sawLoop = row.sawLoop
  /\ \A m \in DOMAIN row.nodes :
       /\ new.nodes[m].where = row.nodes[m].where /\ new.nodes[m].parent = row.nodes[m].parent
       /\ new.nodes[m].state = IF m = n THEN state ELSE row.nodes[m].state

\* or leaves the stack.
OffStack(row, new, n) ==
  IsInjective(row.stack) => ToSet(new.stack) = ToSet(row.stack) \ {n} /\ IsInjective(new.stack)

\* A row that looks the same shows the same frames.
LEMMA PictureSame ==
  ASSUME NEW row, NEW new, SameTree(row, new), NEW fs, NEW r, Pictured(row, fs, r)
  PROVE  Pictured(new, fs, r)
BY DEF SameTree, Pictured

\* A frame of another request joins.
LEMMA PictureBesideJoin ==
  ASSUME NEW row, NEW fs, Len(fs) \in Nat, NEW u, NEW f, Grown(fs, u, f), NEW q, f.trace # q,
         Pictured(row, fs, q)
  PROVE  Pictured(row, u, q)
<1>1. FramesOf(u, q) = FramesOf(fs, q) /\ \A n \in FramesOf(fs, q) : u[n] = fs[n]
  BY DEF Grown, FramesOf
<1> QED BY <1>1 DEF Pictured

\* An element is pushed.
LEMMA Pushed ==
  ASSUME NEW S, NEW s \in Seq(S), NEW x
  PROVE  /\ ToSet(Append(s, x)) = ToSet(s) \cup {x}
         /\ IsInjective(s) /\ x \notin ToSet(s) => IsInjective(Append(s, x))
<1> DEFINE t == Append(s, x)
           T == S \cup {x}
           k == Len(s)
<1>1. k \in Nat /\ DOMAIN s = 1 .. k /\ \A i \in 1 .. k : s[i] \in S
  BY LenProperties, ElementOfSeq
<1>2. s \in Seq(T) /\ x \in T
  <2>1. S \subseteq T
    OBVIOUS
  <2> HIDE DEF T
  <2>2. s \in Seq(T)
    BY <2>1
  <2> QED BY <2>2 DEF T
<1> HIDE DEF T
<1>3. DOMAIN t = 1 .. k + 1 /\ t[k + 1] = x /\ \A i \in 1 .. k : t[i] = s[i]
  <2>1. /\ t \in Seq(T) /\ Len(t) = k + 1 /\ t[k + 1] = x
        /\ \A i \in 1 .. k : t[i] = s[i]
    BY <1>2, AppendProperties
  <2> HIDE DEF t, k
  <2> QED BY <2>1, LenProperties
<1> HIDE DEF t, k
<1>4. ToSet(t) = ToSet(s) \cup {x}
  <2>1. ASSUME NEW y \in ToSet(t) PROVE y \in ToSet(s) \cup {x}
    <3>1. PICK i \in 1 .. k + 1 : y = t[i]
      BY <1>3 DEF ToSet
    <3>2. CASE i = k + 1
      BY <1>3, <3>1, <3>2
    <3>3. CASE i # k + 1
      <4>1. i \in DOMAIN s /\ y = s[i]
        BY <1>1, <1>3, <3>1, <3>3
      <4> QED BY <4>1 DEF ToSet
    <3> QED BY <3>2, <3>3
  <2>2. ASSUME NEW y \in ToSet(s) PROVE y \in ToSet(t)
    <3>1. PICK i \in 1 .. k : y = s[i]
      BY <1>1 DEF ToSet
    <3>2. i \in DOMAIN t /\ y = t[i]
      BY <1>1, <1>3, <3>1
    <3> QED BY <3>2 DEF ToSet
  <2>3. x \in ToSet(t)
    <3>1. k + 1 \in DOMAIN t
      BY <1>1, <1>3
    <3> QED BY <1>3, <3>1 DEF ToSet
  <2> QED BY <2>1, <2>2, <2>3
<1>5. ASSUME IsInjective(s), x \notin ToSet(s) PROVE IsInjective(t)
  <2>1. ASSUME NEW i \in 1 .. k PROVE s[i] # x
    BY <1>1, <1>5 DEF ToSet
  <2>2. \A i, j \in 1 .. k : s[i] = s[j] => i = j
    BY <1>1, <1>5 DEF IsInjective
  <2>3. ASSUME NEW i \in 1 .. k + 1, NEW j \in 1 .. k + 1, t[i] = t[j] PROVE i = j
    <3>1. i \in 1 .. k \/ i = k + 1
      BY <1>1
    <3>2. j \in 1 .. k \/ j = k + 1
      BY <1>1
    <3> QED BY <1>3, <2>1, <2>2, <2>3, <3>1, <3>2
  <2> QED BY <1>3, <2>3 DEF IsInjective
<1> QED BY <1>4, <1>5 DEF t

\* A frame of this request joins.
LEMMA PictureJoined ==
  ASSUME NEW row \in Row, NEW new, NEW fs, Len(fs) \in Nat, NEW u, NEW f, Grown(fs, u, f), f.state = "run",
         NEW n, n = Len(fs) + 1, f.parent \in FramesOf(fs, f.trace) \cup {None},
         Joined(row, new, n, f.where, f.parent), Pictured(row, fs, f.trace)
  PROVE  Pictured(new, u, f.trace)
<1> DEFINE r == f.trace
<1>1. FramesOf(u, r) = FramesOf(fs, r) \cup {n} /\ n \notin FramesOf(fs, r)
      /\ u[n] = f /\ \A m \in FramesOf(fs, r) : u[m] = fs[m]
  BY DEF Grown, FramesOf
<1>2. DOMAIN row.nodes = FramesOf(fs, r) /\ DOMAIN new.nodes = FramesOf(u, r)
  BY <1>1 DEF Pictured, Joined
<1>4. n \notin ToSet(row.stack)
  BY <1>1 DEF Pictured
<1>5. row.stack \in Seq(Nodes) /\ new.stack = Append(row.stack, n)
  BY DEF Row, Joined
<1>6. ToSet(new.stack) = ToSet(row.stack) \cup {n}
  BY <1>5, Pushed
<1>7. IsInjective(new.stack)
  BY <1>4, <1>5, Pushed DEF Pictured
<1>8. new.nodes[n].parent = f.parent
  BY <1>2 DEF Joined, Pictured
<1>9. ASSUME NEW m \in FramesOf(u, r)
      PROVE  /\ new.nodes[m].parent = u[m].parent /\ new.nodes[m].where = u[m].where
             /\ new.nodes[m].state = Shows(u[m].state)
             /\ u[m].where = "loop" => new.sawLoop
             /\ m \in ToSet(new.stack) <=> u[m].state # "gone"
  <2>1. CASE m = n
    BY <1>1, <1>6, <1>8, <2>1 DEF Joined, Shows
  <2>2. CASE m # n
    <3>1. m \in FramesOf(fs, r) /\ u[m] = fs[m] /\ new.nodes[m] = row.nodes[m]
      BY <1>1, <1>2, <2>2 DEF Joined
    <3> QED BY <1>6, <2>2, <3>1 DEF Pictured, Joined
  <2> QED BY <2>1, <2>2
<1>10. ToSet(new.stack) \subseteq FramesOf(u, r)
  BY <1>1, <1>6 DEF Pictured
<1> QED BY <1>2, <1>7, <1>9, <1>10 DEF Pictured

\* A frame of another request changes.
LEMMA PictureBesideTurn ==
  ASSUME NEW row, NEW fs, NEW u, NEW n, NEW s, Altered(fs, u, n, s),
         NEW q, n \notin FramesOf(fs, q), Pictured(row, fs, q)
  PROVE  Pictured(row, u, q)
<1>1. /\ FramesOf(u, q) = FramesOf(fs, q)
      /\ \A m \in FramesOf(fs, q) : /\ u[m].parent = fs[m].parent /\ u[m].where = fs[m].where
                                    /\ u[m].state = fs[m].state
  BY DEF Altered, FramesOf
<1> QED BY <1>1 DEF Pictured

\* A frame of this request suspends or resumes.
LEMMA PictureTurned ==
  ASSUME NEW row, NEW new, NEW fs, NEW u, NEW n, NEW s, Altered(fs, u, n, s),
         NEW q, n \in FramesOf(fs, q), fs[n].state # "gone", s # "gone",
         Turned(row, new, n, Shows(s)), new.stack = row.stack, Pictured(row, fs, q)
  PROVE  Pictured(new, u, q)
<1>1. /\ FramesOf(u, q) = FramesOf(fs, q)
      /\ \A m \in FramesOf(fs, q) : /\ u[m].parent = fs[m].parent /\ u[m].where = fs[m].where
                                    /\ u[m].state = IF m = n THEN s ELSE fs[m].state
  BY DEF Altered, FramesOf
<1>2. DOMAIN row.nodes = FramesOf(fs, q) /\ DOMAIN new.nodes = FramesOf(u, q)
  BY <1>1 DEF Pictured, Turned
<1>3. ASSUME NEW m \in FramesOf(u, q)
      PROVE  /\ new.nodes[m].parent = u[m].parent /\ new.nodes[m].where = u[m].where
             /\ new.nodes[m].state = Shows(u[m].state)
             /\ u[m].where = "loop" => new.sawLoop
             /\ m \in ToSet(new.stack) <=> u[m].state # "gone"
  <2>1. CASE m = n
    BY <1>1, <1>2, <2>1 DEF Turned, Pictured
  <2>2. CASE m # n
    BY <1>1, <1>2, <2>2 DEF Turned, Pictured
  <2> QED BY <2>1, <2>2
<1> QED BY <1>1, <1>2, <1>3 DEF Pictured

\* A frame of this request returns.
LEMMA PictureLeft ==
  ASSUME NEW row, NEW new, NEW fs, NEW u, NEW n, Altered(fs, u, n, "gone"),
         NEW q, n \in FramesOf(fs, q), 
         Turned(row, new, n, "done"), OffStack(row, new, n), Pictured(row, fs, q)
  PROVE  Pictured(new, u, q)
<1>1. /\ FramesOf(u, q) = FramesOf(fs, q)
      /\ \A m \in FramesOf(fs, q) : /\ u[m].parent = fs[m].parent /\ u[m].where = fs[m].where
                                    /\ u[m].state = IF m = n THEN "gone" ELSE fs[m].state
  BY DEF Altered, FramesOf
<1>2. DOMAIN row.nodes = FramesOf(fs, q) /\ DOMAIN new.nodes = FramesOf(u, q)
  BY <1>1 DEF Pictured, Turned
<1>3. ToSet(new.stack) = ToSet(row.stack) \ {n} /\ IsInjective(new.stack)
  BY DEF Pictured, OffStack
<1>4. ASSUME NEW m \in FramesOf(u, q)
      PROVE  /\ new.nodes[m].parent = u[m].parent /\ new.nodes[m].where = u[m].where
             /\ new.nodes[m].state = Shows(u[m].state)
             /\ u[m].where = "loop" => new.sawLoop
             /\ m \in ToSet(new.stack) <=> u[m].state # "gone"
  <2>1. CASE m = n
    BY <1>1, <1>2, <1>3, <2>1 DEF Turned, Pictured, Shows
  <2>2. CASE m # n
    BY <1>1, <1>2, <1>3, <2>2 DEF Turned, Pictured
  <2> QED BY <2>1, <2>2
<1> QED BY <1>1, <1>2, <1>3, <1>4 DEF Pictured

-----------------------------------------------------------------------------
(* What an event does to the tree and the stack of its row *)

\* Taken out of a sequence that does not repeat itself, it is gone, and nothing
\* else is.
LEMMA RemovedOnce ==
  ASSUME NEW S, NEW s \in Seq(S), NEW i \in 1 .. Len(s), IsInjective(s)
  PROVE  /\ ToSet(RemoveAt(s, i)) = ToSet(s) \ {s[i]}
         /\ IsInjective(RemoveAt(s, i))
<1> DEFINE t == RemoveAt(s, i)
<1>1. /\ t \in Seq(S) /\ Len(t) = Len(s) - 1
      /\ \A j \in 1 .. Len(s) - 1 : t[j] = IF j < i THEN s[j] ELSE s[j + 1]
  BY Removed
<1> HIDE DEF t
<1>2. Len(s) \in Nat /\ DOMAIN s = 1 .. Len(s) /\ DOMAIN t = 1 .. Len(s) - 1
  BY <1>1, LenProperties
<1>3. \A j, k \in 1 .. Len(s) : s[j] = s[k] => j = k
  BY <1>2 DEF IsInjective
<1>4. IsInjective(t)
  <2>1. ASSUME NEW j \in 1 .. Len(s) - 1, NEW k \in 1 .. Len(s) - 1, t[j] = t[k]
        PROVE  j = k
    <3>1. j \in 1 .. Len(s) /\ k \in 1 .. Len(s) /\ j + 1 \in 1 .. Len(s) /\ k + 1 \in 1 .. Len(s)
      BY <1>2
    <3>2. CASE j < i /\ k < i
      BY <1>1, <1>3, <2>1, <3>1, <3>2
    <3>3. CASE j < i /\ ~ (k < i)
      <4>1. j = k + 1
        BY <1>1, <1>3, <2>1, <3>1, <3>3
      <4> QED BY <4>1, <3>3, <1>2
    <3>4. CASE ~ (j < i) /\ k < i
      <4>1. j + 1 = k
        BY <1>1, <1>3, <2>1, <3>1, <3>4
      <4> QED BY <4>1, <3>4, <1>2
    <3>5. CASE ~ (j < i) /\ ~ (k < i)
      <4>1. j + 1 = k + 1
        BY <1>1, <1>3, <2>1, <3>1, <3>5
      <4> QED BY <4>1, <1>2
    <3> QED BY <3>2, <3>3, <3>4, <3>5
  <2> QED BY <1>2, <2>1 DEF IsInjective
<1>5. ASSUME NEW j \in 1 .. Len(s) - 1
      PROVE  t[j] \in ToSet(s) \ {s[i]}
  <2>1. j \in 1 .. Len(s) /\ j + 1 \in 1 .. Len(s)
    BY <1>2
  <2>2. CASE j < i
    <3>1. t[j] = s[j] /\ s[j] # s[i]
      BY <1>1, <1>2, <1>3, <2>1, <2>2
    <3> QED BY <1>2, <2>1, <3>1 DEF ToSet
  <2>3. CASE ~ (j < i)
    <3>1. t[j] = s[j + 1] /\ j + 1 # i
      BY <1>1, <1>2, <2>3
    <3>2. s[j + 1] # s[i]
      BY <1>3, <2>1, <3>1
    <3> QED BY <1>2, <2>1, <3>1, <3>2 DEF ToSet
  <2> QED BY <2>2, <2>3
<1>6. ASSUME NEW k \in 1 .. Len(s), k # i
      PROVE  s[k] \in ToSet(t)
  <2>1. CASE k < i
    <3>1. k \in 1 .. Len(s) - 1 /\ t[k] = s[k]
      BY <1>1, <1>2, <2>1
    <3> QED BY <1>2, <3>1 DEF ToSet
  <2>2. CASE ~ (k < i)
    <3>1. k - 1 \in 1 .. Len(s) - 1 /\ ~ (k - 1 < i) /\ k - 1 + 1 = k
      BY <1>2, <1>6, <2>2
    <3>2. t[k - 1] = s[k]
      BY <1>1, <3>1
    <3> QED BY <1>2, <3>1, <3>2 DEF ToSet
  <2> QED BY <2>1, <2>2
<1>7. ToSet(t) = ToSet(s) \ {s[i]}
  <2>1. ASSUME NEW x \in ToSet(t) PROVE x \in ToSet(s) \ {s[i]}
    BY <1>2, <1>5, <2>1 DEF ToSet
  <2>2. ASSUME NEW x \in ToSet(s), x # s[i] PROVE x \in ToSet(t)
    <3>1. PICK k \in 1 .. Len(s) : x = s[k]
      BY <1>2 DEF ToSet
    <3> QED BY <2>2, <3>1, <1>6
  <2> QED BY <2>1, <2>2
<1> QED BY <1>4, <1>7 DEF t

\* What is counted and timed is left alone.
SameRest(row, new) ==
  /\ new.live = row.live /\ new.done = row.done
  /\ new.spans = row.spans /\ new.blockCount = row.blockCount

\* A frame joins the tree and the stack.
LEMMA EnteredTree ==
  ASSUME NEW row \in Row, NEW n, NEW where, NEW parent
  PROVE  LET new == Entered(row, n, where, parent) IN
         Joined(row, new, n, where, parent) /\ SameRest(row, new)
<1> DEFINE under == IF parent \in DOMAIN row.nodes THEN parent ELSE None
           node == [state |-> "running", where |-> where, parent |-> under, offloaded |-> FALSE]
           t == With(row.nodes, n, node)
           new == Entered(row, n, where, parent)
<1>1. /\ DOMAIN t = DOMAIN row.nodes \cup {n} /\ t[n] = node
      /\ \A m \in DOMAIN row.nodes : m # n => t[m] = row.nodes[m]
  BY DEF With
<1>2. node.state = "running" /\ node.where = where /\ node.parent = under
  OBVIOUS
<1>3. new = [row EXCEPT !.sawLoop = row.sawLoop \/ where = "loop", !.sawPool = row.sawPool \/ where = "pool",
                        !.nodes = t, !.stack = Append(row.stack, n)]
  BY DEF Entered, Row
<1> HIDE DEF t, node, new
<1>4. /\ new.nodes = t /\ new.stack = Append(row.stack, n)
      /\ new.sawLoop = (row.sawLoop \/ where = "loop")
      /\ SameRest(row, new)
  BY <1>3 DEF Row, SameRest
<1>5. Joined(row, new, n, where, parent)
  BY <1>1, <1>2, <1>4 DEF Joined
<1> QED BY <1>4, <1>5 DEF new

\* A node changes its state.
LEMMA TurnedTree ==
  ASSUME NEW row \in Row, NEW n, NEW state \in {"running", "suspended", "done"}
  PROVE  LET new == SetState(row, n, state) IN
         Turned(row, new, n, state) /\ new.stack = row.stack /\ SameRest(row, new)
<1>1. PICK t \in Trees :
        /\ SetState(row, n, state) = [row EXCEPT !.nodes = t]
        /\ DOMAIN t = DOMAIN row.nodes
        /\ \A m \in DOMAIN t : t[m] = IF m = n THEN [row.nodes[m] EXCEPT !.state = state]
                                               ELSE row.nodes[m]
  BY StateSet
<1>2. \A m \in DOMAIN row.nodes : row.nodes[m] \in Node
  <2>1. row.nodes \in Trees
    BY DEF Row
  <2> QED BY <2>1, TreesAre
<1> DEFINE new == SetState(row, n, state)
<1>3. new.nodes = t /\ new.stack = row.stack /\ new.sawLoop = row.sawLoop /\ SameRest(row, new)
  BY <1>1 DEF Row, SameRest
<1> HIDE DEF new
<1>4. \A m \in DOMAIN row.nodes :
        /\ t[m].where = row.nodes[m].where /\ t[m].parent = row.nodes[m].parent
        /\ t[m].state = IF m = n THEN state ELSE row.nodes[m].state
  <2> SUFFICES ASSUME NEW m \in DOMAIN row.nodes
               PROVE  /\ t[m].where = row.nodes[m].where /\ t[m].parent = row.nodes[m].parent
                      /\ t[m].state = IF m = n THEN state ELSE row.nodes[m].state
    OBVIOUS
  <2>1. CASE m = n
    <3>1. t[m] = [row.nodes[m] EXCEPT !.state = state] /\ row.nodes[m] \in Node
      BY <1>1, <1>2, <2>1
    <3> QED BY <2>1, <3>1 DEF Node
  <2>2. CASE m # n
    BY <1>1, <2>2
  <2> QED BY <2>1, <2>2
<1> QED BY <1>1, <1>3, <1>4 DEF Turned, new

\* A frame is done in the tree, and leaves the stack wherever it is.
LEMMA LeavesTree ==
  ASSUME NEW row \in Row, NEW n \in Nodes
  PROVE  LET new == Returned(row, n) IN
         Turned(row, new, n, "done") /\ OffStack(row, new, n) /\ SameRest(row, new)
<1> DEFINE told == SetState(row, n, "done")
           at == {i \in DOMAIN row.stack : row.stack[i] = n}
           s == IF at = {} THEN row.stack ELSE RemoveAt(row.stack, Max(at))
           new == Returned(row, n)
<1>1. Turned(row, told, n, "done") /\ told.stack = row.stack /\ SameRest(row, told)
  BY TurnedTree
<1>2. row.stack \in Seq(Nodes) /\ Len(row.stack) \in Nat /\ DOMAIN row.stack = 1 .. Len(row.stack)
  BY LenProperties DEF Row
<1>3. PICK t \in Trees : told = [row EXCEPT !.nodes = t]
  BY StateSet
<1>4. new = [told EXCEPT !.stack = s]
  BY <1>1 DEF Returned
<1>5. IsInjective(row.stack) => ToSet(s) = ToSet(row.stack) \ {n} /\ IsInjective(s)
  <2>1. CASE at = {}
    <3>1. n \notin ToSet(row.stack)
      BY <2>1 DEF ToSet
    <3>2. s = row.stack
      BY <2>1
    <3> QED BY <3>1, <3>2
  <2>2. CASE at # {}
    <3>1. Max(at) \in at
      <4>1. at \in SUBSET (1 .. Len(row.stack))
        BY <1>2
      <4> HIDE DEF at
      <4> QED BY <1>2, <2>2, <4>1, FirstAndLast
    <3>2. Max(at) \in 1 .. Len(row.stack) /\ row.stack[Max(at)] = n
      BY <1>2, <3>1
    <3>3. s = RemoveAt(row.stack, Max(at))
      BY <2>2
    <3> HIDE DEF s, at
    <3> QED BY <1>2, <3>2, <3>3, RemovedOnce
  <2> QED BY <2>1, <2>2
<1> HIDE DEF s, told, new
<1>6. /\ new.stack = s /\ new.nodes = told.nodes /\ new.sawLoop = told.sawLoop
      /\ SameRest(told, new)
  BY <1>3, <1>4 DEF Row, SameRest
<1>7. Turned(row, new, n, "done") /\ OffStack(row, new, n)
  BY <1>1, <1>5, <1>6 DEF Turned, OffStack
<1>8. SameRest(row, new)
  BY <1>1, <1>6 DEF SameRest
<1> QED BY <1>7, <1>8 DEF new

\* Being marked as on a worker or not does not show in the tree.
LEMMA OffloadedTree ==
  ASSUME NEW row \in Row, NEW n, NEW b \in BOOLEAN
  PROVE  LET new == SetOffloaded(row, n, b) IN
         /\ SameTree(row, new) /\ SameRest(row, new)
         /\ \E t : new = [row EXCEPT !.nodes = t]
<1>1. \A x \in DOMAIN row.nodes : row.nodes[x] \in Node
  <2>1. row.nodes \in Trees
    BY DEF Row
  <2> QED BY <2>1, TreesAre
<1>2. CASE n \in DOMAIN row.nodes
  <2> DEFINE y == [row.nodes[n] EXCEPT !.offloaded = b]
             t == [row.nodes EXCEPT ![n] = y]
             new == [row EXCEPT !.nodes = t]
  <2>1. SetOffloaded(row, n, b) = new
    BY <1>2 DEF SetOffloaded, Row
  <2>2. y.state = row.nodes[n].state /\ y.where = row.nodes[n].where /\ y.parent = row.nodes[n].parent
    BY <1>1, <1>2 DEF Node
  <2> HIDE DEF y
  <2>3. /\ DOMAIN t = DOMAIN row.nodes
        /\ \A m \in DOMAIN row.nodes : /\ t[m].state = row.nodes[m].state /\ t[m].where = row.nodes[m].where
                                       /\ t[m].parent = row.nodes[m].parent
    BY <1>2, <2>2
  <2> HIDE DEF t
  <2>4. new.nodes = t /\ new.stack = row.stack /\ new.sawLoop = row.sawLoop /\ SameRest(row, new)
    BY DEF Row, SameRest
  <2> HIDE DEF new
  <2>5. SameTree(row, new)
    BY <2>3, <2>4 DEF SameTree
  <2> QED BY <2>1, <2>4, <2>5 DEF new
<1>3. CASE n \notin DOMAIN row.nodes
  <2>1. [row EXCEPT !.nodes = row.nodes] = row
    BY DEF Row
  <2> QED BY <1>3, <2>1 DEF SetOffloaded, SameTree, SameRest
<1> QED BY <1>2, <1>3

\* Neither does the count of workers.
LEMMA WorkerTree ==
  ASSUME NEW row \in Row, NEW n \in Nodes
  PROVE  /\ SameTree(row, Told(row, n)) /\ SameTree(row, Ended(row, n))
         /\ Told(row, n).spans = row.spans /\ Told(row, n).blockCount = row.blockCount
         /\ Ended(row, n).spans = row.spans /\ Ended(row, n).blockCount = row.blockCount
         /\ Told(row, n).done = row.done /\ Ended(row, n).done = row.done
<1> DEFINE At(b, k, s) == [SetOffloaded(row, n, b) EXCEPT !.live = k, !.started = s]
<1>1. ASSUME NEW b \in BOOLEAN, NEW k, NEW s
      PROVE  /\ SameTree(row, At(b, k, s))
             /\ At(b, k, s).spans = row.spans /\ At(b, k, s).blockCount = row.blockCount
             /\ At(b, k, s).done = row.done
  <2> DEFINE c == SetOffloaded(row, n, b)
             new == At(b, k, s)
  <2>1. SameTree(row, c) /\ SameRest(row, c)
    BY OffloadedTree
  <2>2. PICK t : c = [row EXCEPT !.nodes = t]
    BY OffloadedTree
  <2>3. new = [c EXCEPT !.live = k, !.started = s]
    OBVIOUS
  <2> HIDE DEF c, At
  <2>4. /\ new.nodes = c.nodes /\ new.stack = c.stack /\ new.sawLoop = c.sawLoop
        /\ new.spans = c.spans /\ new.blockCount = c.blockCount /\ new.done = c.done
    BY <2>2, <2>3 DEF Row
  <2> HIDE DEF new
  <2>5. /\ SameTree(row, new) /\ new.spans = row.spans /\ new.blockCount = row.blockCount
        /\ new.done = row.done
    BY <2>1, <2>4 DEF SameTree, SameRest
  <2> QED BY <2>5 DEF new
<1>2. /\ \E k, s : Told(row, n) = At(TRUE, k, s)
      /\ \E k, s : Ended(row, n) = At(FALSE, k, s)
  <2>1. /\ Told(row, n) = At(TRUE, SetOffloaded(row, n, TRUE).live + 1, SetOffloaded(row, n, TRUE).started \cup {n})
        /\ Ended(row, n) = At(FALSE, IF SetOffloaded(row, n, FALSE).live > 0
                                       THEN SetOffloaded(row, n, FALSE).live - 1 ELSE 0,
                              SetOffloaded(row, n, FALSE).started \ {n})
    BY DEF Told, Ended
  <2> HIDE DEF At
  <2> QED BY <2>1
<1> HIDE DEF At
<1>3. PICK k, s : Told(row, n) = At(TRUE, k, s)
  BY <1>2
<1>4. PICK j, t : Ended(row, n) = At(FALSE, j, t)
  BY <1>2
<1>5. TRUE \in BOOLEAN /\ FALSE \in BOOLEAN
  OBVIOUS
<1> QED BY <1>1, <1>3, <1>4, <1>5

-----------------------------------------------------------------------------
(* The spans of a row, and the holds of its frames *)

EndedOf(row, n) == {i \in DOMAIN row.spans : row.spans[i].node = n /\ row.spans[i].ended}
OpenOf(row, n) == {i \in DOMAIN row.spans : row.spans[i].node = n /\ ~ row.spans[i].ended}

\* Frame n was named, and no hold of it reported.
Pending(h, nm, n) == n \in nm /\ h[n] = 0

\* The spans of the row are those of frames in S: for each of the h[n] holds of n
\* one that has ended, and one that is open if it is pending.
Timed(row, S, h, nm) ==
  /\ row.blockCount = Len(row.spans)
  /\ \A i \in DOMAIN row.spans : row.spans[i].node \in S
  /\ \A n \in S :
       /\ Cardinality(EndedOf(row, n)) = h[n]
       /\ Pending(h, nm, n) => \E x : OpenOf(row, n) = {x}
       /\ ~ Pending(h, nm, n) => OpenOf(row, n) = {}

\* A row with the same spans is as well timed.
LEMMA TimedSame ==
  ASSUME NEW row, NEW new, new.spans = row.spans, new.blockCount = row.blockCount,
         NEW S, NEW h, NEW nm, Timed(row, S, h, nm)
  PROVE  Timed(new, S, h, nm)
<1>1. \A n : EndedOf(new, n) = EndedOf(row, n) /\ OpenOf(new, n) = OpenOf(row, n)
  BY DEF EndedOf, OpenOf
<1> QED BY <1>1 DEF Timed

\* A frame of which nothing is known has no span.
LEMMA TimedJoined ==
  ASSUME NEW row, NEW S, NEW h, NEW nm, Timed(row, S, h, nm),
         NEW n, n \notin S, h[n] = 0, n \notin nm
  PROVE  Timed(row, S \cup {n}, h, nm)
<1>1. EndedOf(row, n) = {} /\ OpenOf(row, n) = {}
  BY DEF Timed, EndedOf, OpenOf
<1>2. Cardinality(EndedOf(row, n)) = h[n] /\ ~ Pending(h, nm, n)
  BY <1>1, FS_EmptySet DEF Pending
<1> QED BY <1>1, <1>2 DEF Timed

\* There are finitely many spans.
LEMMA SpansFinite ==
  ASSUME NEW row \in Row, NEW n
  PROVE  /\ IsFiniteSet(EndedOf(row, n))
         /\ row.spans \in Seq(Span) /\ row.blockCount \in Nat /\ Len(row.spans) \in Nat
         /\ DOMAIN row.spans = 1 .. Len(row.spans)
<1>1. /\ row.spans \in Seq(Span) /\ row.blockCount \in Nat /\ Len(row.spans) \in Nat
      /\ DOMAIN row.spans = 1 .. Len(row.spans)
  BY LenProperties DEF Row
<1>2. \A k \in Nat : IsFiniteSet(1 .. k)
  BY FS_Interval
<1>3. EndedOf(row, n) \subseteq 1 .. Len(row.spans)
  BY <1>1 DEF EndedOf
<1> QED BY <1>1, <1>2, <1>3, FS_Subset

\* What is appended to the spans.
LEMMA OneSpanMore ==
  ASSUME NEW s \in Seq(Span), NEW n \in Nodes, NEW b \in BOOLEAN
  PROVE  LET u == Append(s, [node |-> n, ended |-> b]) IN
         /\ Len(u) = Len(s) + 1 /\ DOMAIN u = 1 .. Len(s) + 1 /\ DOMAIN s = 1 .. Len(s)
         /\ \A i \in 1 .. Len(s) : u[i] = s[i]
         /\ u[Len(s) + 1].node = n /\ u[Len(s) + 1].ended = b
<1> DEFINE x == [node |-> n, ended |-> b]
           u == Append(s, x)
<1>1. x \in Span /\ x.node = n /\ x.ended = b
  BY DEF Span
<1> HIDE DEF x
<1>2. /\ u \in Seq(Span) /\ Len(u) = Len(s) + 1
      /\ \A i \in 1 .. Len(s) : u[i] = s[i]
      /\ u[Len(s) + 1] = x
  BY <1>1, AppendProperties
<1> HIDE DEF u
<1>3. DOMAIN u = 1 .. Len(u) /\ DOMAIN s = 1 .. Len(s)
  BY <1>2, LenProperties
<1> QED BY <1>1, <1>2, <1>3 DEF u, x

\* In new, span x is one of frame n, and all that is not of n is as it was.
Respanned(row, new, n, x) ==
  /\ new.blockCount = Len(new.spans)
  /\ \A i \in DOMAIN new.spans : i = x \/ (i \in DOMAIN row.spans /\ new.spans[i] = row.spans[i])
  /\ x \in DOMAIN new.spans /\ new.spans[x].node = n
  /\ \A i \in DOMAIN row.spans : i \in DOMAIN new.spans /\ new.spans[i].node = row.spans[i].node

\* A span that is appended,
LEMMA Appended ==
  ASSUME NEW row \in Row, row.blockCount = Len(row.spans), NEW n \in Nodes, NEW b \in BOOLEAN,
         NEW new, new.spans = Append(row.spans, [node |-> n, ended |-> b]),
         new.blockCount = row.blockCount + 1
  PROVE  LET x == Len(row.spans) + 1 IN
         Respanned(row, new, n, x) /\ new.spans[x].ended = b /\ x \notin DOMAIN row.spans
<1> DEFINE u == Append(row.spans, [node |-> n, ended |-> b])
           x == Len(row.spans) + 1
<1>1. /\ row.spans \in Seq(Span) /\ row.blockCount \in Nat /\ Len(row.spans) \in Nat
      /\ DOMAIN row.spans = 1 .. Len(row.spans)
  BY SpansFinite
<1>2. /\ Len(u) = Len(row.spans) + 1 /\ DOMAIN u = 1 .. Len(row.spans) + 1
      /\ \A i \in 1 .. Len(row.spans) : u[i] = row.spans[i]
      /\ u[x].node = n /\ u[x].ended = b
  BY <1>1, OneSpanMore
<1>3. new.spans = u
  OBVIOUS
<1> HIDE DEF u
<1>4. x \notin DOMAIN row.spans /\ x \in DOMAIN u
      /\ \A i \in DOMAIN u : i = x \/ (i \in DOMAIN row.spans /\ u[i] = row.spans[i])
  BY <1>1, <1>2
<1>5. \A i \in DOMAIN row.spans : i \in DOMAIN u /\ u[i] = row.spans[i]
  BY <1>1, <1>2
<1> HIDE DEF x
<1>6. Respanned(row, new, n, x)
  BY <1>1, <1>2, <1>3, <1>4, <1>5 DEF Respanned, x
<1> QED BY <1>2, <1>3, <1>4, <1>6 DEF x

\* and one that is closed.
LEMMA Closed ==
  ASSUME NEW row \in Row, row.blockCount = Len(row.spans), NEW n, NEW x \in DOMAIN row.spans,
         row.spans[x].node = n, NEW new, new = [row EXCEPT !.spans[x].ended = TRUE]
  PROVE  Respanned(row, new, n, x) /\ new.spans[x].ended = TRUE
<1> DEFINE y == [row.spans[x] EXCEPT !.ended = TRUE]
           s == [row.spans EXCEPT ![x] = y]
<1>1. /\ row.spans \in Seq(Span) /\ row.blockCount \in Nat /\ Len(row.spans) \in Nat
      /\ DOMAIN row.spans = 1 .. Len(row.spans)
  BY SpansFinite
<1>2. row.spans[x] \in Span
  BY <1>1, ElementOfSeq
<1>3. y \in Span /\ y.ended = TRUE /\ y.node = n
  BY <1>2 DEF Span
<1>4. new = [row EXCEPT !.spans = s]
  BY DEF Row
<1> HIDE DEF y
<1>5. /\ Len(s) = Len(row.spans) /\ s \in Seq(Span)
      /\ \A i \in 1 .. Len(row.spans) : s[i] = IF i = x THEN y ELSE row.spans[i]
  BY <1>1, <1>3, ExceptSeq
<1> HIDE DEF s
<1>6. new.spans = s /\ new.blockCount = row.blockCount /\ DOMAIN s = DOMAIN row.spans
  BY <1>1, <1>4, <1>5, LenProperties DEF Row
<1> QED BY <1>1, <1>3, <1>5, <1>6 DEF Respanned

\* The other frames have the spans they had.
LEMMA OthersSpans ==
  ASSUME NEW row, NEW new, NEW n, NEW x, Respanned(row, new, n, x),
         x \in DOMAIN row.spans => row.spans[x].node = n, NEW m, m # n
  PROVE  EndedOf(new, m) = EndedOf(row, m) /\ OpenOf(new, m) = OpenOf(row, m)
BY DEF Respanned, EndedOf, OpenOf

\* A hold that is over closes the span of its frame that is open, or is one more.
LEMMA TimedBlocked ==
  ASSUME NEW row \in Row, NEW n \in Nodes, NEW S, n \in S, NEW h, h[n] \in Nat, NEW nm,
         NEW k, k[n] = h[n] + 1, \A m \in S : m # n => k[m] = h[m],
         Timed(row, S, h, nm)
  PROVE  Timed(Blocked(row, n), S, k, nm)
<1> DEFINE opens == {i \in DOMAIN row.spans : row.spans[i].node = n /\ ~ row.spans[i].ended}
           new == Blocked(row, n)
<1>1. /\ row.spans \in Seq(Span) /\ row.blockCount \in Nat /\ Len(row.spans) \in Nat
      /\ DOMAIN row.spans = 1 .. Len(row.spans) /\ IsFiniteSet(EndedOf(row, n))
      /\ row.blockCount = Len(row.spans)
  BY SpansFinite DEF Timed
<1>2. opens = OpenOf(row, n)
  BY DEF OpenOf
<1> HIDE DEF opens, new
<1>3. \E x : /\ Respanned(row, new, n, x) /\ new.spans[x].ended
             /\ OpenOf(row, n) \subseteq {x} /\ x \notin EndedOf(row, n)
             /\ x \in DOMAIN row.spans => row.spans[x].node = n
  <2>1. CASE opens = {}
    <3> DEFINE u == Append(row.spans, [node |-> n, ended |-> TRUE])
               c == row.blockCount + 1
               x == Len(row.spans) + 1
    <3>1. new = [row EXCEPT !.spans = u, !.blockCount = c]
      BY <2>1 DEF Blocked, new, opens, Row
    <3> HIDE DEF u, c
    <3>2. new.spans = u /\ new.blockCount = c
      BY <3>1 DEF Row
    <3>3. new.spans = Append(row.spans, [node |-> n, ended |-> TRUE])
          /\ new.blockCount = row.blockCount + 1
      BY <3>2 DEF u, c
    <3>4. Respanned(row, new, n, x) /\ new.spans[x].ended = TRUE /\ x \notin DOMAIN row.spans
      BY <1>1, <3>3, Appended
    <3> QED BY <1>2, <2>1, <3>4 DEF EndedOf
  <2>2. CASE opens # {}
    <3>1. PICK x : opens = {x}
      BY <1>2, <2>2 DEF Timed
    <3>2. x \in DOMAIN row.spans /\ row.spans[x].node = n /\ ~ row.spans[x].ended
      BY <3>1 DEF opens
    <3>3. Min(opens) = x
      <4>1. opens \in SUBSET (1 .. Len(row.spans))
        BY <1>1 DEF opens
      <4>2. Min(opens) \in opens
        BY <1>1, <2>2, <4>1, FirstAndLast
      <4> QED BY <3>1, <4>2
    <3>4. new = [row EXCEPT !.spans[Min(opens)].ended = TRUE]
      BY <2>2 DEF Blocked, new, opens
    <3>5. new = [row EXCEPT !.spans[x].ended = TRUE]
      BY <3>3, <3>4
    <3>6. Respanned(row, new, n, x) /\ new.spans[x].ended = TRUE
      BY <1>1, <3>2, <3>5, Closed
    <3> QED BY <1>2, <3>1, <3>2, <3>6 DEF EndedOf
  <2> QED BY <2>1, <2>2
<1>4. PICK x : /\ Respanned(row, new, n, x) /\ new.spans[x].ended
               /\ OpenOf(row, n) \subseteq {x} /\ x \notin EndedOf(row, n)
               /\ x \in DOMAIN row.spans => row.spans[x].node = n
  BY <1>3
<1>5. EndedOf(new, n) = EndedOf(row, n) \cup {x}
  BY <1>4 DEF Respanned, EndedOf, OpenOf
<1>6. OpenOf(new, n) = {}
  BY <1>4 DEF Respanned, OpenOf
<1>7. Cardinality(EndedOf(new, n)) = k[n] /\ ~ Pending(k, nm, n)
  <2>1. Cardinality(EndedOf(row, n)) = h[n]
    BY DEF Timed
  <2>2. Cardinality(EndedOf(row, n) \cup {x}) = Cardinality(EndedOf(row, n)) + 1
    BY <1>1, <1>4, FS_AddElement
  <2>3. k[n] # 0
    OBVIOUS
  <2> QED BY <1>5, <2>1, <2>2, <2>3 DEF Pending
<1>8. ASSUME NEW m \in S, m # n
      PROVE  /\ Cardinality(EndedOf(new, m)) = k[m]
             /\ Pending(k, nm, m) => \E y : OpenOf(new, m) = {y}
             /\ ~ Pending(k, nm, m) => OpenOf(new, m) = {}
  <2>1. EndedOf(new, m) = EndedOf(row, m) /\ OpenOf(new, m) = OpenOf(row, m)
    BY <1>4, <1>8, OthersSpans
  <2>2. k[m] = h[m] /\ (Pending(k, nm, m) <=> Pending(h, nm, m))
    BY <1>8 DEF Pending
  <2> QED BY <2>1, <2>2 DEF Timed
<1>9. new.blockCount = Len(new.spans) /\ \A i \in DOMAIN new.spans : new.spans[i].node \in S
  BY <1>4 DEF Respanned, Timed
<1> QED BY <1>6, <1>7, <1>8, <1>9 DEF Timed, new

\* A frame that is named has an open span, unless a hold of it was reported.
LEMMA TimedFrozen ==
  ASSUME NEW row \in Row, NEW n \in Nodes, NEW S, n \in S, NEW h, NEW nm, Timed(row, S, h, nm),
         NEW mm, \A m \in S : m \in mm <=> m \in nm \/ m = n
  PROVE  Timed(Freezes(row, n), S, h, mm)
<1> DEFINE listed == \E i \in DOMAIN row.spans : row.spans[i].node = n
           u == Append(row.spans, [node |-> n, ended |-> FALSE])
           c == row.blockCount + 1
           new == Freezes(row, n)
<1>1. /\ row.spans \in Seq(Span) /\ row.blockCount \in Nat /\ Len(row.spans) \in Nat
      /\ DOMAIN row.spans = 1 .. Len(row.spans) /\ IsFiniteSet(EndedOf(row, n))
      /\ row.blockCount = Len(row.spans) /\ Cardinality(EndedOf(row, n)) = h[n]
  BY SpansFinite DEF Timed
<1>2. \A m \in S : m # n => (Pending(h, mm, m) <=> Pending(h, nm, m))
  BY DEF Pending
<1>3. CASE listed
  <2>1. new = [row EXCEPT !.stalled = TRUE]
    BY <1>3 DEF Freezes
  <2> HIDE DEF new
  <2>2. new.spans = row.spans /\ new.blockCount = row.blockCount
    BY <2>1 DEF Row
  <2>3. EndedOf(row, n) # {} \/ OpenOf(row, n) # {}
    BY <1>3 DEF EndedOf, OpenOf
  <2>4. Pending(h, mm, n) <=> Pending(h, nm, n)
    <3>1. CASE EndedOf(row, n) # {}
      <4>1. h[n] # 0
        BY <1>1, <3>1, FS_EmptySet
      <4> QED BY <4>1 DEF Pending
    <3>2. CASE OpenOf(row, n) # {}
      <4>1. Pending(h, nm, n)
        BY <3>2 DEF Timed
      <4> QED BY <4>1 DEF Pending
    <3> QED BY <2>3, <3>1, <3>2
  <2>5. Timed(row, S, h, mm)
    BY <1>2, <2>4 DEF Timed
  <2>6. Timed(new, S, h, mm)
    BY <2>2, <2>5, TimedSame
  <2> QED BY <2>6 DEF new
<1>4. CASE ~ listed
  <2> DEFINE x == Len(row.spans) + 1
  <2>1. new = [row EXCEPT !.spans = u, !.blockCount = c, !.stalled = TRUE]
    BY <1>4 DEF Freezes, Row
  <2> HIDE DEF u, c, new
  <2>2. new.spans = u /\ new.blockCount = c
    BY <2>1 DEF Row
  <2>3. new.spans = Append(row.spans, [node |-> n, ended |-> FALSE])
        /\ new.blockCount = row.blockCount + 1
    BY <2>2 DEF u, c
  <2>4. Respanned(row, new, n, x) /\ new.spans[x].ended = FALSE /\ x \notin DOMAIN row.spans
    BY <1>1, <2>3, Appended
  <2> HIDE DEF x
  <2>5. EndedOf(row, n) = {} /\ OpenOf(row, n) = {}
    BY <1>4 DEF EndedOf, OpenOf
  <2>6. EndedOf(new, n) = {} /\ OpenOf(new, n) = {x}
    BY <2>4, <2>5 DEF Respanned, EndedOf, OpenOf
  <2>7. h[n] = 0 /\ Pending(h, mm, n)
    BY <1>1, <2>5, FS_EmptySet DEF Pending
  <2>8. Cardinality(EndedOf(new, n)) = h[n]
    BY <2>6, <2>7, FS_EmptySet
  <2>9. ASSUME NEW m \in S, m # n
        PROVE  /\ Cardinality(EndedOf(new, m)) = h[m]
               /\ Pending(h, mm, m) => \E y : OpenOf(new, m) = {y}
               /\ ~ Pending(h, mm, m) => OpenOf(new, m) = {}
    <3>1. EndedOf(new, m) = EndedOf(row, m) /\ OpenOf(new, m) = OpenOf(row, m)
      BY <2>4, <2>9, OthersSpans
    <3> QED BY <1>2, <2>9, <3>1 DEF Timed
  <2>10. new.blockCount = Len(new.spans) /\ \A i \in DOMAIN new.spans : new.spans[i].node \in S
    BY <2>4 DEF Respanned, Timed
  <2> QED BY <2>6, <2>7, <2>8, <2>9, <2>10 DEF Timed, new
<1> QED BY <1>3, <1>4

\* Neither the timer nor the watchdog shows in the tree.
LEMMA TimedTree ==
  ASSUME NEW row \in Row, NEW n \in Nodes
  PROVE  /\ SameTree(row, Blocked(row, n)) /\ Blocked(row, n).live = row.live
         /\ SameTree(row, Freezes(row, n)) /\ Freezes(row, n).live = row.live
         /\ Blocked(row, n).done = row.done /\ Freezes(row, n).done = row.done
<1>1. /\ Blocked(row, n).nodes = row.nodes /\ Blocked(row, n).stack = row.stack
      /\ Blocked(row, n).sawLoop = row.sawLoop /\ Blocked(row, n).live = row.live
      /\ Blocked(row, n).done = row.done
  BY DEF Blocked, Row
<1>2. /\ Freezes(row, n).nodes = row.nodes /\ Freezes(row, n).stack = row.stack
      /\ Freezes(row, n).sawLoop = row.sawLoop /\ Freezes(row, n).live = row.live
      /\ Freezes(row, n).done = row.done
  BY DEF Freezes, Row
<1> HIDE DEF Blocked, Freezes
<1> QED BY <1>1, <1>2 DEF SameTree

-----------------------------------------------------------------------------
(* What an event does to what is shown *)

\* Every row shows the frames in fs of its request,
TreesOK(d, fs) == \A r \in DOMAIN d.rows : Pictured(d.rows[r], fs, r)

\* the holds h of these and those in nm that were named, and whether the request is
\* over,
SpansOK(d, fs, h, nm, ph) ==
  \A r \in DOMAIN d.rows : /\ Timed(d.rows[r], FramesOf(fs, r), h, nm)
                           /\ d.rows[r].done <=> ph[r] = "over"

\* and how many frames of it are on workers.
PoolOf(fs, r) == {n \in FramesOf(fs, r) : fs[n].where = "pool" /\ fs[n].state # "gone"}

WorkOK(d, fs) ==
  /\ \A r \in DOMAIN d.rows : d.rows[r].live = Cardinality(PoolOf(fs, r))
  /\ \A w \in d.workers : w[2] \in PoolOf(fs, w[1])

\* The loop is shown with request t, if it has a row.
HolderOK(d, t) == t # None /\ t \in DOMAIN d.rows => d.holder = t

\* Nothing of this changes,
SameTrees(d, e) ==
  DOMAIN e.rows = DOMAIN d.rows /\ \A r \in DOMAIN d.rows : SameTree(d.rows[r], e.rows[r])

SameSpans(d, e) ==
  /\ DOMAIN e.rows = DOMAIN d.rows
  /\ \A r \in DOMAIN d.rows : /\ e.rows[r].spans = d.rows[r].spans
                              /\ e.rows[r].blockCount = d.rows[r].blockCount
                              /\ e.rows[r].done = d.rows[r].done

SameWork(d, e) ==
  /\ DOMAIN e.rows = DOMAIN d.rows /\ e.workers = d.workers
  /\ \A r \in DOMAIN d.rows : e.rows[r].live = d.rows[r].live

\* and then what was true still is.
LEMMA TreesKept ==
  ASSUME NEW d, NEW e, SameTrees(d, e), NEW fs, TreesOK(d, fs)
  PROVE  TreesOK(e, fs)
BY PictureSame DEF SameTrees, TreesOK

\* Likewise for the spans.
LEMMA SpansKept ==
  ASSUME NEW d, NEW e, SameSpans(d, e), NEW fs, NEW h, NEW nm, NEW ph, SpansOK(d, fs, h, nm, ph)
  PROVE  SpansOK(e, fs, h, nm, ph)
BY TimedSame DEF SameSpans, SpansOK

\* A frame of which nothing is known joins the others, or one of them changes its
\* state.
LEMMA SpansGrown ==
  ASSUME NEW d, NEW fs, Len(fs) \in Nat, NEW u, NEW f, Grown(fs, u, f),
         NEW h, NEW nm, NEW ph, SpansOK(d, fs, h, nm, ph),
         h[Len(fs) + 1] = 0, Len(fs) + 1 \notin nm
  PROVE  SpansOK(d, u, h, nm, ph)
<1> DEFINE n == Len(fs) + 1
<1>1. n \notin 1 .. Len(fs) /\ 1 .. Len(u) = 1 .. Len(fs) \cup {n} /\ u[n] = f
  BY DEF Grown
<1> HIDE DEF n
<1>2. ASSUME NEW r \in DOMAIN d.rows PROVE Timed(d.rows[r], FramesOf(u, r), h, nm)
  <2>1. Timed(d.rows[r], FramesOf(fs, r), h, nm)
    BY DEF SpansOK
  <2>2. CASE f.trace = r
    <3>1. FramesOf(u, r) = FramesOf(fs, r) \cup {n} /\ n \notin FramesOf(fs, r)
      BY <1>1, <2>2 DEF FramesOf, Grown
    <3>2. h[n] = 0 /\ n \notin nm
      BY DEF n
    <3>3. Timed(d.rows[r], FramesOf(fs, r) \cup {n}, h, nm)
      BY <2>1, <3>1, <3>2, TimedJoined
    <3> QED BY <3>1, <3>3
  <2>3. CASE f.trace # r
    <3>1. FramesOf(u, r) = FramesOf(fs, r)
      BY <1>1, <2>3 DEF FramesOf, Grown
    <3> QED BY <2>1, <3>1
  <2> QED BY <2>2, <2>3
<1> QED BY <1>2 DEF SpansOK

LEMMA SpansAltered ==
  ASSUME NEW d, NEW fs, NEW u, NEW n, NEW s, Altered(fs, u, n, s),
         NEW h, NEW nm, NEW ph, SpansOK(d, fs, h, nm, ph)
  PROVE  SpansOK(d, u, h, nm, ph)
<1>1. \A r : FramesOf(u, r) = FramesOf(fs, r)
  BY DEF FramesOf, Altered
<1> QED BY <1>1 DEF SpansOK

\* Likewise for the workers.
LEMMA WorkKept ==
  ASSUME NEW d, NEW e, SameWork(d, e), NEW fs, WorkOK(d, fs)
  PROVE  WorkOK(e, fs)
BY DEF SameWork, WorkOK

\* A client that stays as it is.
LEMMA SameSelf ==
  ASSUME NEW d
  PROVE  SameTrees(d, d) /\ SameSpans(d, d) /\ SameWork(d, d)
BY DEF SameTrees, SameSpans, SameWork, SameTree

\* In e row r is another, the holder is h and the workers are W, and what does not
\* show in the row is as it was in d.
Changed(d, e, r, row, h, W) ==
  /\ Instead(d, e, r, row)
  /\ e.holder = h /\ e.workers = W /\ e.before = d.before
  /\ SameTree(d.rows[r], row) => SameTrees(d, e)
  /\ /\ row.spans = d.rows[r].spans /\ row.blockCount = d.rows[r].blockCount
     /\ row.done = d.rows[r].done
     => SameSpans(d, e)
  /\ row.live = d.rows[r].live /\ W = d.workers => SameWork(d, e)

\* The parts of a client of which one row is another.
LEMMA ShiftParts ==
  ASSUME NEW d \in Dash, NEW r \in DOMAIN d.rows, NEW row \in Row,
         NEW h \in Traces \cup {None}, NEW W \in Works, NEW z \in StallNote
  PROVE  Changed(d, Shift(d, r, row, h, W, z), r, row, h, W)
<1> DEFINE c == WithRow(d, r, row)
           e == Shift(d, r, row, h, W, z)
<1>1. c \in Dash /\ Instead(d, c, r, row) /\ c.before = d.before
  BY OtherRow
<1>2. e = [c EXCEPT !.holder = h, !.workers = W, !.stalled = z]
  BY DEF Shift
<1> HIDE DEF c, e
<1>3. e.rows = c.rows /\ e.holder = h /\ e.workers = W /\ e.before = d.before
  BY <1>1, <1>2 DEF Dash
<1>4. Instead(d, e, r, row)
  BY <1>1, <1>3 DEF Instead
<1>5. SameTree(d.rows[r], row) => SameTrees(d, e)
  BY <1>4 DEF Instead, SameTrees, SameTree
<1>6. /\ row.spans = d.rows[r].spans /\ row.blockCount = d.rows[r].blockCount
      /\ row.done = d.rows[r].done
      => SameSpans(d, e)
  BY <1>4 DEF Instead, SameSpans
<1>7. row.live = d.rows[r].live /\ W = d.workers => SameWork(d, e)
  BY <1>3, <1>4 DEF Instead, SameWork
<1> QED BY <1>3, <1>4, <1>5, <1>6, <1>7 DEF e, Changed

\* A hold that is over is one more of its frame.
LEMMA BlockedTaken ==
  ASSUME NEW d \in Dash, NEW r \in Traces, NEW n \in Nodes, NEW fs, n \in FramesOf(fs, r),
         NEW h, h[n] \in Nat, NEW nm, NEW ph, SpansOK(d, fs, h, nm, ph),
         NEW k, k[n] = h[n] + 1, \A m \in 1 .. Len(fs) : m # n => k[m] = h[m]
  PROVE  LET e == OnLoopBlocked(d, r, n) IN
         /\ SpansOK(e, fs, k, nm, ph) /\ SameTrees(d, e) /\ SameWork(d, e)
         /\ e.holder = d.holder /\ DOMAIN e.before \subseteq DOMAIN d.before \cup {r}
<1>0. \A q \in DOMAIN d.rows : q # r => Timed(d.rows[q], FramesOf(fs, q), k, nm)
  <2> SUFFICES ASSUME NEW q \in DOMAIN d.rows, q # r
               PROVE  Timed(d.rows[q], FramesOf(fs, q), k, nm)
    OBVIOUS
  <2>1. Timed(d.rows[q], FramesOf(fs, q), h, nm)
    BY DEF SpansOK
  <2>2. \A m \in FramesOf(fs, q) : k[m] = h[m]
    BY DEF FramesOf
  <2> QED BY <2>1, <2>2 DEF Timed, Pending
<1>1. CASE r \in DOMAIN d.rows
  <2> DEFINE row == d.rows[r]
             new == Blocked(row, n)
             e == Shift(d, r, new, d.holder, d.workers, d.stalled)
  <2>1. /\ row \in Row /\ d.holder \in Traces \cup {None} /\ d.stalled \in StallNote
        /\ d.workers \in Works
    BY <1>1, ClientTypes
  <2>2. new \in Row /\ SameTree(row, new) /\ new.live = row.live /\ new.done = row.done
    BY <2>1, BlockedRow, TimedTree
  <2>3. Timed(new, FramesOf(fs, r), k, nm)
    <3>1. Timed(row, FramesOf(fs, r), h, nm)
      BY <1>1 DEF SpansOK
    <3>2. \A m \in FramesOf(fs, r) : m # n => k[m] = h[m]
      BY DEF FramesOf
    <3> HIDE DEF row
    <3> QED BY <2>1, <3>1, <3>2, TimedBlocked
  <2>4. OnLoopBlocked(d, r, n) = e
    <3>1. OnLoopBlocked(d, r, n) = WithRow(d, r, new)
      BY <1>1 DEF OnLoopBlocked, Has
    <3> HIDE DEF new
    <3>2. WithRow(d, r, new) = Shift(d, r, new, d.holder, d.workers, d.stalled)
      BY DEF Shift, WithRow, Dash
    <3> QED BY <3>1, <3>2
  <2> HIDE DEF new
  <2>5. /\ Instead(d, e, r, new) /\ e.holder = d.holder /\ e.before = d.before
        /\ SameTrees(d, e) /\ SameWork(d, e)
    <3>1. Changed(d, e, r, new, d.holder, d.workers)
      BY <1>1, <2>1, <2>2, ShiftParts
    <3> QED BY <2>2, <3>1 DEF Changed
  <2> HIDE DEF e
  <2>6. SpansOK(e, fs, k, nm, ph)
    <3>1. ASSUME NEW q \in DOMAIN e.rows
          PROVE  Timed(e.rows[q], FramesOf(fs, q), k, nm) /\ (e.rows[q].done <=> ph[q] = "over")
      <4>1. CASE q = r
        BY <1>1, <2>2, <2>3, <2>5, <4>1 DEF Instead, SpansOK
      <4>2. CASE q # r
        BY <1>0, <2>5, <4>2 DEF Instead, SpansOK
      <4> QED BY <4>1, <4>2
    <3> QED BY <3>1 DEF SpansOK
  <2> QED BY <2>4, <2>5, <2>6
<1>2. CASE r \notin DOMAIN d.rows
  <2> DEFINE pre == IF r \in DOMAIN d.before THEN d.before[r] ELSE <<>>
             post == Append(pre, [node |-> n, ended |-> TRUE])
             f == With(d.before, r, post)
             e == OnLoopBlocked(d, r, n)
  <2>1. e = [d EXCEPT !.before = f]
    BY <1>2 DEF OnLoopBlocked, Has
  <2>2. DOMAIN f = DOMAIN d.before \cup {r}
    BY DEF With
  <2> HIDE DEF e, f
  <2>3. e.rows = d.rows /\ e.workers = d.workers /\ e.holder = d.holder /\ e.before = f
    BY <2>1 DEF Dash
  <2>4. SameTrees(d, e) /\ SameWork(d, e)
    BY <2>3 DEF SameTrees, SameWork, SameTree
  <2>5. SpansOK(e, fs, k, nm, ph)
    BY <1>0, <1>2, <2>3 DEF SpansOK
  <2> QED BY <2>2, <2>3, <2>4, <2>5 DEF e
<1> QED BY <1>1, <1>2

\* The frame a stall is pushed with is named, if its request is not over.
LEMMA StalledTaken ==
  ASSUME NEW d \in Dash, NEW r \in Traces, NEW n \in Nodes, NEW fs, n \in FramesOf(fs, r),
         NEW h, NEW nm, NEW ph, SpansOK(d, fs, h, nm, ph),
         NEW mm, mm = IF ph[r] = "over" THEN nm ELSE nm \cup {n}
  PROVE  LET e == OnLoopStalled(d, r, n) IN
         /\ SpansOK(e, fs, h, mm, ph) /\ SameTrees(d, e) /\ SameWork(d, e)
         /\ e.holder = d.holder /\ e.before = d.before
<1> DEFINE z == [node |-> n, trace |-> r]
<1>0. /\ z \in StallNote
      /\ \A q \in DOMAIN d.rows : q # r => Timed(d.rows[q], FramesOf(fs, q), h, mm)
  <2>1. z \in StallNote
    BY DEF StallNote
  <2> SUFFICES ASSUME NEW q \in DOMAIN d.rows, q # r
               PROVE  Timed(d.rows[q], FramesOf(fs, q), h, mm)
    BY <2>1
  <2>2. Timed(d.rows[q], FramesOf(fs, q), h, nm)
    BY DEF SpansOK
  <2>3. \A m \in FramesOf(fs, q) : m # n
    BY DEF FramesOf
  <2>4. \A m \in FramesOf(fs, q) : Pending(h, mm, m) <=> Pending(h, nm, m)
    BY <2>3 DEF Pending
  <2> QED BY <2>2, <2>4 DEF Timed
<1> HIDE DEF z
<1>1. CASE r \in DOMAIN d.rows /\ ~ d.rows[r].done
  <2> DEFINE row == d.rows[r]
             new == Freezes(row, n)
             e == Shift(d, r, new, d.holder, d.workers, z)
  <2>1. row \in Row /\ d.holder \in Traces \cup {None} /\ d.workers \in Works
    BY <1>1, ClientTypes
  <2>2. new \in Row /\ SameTree(row, new) /\ new.live = row.live /\ new.done = row.done
    BY <2>1, FreezesRow, TimedTree
  <2>3. Timed(new, FramesOf(fs, r), h, mm)
    <3>1. Timed(row, FramesOf(fs, r), h, nm)
      BY <1>1 DEF SpansOK
    <3>2. mm = nm \cup {n}
      BY <1>1 DEF SpansOK
    <3>3. \A m \in FramesOf(fs, r) : m \in mm <=> m \in nm \/ m = n
      BY <3>2
    <3> HIDE DEF row
    <3> QED BY <2>1, <3>1, <3>3, TimedFrozen
  <2>4. OnLoopStalled(d, r, n) = e
    <3>1. OnLoopStalled(d, r, n) = [WithRow(d, r, new) EXCEPT !.stalled = z]
      BY <1>1 DEF OnLoopStalled, Has, Freezes, z
    <3> HIDE DEF new
    <3>2. [WithRow(d, r, new) EXCEPT !.stalled = z] = Shift(d, r, new, d.holder, d.workers, z)
      BY DEF Shift, WithRow, Dash
    <3> QED BY <3>1, <3>2
  <2> HIDE DEF new
  <2>5. /\ Instead(d, e, r, new) /\ e.holder = d.holder /\ e.before = d.before
        /\ SameTrees(d, e) /\ SameWork(d, e)
    <3>1. Changed(d, e, r, new, d.holder, d.workers)
      BY <1>0, <1>1, <2>1, <2>2, ShiftParts
    <3> QED BY <2>2, <3>1 DEF Changed
  <2> HIDE DEF e
  <2>6. SpansOK(e, fs, h, mm, ph)
    <3>1. ASSUME NEW q \in DOMAIN e.rows
          PROVE  Timed(e.rows[q], FramesOf(fs, q), h, mm) /\ (e.rows[q].done <=> ph[q] = "over")
      <4>1. CASE q = r
        BY <1>1, <2>2, <2>3, <2>5, <4>1 DEF Instead, SpansOK
      <4>2. CASE q # r
        BY <1>0, <2>5, <4>2 DEF Instead, SpansOK
      <4> QED BY <4>1, <4>2
    <3> QED BY <3>1 DEF SpansOK
  <2> QED BY <2>4, <2>5, <2>6
<1>2. CASE ~ (r \in DOMAIN d.rows /\ ~ d.rows[r].done)
  <2> DEFINE e == OnLoopStalled(d, r, n)
  <2>1. e = [d EXCEPT !.stalled = z]
    BY <1>2 DEF OnLoopStalled, Has, z
  <2> HIDE DEF e
  <2>2. e.rows = d.rows /\ e.workers = d.workers /\ e.holder = d.holder /\ e.before = d.before
    BY <2>1 DEF Dash
  <2>3. SameTrees(d, e) /\ SameWork(d, e)
    BY <2>2 DEF SameTrees, SameWork, SameTree
  <2>4. SpansOK(e, fs, h, mm, ph)
    <3>1. \A q \in DOMAIN e.rows : e.rows[q].done <=> ph[q] = "over"
      BY <2>2 DEF SpansOK
    <3>2. r \in DOMAIN e.rows => mm = nm
      BY <1>2, <2>2, <3>1
    <3>3. \A q \in DOMAIN e.rows : Timed(e.rows[q], FramesOf(fs, q), h, mm)
      BY <1>0, <2>2, <3>2 DEF SpansOK
    <3> QED BY <3>1, <3>3 DEF SpansOK
  <2> QED BY <2>2, <2>3, <2>4 DEF e
<1> QED BY <1>1, <1>2

\* The end of a stall shows in no tree and in no span.
LEMMA UnstalledTaken ==
  ASSUME NEW d \in Dash
  PROVE  LET e == OnLoopUnstalled(d) IN
         /\ SameTrees(d, e) /\ SameSpans(d, e) /\ SameWork(d, e)
         /\ e.holder = d.holder /\ e.before = d.before
<1> DEFINE r == d.stalled.trace
<1>1. CASE d.stalled # None /\ r \in DOMAIN d.rows
  <2> DEFINE row == d.rows[r]
             new == [row EXCEPT !.stalled = FALSE]
             e == Shift(d, r, new, d.holder, d.workers, None)
  <2> HIDE DEF r
  <2>1. row \in Row /\ d.holder \in Traces \cup {None} /\ d.workers \in Works /\ None \in StallNote
    BY <1>1, ClientTypes DEF StallNote
  <2>2. /\ new \in Row /\ SameTree(row, new) /\ new.live = row.live
        /\ new.spans = row.spans /\ new.blockCount = row.blockCount /\ new.done = row.done
    BY <2>1 DEF Row, SameTree
  <2>3. OnLoopUnstalled(d) = e
    <3>1. OnLoopUnstalled(d) = [WithRow(d, r, new) EXCEPT !.stalled = None]
      BY <1>1 DEF OnLoopUnstalled, Has, r
    <3> HIDE DEF new
    <3>2. [WithRow(d, r, new) EXCEPT !.stalled = None] = Shift(d, r, new, d.holder, d.workers, None)
      BY DEF Shift, WithRow, Dash
    <3> QED BY <3>1, <3>2
  <2> HIDE DEF new
  <2>4. Changed(d, e, r, new, d.holder, d.workers)
    BY <1>1, <2>1, <2>2, ShiftParts
  <2> QED BY <2>2, <2>3, <2>4 DEF Changed
<1>2. CASE ~ (d.stalled # None /\ r \in DOMAIN d.rows)
  <2> DEFINE e == OnLoopUnstalled(d)
  <2>1. e = [d EXCEPT !.stalled = None]
    BY <1>2 DEF OnLoopUnstalled, Has
  <2> HIDE DEF e
  <2>2. e.rows = d.rows /\ e.workers = d.workers /\ e.holder = d.holder /\ e.before = d.before
    BY <2>1 DEF Dash
  <2> QED BY <2>2 DEF e, SameTrees, SameSpans, SameWork, SameTree
<1> QED BY <1>1, <1>2

\* In e the trees show the frames in u, and what does not show in a tree is as it
\* was in d.
Redrawn(d, e, u) ==
  TreesOK(e, u) /\ SameSpans(d, e) /\ SameWork(d, e) /\ e.before = d.before

\* A frame that is entered joins the tree of its request, and one on the loop
\* takes it.
LEMMA EnterTaken ==
  ASSUME NEW d \in Dash, NEW r \in Traces, NEW n \in Nodes, NEW where \in {"loop", "pool"},
         NEW parent \in Nodes \cup {None}, NEW fs, Len(fs) \in Nat, n = Len(fs) + 1,
         parent \in FramesOf(fs, r) \cup {None}, NEW u, NEW f, Grown(fs, u, f),
         f.trace = r, f.where = where, f.parent = parent, f.state = "run",
         TreesOK(d, fs)
  PROVE  LET e == OnCallEnter(d, r, n, where, parent) IN
         /\ Redrawn(d, e, u)
         /\ e.holder = IF where = "loop" /\ r \in DOMAIN d.rows THEN r ELSE d.holder
<1>0. \A q \in DOMAIN d.rows : q # r => Pictured(d.rows[q], u, q)
  BY PictureBesideJoin DEF TreesOK
<1>1. CASE r \in DOMAIN d.rows
  <2> DEFINE row == d.rows[r]
             new == Entered(row, n, where, parent)
             h == IF where = "loop" THEN r ELSE d.holder
             e == Shift(d, r, new, h, d.workers, d.stalled)
  <2>1. row \in Row /\ h \in Traces \cup {None} /\ d.workers \in Works /\ d.stalled \in StallNote
    BY <1>1, ClientTypes
  <2>2. new \in Row /\ Joined(row, new, n, where, parent) /\ SameRest(row, new)
    BY <2>1, EnteredRow, EnteredTree
  <2>3. Pictured(new, u, r)
    <3>1. Pictured(row, fs, r)
      BY <1>1 DEF TreesOK
    <3> HIDE DEF new, row
    <3> QED BY <2>1, <2>2, <3>1, PictureJoined
  <2>4. OnCallEnter(d, r, n, where, parent) = e
    BY <1>1 DEF OnCallEnter, Has, Shift, WithRow, Dash
  <2> HIDE DEF new, h
  <2>5. Changed(d, e, r, new, h, d.workers)
    BY <1>1, <2>1, <2>2, ShiftParts
  <2> HIDE DEF e
  <2>6. TreesOK(e, u)
    <3>1. ASSUME NEW q \in DOMAIN e.rows PROVE Pictured(e.rows[q], u, q)
      <4>1. CASE q = r
        BY <2>3, <2>5, <4>1 DEF Changed, Instead
      <4>2. CASE q # r
        BY <1>0, <2>5, <4>2 DEF Changed, Instead
      <4> QED BY <4>1, <4>2
    <3> QED BY <3>1 DEF TreesOK
  <2>7. SameSpans(d, e) /\ SameWork(d, e) /\ e.before = d.before /\ e.holder = h
    BY <2>2, <2>5 DEF Changed, SameRest
  <2> QED BY <1>1, <2>4, <2>6, <2>7 DEF h, Redrawn
<1>2. CASE r \notin DOMAIN d.rows
  <2>1. OnCallEnter(d, r, n, where, parent) = d
    BY <1>2 DEF OnCallEnter, Has
  <2>2. TreesOK(d, u)
    BY <1>0, <1>2 DEF TreesOK
  <2> QED BY <1>2, <2>1, <2>2, SameSelf DEF Redrawn
<1> QED BY <1>1, <1>2

\* A frame that returns is done in the tree, and on the stack no more.
LEMMA ExitTaken ==
  ASSUME NEW d \in Dash, NEW r \in Traces, NEW n \in Nodes, NEW fs, NEW u,
         Altered(fs, u, n, "gone"), n \in FramesOf(fs, r), TreesOK(d, fs)
  PROVE  LET e == OnCallExit(d, r, n) IN
         /\ Redrawn(d, e, u)
         /\ e.holder = d.holder
<1>0. \A q \in DOMAIN d.rows : q # r => Pictured(d.rows[q], u, q)
  <2>1. \A q : q # r => n \notin FramesOf(fs, q)
    BY DEF FramesOf
  <2> QED BY <2>1, PictureBesideTurn DEF TreesOK
<1>1. CASE r \in DOMAIN d.rows
  <2> DEFINE row == d.rows[r]
             new == Returned(row, n)
             e == Shift(d, r, new, d.holder, d.workers, d.stalled)
  <2>1. /\ row \in Row /\ d.holder \in Traces \cup {None} /\ d.workers \in Works
        /\ d.stalled \in StallNote
    BY <1>1, ClientTypes
  <2>2. new \in Row /\ Turned(row, new, n, "done") /\ OffStack(row, new, n) /\ SameRest(row, new)
    BY <2>1, LeavesRow, LeavesTree
  <2>3. Pictured(new, u, r)
    <3>1. Pictured(row, fs, r)
      BY <1>1 DEF TreesOK
    <3> HIDE DEF new, row
    <3> QED BY <2>2, <3>1, PictureLeft
  <2>4. OnCallExit(d, r, n) = e
    <3>1. OnCallExit(d, r, n) = WithRow(d, r, new)
      BY <1>1 DEF OnCallExit, Has, Returned
    <3> HIDE DEF new
    <3>2. WithRow(d, r, new) = Shift(d, r, new, d.holder, d.workers, d.stalled)
      BY DEF Shift, WithRow, Dash
    <3> QED BY <3>1, <3>2
  <2> HIDE DEF new
  <2>5. Changed(d, e, r, new, d.holder, d.workers)
    BY <1>1, <2>1, <2>2, ShiftParts
  <2> HIDE DEF e
  <2>6. TreesOK(e, u)
    <3>1. ASSUME NEW q \in DOMAIN e.rows PROVE Pictured(e.rows[q], u, q)
      <4>1. CASE q = r
        BY <2>3, <2>5, <4>1 DEF Changed, Instead
      <4>2. CASE q # r
        BY <1>0, <2>5, <4>2 DEF Changed, Instead
      <4> QED BY <4>1, <4>2
    <3> QED BY <3>1 DEF TreesOK
  <2>7. SameSpans(d, e) /\ SameWork(d, e) /\ e.before = d.before /\ e.holder = d.holder
    BY <2>2, <2>5 DEF Changed, SameRest
  <2> QED BY <2>4, <2>6, <2>7 DEF Redrawn
<1>2. CASE r \notin DOMAIN d.rows
  <2>1. OnCallExit(d, r, n) = d
    BY <1>2 DEF OnCallExit, Has
  <2>2. TreesOK(d, u)
    BY <1>0, <1>2 DEF TreesOK
  <2> QED BY <2>1, <2>2, SameSelf DEF Redrawn
<1> QED BY <1>1, <1>2

\* A frame that suspends or resumes changes its state in the tree.
LEMMA TurnTaken ==
  ASSUME NEW d \in Dash, NEW r \in DOMAIN d.rows, NEW n, NEW s \in {"run", "park"},
         NEW h \in Traces \cup {None}, NEW fs, NEW u,
         Altered(fs, u, n, s), n \in FramesOf(fs, r), fs[n].state # "gone", TreesOK(d, fs)
  PROVE  LET e == [WithRow(d, r, SetState(d.rows[r], n, Shows(s))) EXCEPT !.holder = h] IN
         /\ Redrawn(d, e, u)
         /\ e.holder = h
<1>0. \A q \in DOMAIN d.rows : q # r => Pictured(d.rows[q], u, q)
  <2>1. \A q : q # r => n \notin FramesOf(fs, q)
    BY DEF FramesOf
  <2> QED BY <2>1, PictureBesideTurn DEF TreesOK
<1> DEFINE row == d.rows[r]
           state == Shows(s)
           new == SetState(row, n, state)
           e == Shift(d, r, new, h, d.workers, d.stalled)
<1>1. row \in Row /\ d.workers \in Works /\ d.stalled \in StallNote
  BY ClientTypes
<1>2. state \in {"running", "suspended", "done"} /\ s # "gone"
  BY DEF Shows
<1> HIDE DEF state
<1>3. new \in Row
  <2>1. PICK t \in Trees : new = [row EXCEPT !.nodes = t]
    BY <1>1, <1>2, StateSet
  <2> HIDE DEF new
  <2> QED BY <1>1, <2>1 DEF Row
<1>4. Turned(row, new, n, state) /\ new.stack = row.stack /\ SameRest(row, new)
  BY <1>1, <1>2, TurnedTree
<1>5. Pictured(new, u, r)
  <2>1. Pictured(row, fs, r)
    BY DEF TreesOK
  <2> HIDE DEF new, row
  <2> QED BY <1>2, <1>4, <2>1, PictureTurned DEF state
<1> HIDE DEF new
<1>6. [WithRow(d, r, new) EXCEPT !.holder = h] = e
  BY DEF Shift, WithRow, Dash
<1>7. Changed(d, e, r, new, h, d.workers)
  BY <1>1, <1>3, ShiftParts
<1> HIDE DEF e
<1>8. TreesOK(e, u)
  <2>1. ASSUME NEW q \in DOMAIN e.rows PROVE Pictured(e.rows[q], u, q)
    <3>1. CASE q = r
      BY <1>5, <1>7, <3>1 DEF Changed, Instead
    <3>2. CASE q # r
      BY <1>0, <1>7, <3>2 DEF Changed, Instead
    <3> QED BY <3>1, <3>2
  <2> QED BY <2>1 DEF TreesOK
<1>9. SameSpans(d, e) /\ SameWork(d, e) /\ e.before = d.before /\ e.holder = h
  BY <1>4, <1>7 DEF Changed, SameRest
<1> QED BY <1>6, <1>8, <1>9 DEF new, state, Redrawn

\* No row changes for a frame of a request that has none.
LEMMA TurnAside ==
  ASSUME NEW d, NEW r, r \notin DOMAIN d.rows, NEW n, NEW s, NEW fs, NEW u,
         Altered(fs, u, n, s), n \in FramesOf(fs, r), TreesOK(d, fs)
  PROVE  TreesOK(d, u)
<1>1. \A q : q # r => n \notin FramesOf(fs, q)
  BY DEF FramesOf
<1> QED BY <1>1, PictureBesideTurn DEF TreesOK

\* A frame that suspends is shown as such.
LEMMA SuspendTaken ==
  ASSUME NEW d \in Dash, NEW r \in Traces, NEW n, NEW fs, NEW u,
         Altered(fs, u, n, "park"), n \in FramesOf(fs, r), fs[n].state # "gone", TreesOK(d, fs)
  PROVE  LET e == OnSuspend(d, r, n) IN
         Redrawn(d, e, u)
<1>1. CASE r \in DOMAIN d.rows
  <2> DEFINE h == IF d.holder = r THEN None ELSE d.holder
             s == "park"
             c == WithRow(d, r, SetState(d.rows[r], n, "suspended"))
  <2>1. h \in Traces \cup {None} /\ s \in {"run", "park"} /\ Shows(s) = "suspended"
    BY ClientTypes DEF Shows
  <2>2. c.holder = d.holder
    BY DEF WithRow, Dash
  <2>3. OnSuspend(d, r, n) = [c EXCEPT !.holder = h]
    BY <1>1, <2>2 DEF OnSuspend, Has
  <2> HIDE DEF h
  <2>4. OnSuspend(d, r, n) = [WithRow(d, r, SetState(d.rows[r], n, Shows(s))) EXCEPT !.holder = h]
    BY <2>1, <2>3
  <2>5. Altered(fs, u, n, s)
    OBVIOUS
  <2> HIDE DEF s
  <2>6. /\ Redrawn(d, [WithRow(d, r, SetState(d.rows[r], n, Shows(s))) EXCEPT !.holder = h], u)
        /\ [WithRow(d, r, SetState(d.rows[r], n, Shows(s))) EXCEPT !.holder = h].holder = h
    BY <1>1, <2>1, <2>5, TurnTaken
  <2> QED BY <2>4, <2>6
<1>2. CASE r \notin DOMAIN d.rows
  <2>1. OnSuspend(d, r, n) = d
    BY <1>2 DEF OnSuspend, Has
  <2> QED BY <1>2, <2>1, TurnAside, SameSelf DEF Redrawn
<1> QED BY <1>1, <1>2

\* One that resumes on the loop takes it.
LEMMA ResumeTaken ==
  ASSUME NEW d \in Dash, NEW r \in Traces, NEW n, NEW fs, NEW u, fs[n].where = "loop",
         Altered(fs, u, n, "run"), n \in FramesOf(fs, r), fs[n].state # "gone", TreesOK(d, fs)
  PROVE  LET e == OnResume(d, r, n) IN
         /\ Redrawn(d, e, u)
         /\ r \in DOMAIN d.rows => e.holder = r
<1>1. CASE r \in DOMAIN d.rows
  <2> DEFINE s == "run"
  <2>1. r \in Traces \cup {None} /\ s \in {"run", "park"} /\ Shows(s) = "running"
    BY DEF Shows
  <2>2. n \in DOMAIN d.rows[r].nodes => d.rows[r].nodes[n].where = "loop"
    BY <1>1 DEF TreesOK, Pictured
  <2>3. OnResume(d, r, n) = [WithRow(d, r, SetState(d.rows[r], n, "running")) EXCEPT !.holder = r]
    BY <1>1, <2>2 DEF OnResume, Has
  <2>4. OnResume(d, r, n) = [WithRow(d, r, SetState(d.rows[r], n, Shows(s))) EXCEPT !.holder = r]
    BY <2>1, <2>3
  <2>5. Altered(fs, u, n, s)
    OBVIOUS
  <2> HIDE DEF s
  <2>6. /\ Redrawn(d, [WithRow(d, r, SetState(d.rows[r], n, Shows(s))) EXCEPT !.holder = r], u)
        /\ [WithRow(d, r, SetState(d.rows[r], n, Shows(s))) EXCEPT !.holder = r].holder = r
    BY <1>1, <2>1, <2>5, TurnTaken
  <2> QED BY <2>4, <2>6
<1>2. CASE r \notin DOMAIN d.rows
  <2>1. OnResume(d, r, n) = d
    BY <1>2 DEF OnResume, Has
  <2> QED BY <1>2, <2>1, TurnAside, SameSelf DEF Redrawn
<1> QED BY <1>1, <1>2

\* In e nothing is different but the workers and their counts.
Reworked(d, e) ==
  SameTrees(d, e) /\ SameSpans(d, e) /\ e.holder = d.holder /\ e.before = d.before

\* A frame that starts on a worker is one more.
LEMMA OffloadStartTaken ==
  ASSUME NEW d \in Dash, NEW r \in Traces, NEW n \in Nodes, NEW fs, NEW u,
         IsFiniteSet(PoolOf(fs, r)), n \notin PoolOf(fs, r),
         PoolOf(u, r) = PoolOf(fs, r) \cup {n}, \A q : q # r => PoolOf(u, q) = PoolOf(fs, q)
  PROVE  LET e == OnOffloadStart(d, r, n) IN
         Reworked(d, e) /\ (WorkOK(d, fs) => WorkOK(e, u))
<1>1. CASE r \in DOMAIN d.rows
  <2> DEFINE row == d.rows[r]
             new == Told(row, n)
             W == d.workers \cup {w \in {<<r, n>>} : Zone(row) = "loop"}
             e == Shift(d, r, new, d.holder, W, d.stalled)
  <2>1. /\ row \in Row /\ d.holder \in Traces \cup {None} /\ d.stalled \in StallNote
        /\ d.workers \in Works
    BY <1>1, ClientTypes
  <2>2. /\ new \in Row /\ new.live = row.live + 1 /\ SameTree(row, new)
        /\ new.spans = row.spans /\ new.blockCount = row.blockCount /\ new.done = row.done
    BY <2>1, ToldRow, WorkerTree
  <2>3. W \in Works /\ \A w \in W : w \in d.workers \/ w = <<r, n>>
    BY <2>1 DEF Works
  <2>4. OnOffloadStart(d, r, n) = e
    <3>1. OnOffloadStart(d, r, n) = [WithRow(d, r, new) EXCEPT !.workers = W]
      BY <1>1 DEF OnOffloadStart, Has, WithRow, Dash, Told
    <3> HIDE DEF new, W
    <3>2. [WithRow(d, r, new) EXCEPT !.workers = W] = Shift(d, r, new, d.holder, W, d.stalled)
      BY DEF Shift, WithRow, Dash
    <3> QED BY <3>1, <3>2
  <2> HIDE DEF new, W
  <2>5. Changed(d, e, r, new, d.holder, W)
    BY <1>1, <2>1, <2>2, <2>3, ShiftParts
  <2> HIDE DEF e
  <2>6. ASSUME WorkOK(d, fs) PROVE WorkOK(e, u)
    <3>1. new.live = Cardinality(PoolOf(u, r))
      <4>1. row.live = Cardinality(PoolOf(fs, r))
        BY <1>1, <2>6 DEF WorkOK
      <4>2. Cardinality(PoolOf(fs, r) \cup {n}) = Cardinality(PoolOf(fs, r)) + 1
        BY FS_AddElement
      <4> QED BY <2>2, <4>1, <4>2
    <3>2. ASSUME NEW q \in DOMAIN e.rows PROVE e.rows[q].live = Cardinality(PoolOf(u, q))
      <4>1. CASE q = r
        BY <2>5, <3>1, <4>1 DEF Changed, Instead
      <4>2. CASE q # r
        BY <2>5, <2>6, <4>2 DEF Changed, Instead, WorkOK
      <4> QED BY <4>1, <4>2
    <3>3. ASSUME NEW w \in W PROVE w[2] \in PoolOf(u, w[1])
      <4>1. CASE w \in d.workers
        BY <2>6, <4>1 DEF WorkOK
      <4>2. CASE w = <<r, n>>
        BY <4>2
      <4> QED BY <2>3, <4>1, <4>2
    <3> QED BY <2>5, <3>2, <3>3 DEF Changed, WorkOK
  <2> QED BY <2>2, <2>4, <2>5, <2>6 DEF Changed, Reworked
<1>2. CASE r \notin DOMAIN d.rows
  <2>1. OnOffloadStart(d, r, n) = d
    BY <1>2 DEF OnOffloadStart, Has
  <2>2. WorkOK(d, fs) => WorkOK(d, u)
    BY <1>2 DEF WorkOK
  <2> QED BY <2>1, <2>2, SameSelf DEF Reworked
<1> QED BY <1>1, <1>2

\* One that is done is one less.
LEMMA OffloadEndTaken ==
  ASSUME NEW d \in Dash, NEW r \in Traces, NEW n \in Nodes, NEW fs, NEW u,
         IsFiniteSet(PoolOf(fs, r)), n \in PoolOf(fs, r),
         PoolOf(u, r) = PoolOf(fs, r) \ {n}, \A q : q # r => PoolOf(u, q) = PoolOf(fs, q)
  PROVE  LET e == OnOffloadEnd(d, r, n) IN
         Reworked(d, e) /\ (WorkOK(d, fs) => WorkOK(e, u))
<1> DEFINE W == d.workers \ {<<r, n>>}
<1>0. d.workers \in Works /\ W \in Works
  BY ClientTypes DEF Works
<1>1. ASSUME WorkOK(d, fs), NEW w \in W PROVE w[2] \in PoolOf(u, w[1])
  <2>1. w \in Traces \X Nodes /\ w # <<r, n>> /\ w[2] \in PoolOf(fs, w[1])
    BY <1>0, <1>1 DEF WorkOK, Works
  <2>2. w[1] = r => w[2] # n
    BY <2>1
  <2> QED BY <2>1, <2>2
<1> HIDE DEF W
<1>2. CASE r \in DOMAIN d.rows
  <2> DEFINE row == d.rows[r]
             new == Ended(row, n)
             e == Shift(d, r, new, d.holder, W, d.stalled)
  <2>1. row \in Row /\ d.holder \in Traces \cup {None} /\ d.stalled \in StallNote
    BY <1>2, ClientTypes
  <2>2. /\ new \in Row /\ new.live = (IF row.live > 0 THEN row.live - 1 ELSE 0)
        /\ SameTree(row, new) /\ new.spans = row.spans /\ new.blockCount = row.blockCount
        /\ new.done = row.done
    BY <2>1, EndedRow, WorkerTree
  <2>3. OnOffloadEnd(d, r, n) = e
    <3>1. OnOffloadEnd(d, r, n) = [WithRow(d, r, new) EXCEPT !.workers = W]
      BY <1>2 DEF OnOffloadEnd, Has, WithRow, Dash, W
    <3> HIDE DEF new
    <3>2. [WithRow(d, r, new) EXCEPT !.workers = W] = Shift(d, r, new, d.holder, W, d.stalled)
      BY DEF Shift, WithRow, Dash
    <3> QED BY <3>1, <3>2
  <2> HIDE DEF new
  <2>4. Changed(d, e, r, new, d.holder, W)
    BY <1>0, <1>2, <2>1, <2>2, ShiftParts
  <2> HIDE DEF e
  <2>5. ASSUME WorkOK(d, fs) PROVE WorkOK(e, u)
    <3>1. new.live = Cardinality(PoolOf(u, r))
      <4>1. row.live = Cardinality(PoolOf(fs, r))
        BY <1>2, <2>5 DEF WorkOK
      <4>2. /\ Cardinality(PoolOf(fs, r) \ {n}) = Cardinality(PoolOf(fs, r)) - 1
            /\ Cardinality(PoolOf(fs, r)) \in Nat /\ Cardinality(PoolOf(fs, r)) # 0
        BY FS_RemoveElement, FS_CardinalityType, FS_EmptySet
      <4> QED BY <2>2, <4>1, <4>2
    <3>2. ASSUME NEW q \in DOMAIN e.rows PROVE e.rows[q].live = Cardinality(PoolOf(u, q))
      <4>1. CASE q = r
        BY <2>4, <3>1, <4>1 DEF Changed, Instead
      <4>2. CASE q # r
        BY <2>4, <2>5, <4>2 DEF Changed, Instead, WorkOK
      <4> QED BY <4>1, <4>2
    <3> QED BY <1>1, <2>4, <2>5, <3>2 DEF Changed, WorkOK
  <2> QED BY <2>2, <2>3, <2>4, <2>5 DEF Changed, Reworked
<1>3. CASE r \notin DOMAIN d.rows
  <2> DEFINE e == OnOffloadEnd(d, r, n)
  <2>1. e = [d EXCEPT !.workers = W]
    BY <1>3 DEF OnOffloadEnd, Has, W
  <2> HIDE DEF e
  <2>2. e.rows = d.rows /\ e.workers = W /\ e.holder = d.holder /\ e.before = d.before
    BY <2>1 DEF Dash
  <2>3. Reworked(d, e)
    BY <2>2 DEF Reworked, SameTrees, SameSpans, SameTree
  <2>4. WorkOK(d, fs) => WorkOK(e, u)
    BY <1>1, <1>3, <2>2 DEF WorkOK
  <2> QED BY <2>3, <2>4 DEF e
<1> QED BY <1>2, <1>3

\* A request that ends on no worker is shown on none.
LEMMA RequestEndTaken ==
  ASSUME NEW d \in Dash, NEW r \in Traces, NEW fs, NEW h, NEW nm, NEW ph, SpansOK(d, fs, h, nm, ph),
         NEW pi, pi[r] = "over", \A q \in Traces : q # r => pi[q] = ph[q]
  PROVE  LET e == OnRequestEnd(d, r) IN
         /\ SameTrees(d, e) /\ SpansOK(e, fs, h, nm, pi)
         /\ e.holder = d.holder /\ e.before = d.before
         /\ WorkOK(d, fs) /\ PoolOf(fs, r) = {} => WorkOK(e, fs)
<1>0. DOMAIN d.rows \subseteq Traces
  BY ClientTypes
<1>1. CASE r \in DOMAIN d.rows
  <2> DEFINE row == d.rows[r]
             new == [row EXCEPT !.done = TRUE, !.stalled = FALSE, !.live = 0, !.started = {}]
             W == {w \in d.workers : w[1] # r}
             e == Shift(d, r, new, d.holder, W, d.stalled)
  <2>1. /\ row \in Row /\ d.holder \in Traces \cup {None} /\ d.stalled \in StallNote
        /\ d.workers \in Works
    BY <1>1, ClientTypes
  <2>2. /\ new \in Row /\ new.live = 0 /\ SameTree(row, new)
        /\ new.spans = row.spans /\ new.blockCount = row.blockCount /\ new.done
    BY <2>1 DEF Row, SameTree
  <2>3. W \in Works /\ W \subseteq d.workers
    BY <2>1 DEF Works
  <2>4. OnRequestEnd(d, r) = e
    <3>1. OnRequestEnd(d, r) = [WithRow(d, r, new) EXCEPT !.workers = W]
      BY <1>1 DEF OnRequestEnd, Has, WithRow, Dash
    <3> HIDE DEF new, W
    <3>2. [WithRow(d, r, new) EXCEPT !.workers = W] = Shift(d, r, new, d.holder, W, d.stalled)
      BY DEF Shift, WithRow, Dash
    <3> QED BY <3>1, <3>2
  <2> HIDE DEF new, W
  <2>5. Changed(d, e, r, new, d.holder, W)
    BY <1>1, <2>1, <2>2, <2>3, ShiftParts
  <2> HIDE DEF e
  <2>6. ASSUME WorkOK(d, fs), PoolOf(fs, r) = {} PROVE WorkOK(e, fs)
    <3>1. new.live = Cardinality(PoolOf(fs, r))
      BY <2>2, <2>6, FS_EmptySet
    <3>2. ASSUME NEW q \in DOMAIN e.rows PROVE e.rows[q].live = Cardinality(PoolOf(fs, q))
      <4>1. CASE q = r
        BY <2>5, <3>1, <4>1 DEF Changed, Instead
      <4>2. CASE q # r
        BY <2>5, <2>6, <4>2 DEF Changed, Instead, WorkOK
      <4> QED BY <4>1, <4>2
    <3> QED BY <2>3, <2>5, <2>6, <3>2 DEF Changed, WorkOK
  <2>7. SpansOK(e, fs, h, nm, pi)
    <3>1. ASSUME NEW q \in DOMAIN e.rows
          PROVE  Timed(e.rows[q], FramesOf(fs, q), h, nm) /\ (e.rows[q].done <=> pi[q] = "over")
      <4>1. CASE q = r
        <5>1. Timed(row, FramesOf(fs, r), h, nm)
          BY <1>1 DEF SpansOK
        <5>2. Timed(new, FramesOf(fs, r), h, nm)
          BY <2>2, <5>1, TimedSame
        <5> QED BY <2>2, <2>5, <4>1, <5>2 DEF Changed, Instead
      <4>2. CASE q # r
        BY <1>0, <2>5, <4>2 DEF Changed, Instead, SpansOK
      <4> QED BY <4>1, <4>2
    <3> QED BY <3>1 DEF SpansOK
  <2> QED BY <2>2, <2>4, <2>5, <2>6, <2>7 DEF Changed
<1>2. CASE r \notin DOMAIN d.rows
  <2>1. OnRequestEnd(d, r) = d
    BY <1>2 DEF OnRequestEnd, Has
  <2>2. SpansOK(d, fs, h, nm, pi)
    BY <1>0, <1>2 DEF SpansOK
  <2> QED BY <2>1, <2>2, SameSelf
<1> QED BY <1>1, <1>2

\* A row that is admitted for a request that kept no spans is empty.
LEMMA AdmittedEmpty ==
  ASSUME NEW d \in Dash, NEW r \in Traces, r \notin DOMAIN d.rows, r \notin DOMAIN d.before,
         ~ (Full(d) /\ Evictable(d) = {})
  PROVE  LET e == Admit(d, r) IN
         /\ e.rows[r].nodes = <<>> /\ e.rows[r].stack = <<>> /\ e.rows[r].live = 0
         /\ e.rows[r].spans = <<>> /\ e.rows[r].blockCount = 0 /\ e.rows[r].done = FALSE
         /\ e.holder = d.holder /\ DOMAIN e.before \subseteq DOMAIN d.before
<1> DEFINE gone == CHOOSE q \in Evictable(d) : TRUE
           kept == IF Full(d) THEN Without(d.rows, gone) ELSE d.rows
           row == [EmptyRow(d.nextSeq) EXCEPT !.spans = <<>>, !.blockCount = Len(<<>>)]
           f == With(kept, r, row)
           b == Without(d.before, r)
           e == Admit(d, r)
<1>1. /\ row.nodes = <<>> /\ row.stack = <<>> /\ row.live = 0 /\ row.spans = <<>>
      /\ row.blockCount = 0 /\ row.done = FALSE
  BY EmptySeq DEF EmptyRow
<1>2. e = [d EXCEPT !.rows = f, !.nextSeq = @ + 1, !.before = b]
  BY DEF Admit
<1> HIDE DEF row, kept
<1>3. f[r] = row
  BY DEF With
<1>4. DOMAIN b \subseteq DOMAIN d.before
  BY DEF Without
<1> HIDE DEF f, b, e
<1>5. e.rows = f /\ e.holder = d.holder /\ e.before = b
  BY <1>2 DEF Dash
<1> QED BY <1>1, <1>3, <1>4, <1>5 DEF e

\* A request that starts has entered no frame and held up nothing.
LEMMA RequestStartTaken ==
  ASSUME NEW d \in Dash, NEW r \in Traces, r \notin DOMAIN d.before,
         NEW fs, FramesOf(fs, r) = {}, TreesOK(d, fs),
         NEW h, NEW nm, NEW ph, SpansOK(d, fs, h, nm, ph),
         NEW pi, pi[r] = "live", ph[r] # "over", \A q \in Traces : q # r => pi[q] = ph[q],
         NEW t, t # r, HolderOK(d, t)
  PROVE  LET e == OnRequestStart(d, r) IN
         /\ TreesOK(e, fs) /\ SpansOK(e, fs, h, nm, pi) /\ HolderOK(e, t)
         /\ WorkOK(d, fs) => WorkOK(e, fs)
         /\ DOMAIN e.before \subseteq DOMAIN d.before
<1> DEFINE e == OnRequestStart(d, r)
<1>0. DOMAIN d.rows \subseteq Traces
  BY ClientTypes
<1>1. SpansOK(d, fs, h, nm, pi)
  <2>1. \A q \in DOMAIN d.rows : pi[q] = "over" <=> ph[q] = "over"
    BY <1>0
  <2> QED BY <2>1 DEF SpansOK
<1>2. CASE r \in DOMAIN d.rows
  BY <1>2, <1>1 DEF OnRequestStart, Has
<1>3. CASE r \notin DOMAIN d.rows /\ Full(d) /\ Evictable(d) = {}
  <2>1. e = [d EXCEPT !.hidden = d.hidden + 1]
    BY <1>3 DEF OnRequestStart, Has, Admit, Dash
  <2> HIDE DEF e
  <2>2. e.rows = d.rows /\ e.holder = d.holder /\ e.workers = d.workers /\ e.before = d.before
    BY <2>1 DEF Dash
  <2>3. /\ TreesOK(e, fs) /\ SpansOK(e, fs, h, nm, pi) /\ HolderOK(e, t)
        /\ WorkOK(d, fs) => WorkOK(e, fs)
    BY <1>1, <2>2 DEF TreesOK, SpansOK, HolderOK, WorkOK
  <2> QED BY <2>2, <2>3 DEF e
<1>4. CASE r \notin DOMAIN d.rows /\ ~ (Full(d) /\ Evictable(d) = {})
  <2>1. /\ DOMAIN Admit(d, r).rows = (DOMAIN d.rows \ Gone(d)) \cup {r}
        /\ \A q \in DOMAIN d.rows \ Gone(d) : Admit(d, r).rows[q] = d.rows[q]
        /\ Admit(d, r).workers = d.workers
    BY <1>4, Admitted
  <2>2. /\ Admit(d, r).rows[r].nodes = <<>> /\ Admit(d, r).rows[r].stack = <<>>
        /\ Admit(d, r).rows[r].live = 0
        /\ Admit(d, r).rows[r].spans = <<>> /\ Admit(d, r).rows[r].blockCount = 0
        /\ Admit(d, r).rows[r].done = FALSE
        /\ Admit(d, r).holder = d.holder /\ DOMAIN Admit(d, r).before \subseteq DOMAIN d.before
    BY <1>4, AdmittedEmpty
  <2>3. e = Admit(d, r)
    BY <1>4, <2>1 DEF OnRequestStart, Has
  <2> HIDE DEF e
  <2> DEFINE row == e.rows[r]
  <2>4. /\ DOMAIN e.rows = (DOMAIN d.rows \ Gone(d)) \cup {r}
        /\ \A q \in DOMAIN e.rows : q # r => q \in DOMAIN d.rows /\ e.rows[q] = d.rows[q]
        /\ e.workers = d.workers /\ e.holder = d.holder /\ DOMAIN e.before \subseteq DOMAIN d.before
        /\ row.nodes = <<>> /\ row.stack = <<>> /\ row.live = 0
        /\ row.spans = <<>> /\ row.blockCount = 0 /\ row.done = FALSE
    BY <2>1, <2>2, <2>3
  <2> HIDE DEF row
  <2>5. Pictured(row, fs, r)
    BY <2>4 DEF Pictured, ToSet, IsInjective
  <2>6. Timed(row, FramesOf(fs, r), h, nm)
    <3>1. Len(row.spans) = 0 /\ DOMAIN row.spans = {}
      BY <2>4, EmptySeq
    <3> QED BY <2>4, <3>1 DEF Timed
  <2>7. row.live = Cardinality(PoolOf(fs, r))
    <3>1. PoolOf(fs, r) = {}
      BY DEF PoolOf
    <3> QED BY <2>4, <3>1, FS_EmptySet
  <2>8. TreesOK(e, fs) /\ SpansOK(e, fs, h, nm, pi) /\ (WorkOK(d, fs) => WorkOK(e, fs))
    BY <1>1, <2>4, <2>5, <2>6, <2>7 DEF TreesOK, SpansOK, WorkOK, row
  <2>9. HolderOK(e, t)
    BY <2>4 DEF HolderOK
  <2> QED BY <2>4, <2>8, <2>9 DEF e
<1> QED BY <1>2, <1>3, <1>4

-----------------------------------------------------------------------------
(* The frames on workers *)

\* There are finitely many.
LEMMA PoolFinite ==
  ASSUME NEW fs, Len(fs) \in Nat, NEW r
  PROVE  IsFiniteSet(PoolOf(fs, r))
<1>1. PoolOf(fs, r) \subseteq 1 .. Len(fs) /\ IsFiniteSet(1 .. Len(fs))
  BY FS_Interval DEF PoolOf, FramesOf
<1> QED BY <1>1, FS_Subset

\* A frame that is entered on the loop is none of them, and one on a worker is.
LEMMA PoolGrown ==
  ASSUME NEW fs, Len(fs) \in Nat, NEW u, NEW f, Grown(fs, u, f), f.state = "run"
  PROVE  /\ f.where = "loop" => \A q : PoolOf(u, q) = PoolOf(fs, q)
         /\ f.where = "pool" =>
              /\ Len(fs) + 1 \notin PoolOf(fs, f.trace)
              /\ PoolOf(u, f.trace) = PoolOf(fs, f.trace) \cup {Len(fs) + 1}
              /\ \A q : q # f.trace => PoolOf(u, q) = PoolOf(fs, q)
<1> DEFINE n == Len(fs) + 1
<1>1. /\ 1 .. Len(u) = 1 .. Len(fs) \cup {n} /\ n \notin 1 .. Len(fs)
      /\ u[n] = f /\ \A i \in 1 .. Len(fs) : u[i] = fs[i]
  BY DEF Grown
<1> HIDE DEF n
<1>2. \A q : PoolOf(u, q) = PoolOf(fs, q) \cup {i \in {n} : f.trace = q /\ f.where = "pool"}
  BY <1>1 DEF PoolOf, FramesOf
<1>3. n \notin PoolOf(fs, f.trace)
  BY <1>1 DEF PoolOf, FramesOf
<1> QED BY <1>2, <1>3 DEF n

\* One that returns is no more.
LEMMA PoolAltered ==
  ASSUME NEW fs, NEW u, NEW n, NEW s, Altered(fs, u, n, s), n \in 1 .. Len(fs)
  PROVE  /\ fs[n].where = "loop" => \A q : PoolOf(u, q) = PoolOf(fs, q)
         /\ s = "gone" =>
              /\ PoolOf(u, fs[n].trace) = PoolOf(fs, fs[n].trace) \ {n}
              /\ \A q : q # fs[n].trace => PoolOf(u, q) = PoolOf(fs, q)
<1>1. /\ 1 .. Len(u) = 1 .. Len(fs)
      /\ \A i \in 1 .. Len(fs) : /\ u[i].trace = fs[i].trace /\ u[i].where = fs[i].where
                                 /\ u[i].state = IF i = n THEN s ELSE fs[i].state
  BY DEF Altered
<1> QED BY <1>1 DEF PoolOf, FramesOf

-----------------------------------------------------------------------------
(* Who calls whom on the server *)

OnLoop(fs, n) == fs[n].where = "loop" /\ fs[n].state # "gone"

\* x executes, on the loop.  Only frames on the loop suspend, or call; one that
\* is there was called by one that still runs, is not x, and calls no other.
CallsOK(fs, x) ==
  /\ x # None => fs[x].where = "loop" /\ fs[x].state = "run"
  /\ \A n \in 1 .. Len(fs) :
       /\ fs[n].state = "park" => fs[n].where = "loop"
       /\ fs[n].parent # None =>
            /\ fs[n].parent \in 1 .. n - 1
            /\ fs[fs[n].parent].trace = fs[n].trace
            /\ fs[fs[n].parent].where = "loop"
            /\ OnLoop(fs, n) => fs[fs[n].parent].state = "run" /\ fs[n].parent # x
  /\ \A m, n \in 1 .. Len(fs) :
       OnLoop(fs, m) /\ OnLoop(fs, n) /\ fs[m].parent = fs[n].parent /\ fs[n].parent # None => m = n

\* The frame that executes calls another.
LEMMA CallsEnter ==
  ASSUME NEW fs, Len(fs) \in Nat, NEW x \in 1 .. Len(fs) \cup {None}, CallsOK(fs, x),
         None \notin Nat, NEW u, NEW f, Grown(fs, u, f),
         f.where = "loop", f.state = "run", f.parent = x, x # None => fs[x].trace = f.trace
  PROVE  CallsOK(u, Len(fs) + 1)
<1> DEFINE k == Len(fs) + 1
<1>1. /\ 1 .. Len(u) = 1 .. Len(fs) \cup {k} /\ k \notin 1 .. Len(fs) /\ k # None
      /\ u[k] = f /\ \A i \in 1 .. Len(fs) : u[i] = fs[i]
      /\ \A i \in 1 .. Len(fs) : i \in 1 .. k - 1
  BY DEF Grown
<1> HIDE DEF k
<1>2. \A n \in 1 .. Len(fs) : /\ OnLoop(u, n) <=> OnLoop(fs, n)
                              /\ fs[n].parent # None => fs[n].parent \in 1 .. Len(fs)
  BY DEF OnLoop, CallsOK, Grown
<1>3. ASSUME NEW n \in 1 .. Len(u)
      PROVE  /\ u[n].state = "park" => u[n].where = "loop"
             /\ u[n].parent # None =>
                  /\ u[n].parent \in 1 .. n - 1
                  /\ u[u[n].parent].trace = u[n].trace
                  /\ u[u[n].parent].where = "loop"
                  /\ OnLoop(u, n) => u[u[n].parent].state = "run" /\ u[n].parent # k
  <2>1. CASE n = k
    BY <1>1, <2>1 DEF CallsOK
  <2>2. CASE n # k
    <3>1. n \in 1 .. Len(fs) /\ u[n] = fs[n]
      BY <1>1, <2>2
    <3> QED BY <1>1, <1>2, <3>1 DEF CallsOK
  <2> QED BY <2>1, <2>2
<1>4. ASSUME NEW m \in 1 .. Len(u), NEW n \in 1 .. Len(u), OnLoop(u, m), OnLoop(u, n),
             u[m].parent = u[n].parent, u[n].parent # None
      PROVE  m = n
  <2>1. ASSUME NEW i \in 1 .. Len(fs), OnLoop(u, i), u[i].parent # None PROVE u[i].parent # f.parent
    BY <1>1, <1>2, <2>1 DEF CallsOK
  <2>2. CASE m \in 1 .. Len(fs) /\ n \in 1 .. Len(fs)
    BY <1>1, <1>2, <1>4, <2>2 DEF CallsOK
  <2>3. CASE m = k /\ n \in 1 .. Len(fs)
    BY <1>1, <1>4, <2>1, <2>3
  <2>4. CASE m \in 1 .. Len(fs) /\ n = k
    BY <1>1, <1>4, <2>1, <2>4
  <2> QED BY <1>1, <2>2, <2>3, <2>4
<1>5. u[k].where = "loop" /\ u[k].state = "run"
  BY <1>1
<1>6. CallsOK(u, k)
  BY <1>3, <1>4, <1>5 DEF CallsOK
<1> QED BY <1>6 DEF k

\* A worker starts.
LEMMA CallsPool ==
  ASSUME NEW fs, Len(fs) \in Nat, NEW x \in 1 .. Len(fs) \cup {None}, CallsOK(fs, x),
         NEW u, NEW f, Grown(fs, u, f), f.where = "pool", f.state = "run",
         f.parent # None => f.parent \in 1 .. Len(fs) /\ fs[f.parent].trace = f.trace
                            /\ fs[f.parent].where = "loop"
  PROVE  CallsOK(u, x)
<1> DEFINE k == Len(fs) + 1
<1>1. /\ 1 .. Len(u) = 1 .. Len(fs) \cup {k} /\ k \notin 1 .. Len(fs)
      /\ u[k] = f /\ \A i \in 1 .. Len(fs) : u[i] = fs[i]
      /\ \A i \in 1 .. Len(fs) : i \in 1 .. k - 1
  BY DEF Grown
<1> HIDE DEF k
<1>2. /\ \A n \in 1 .. Len(fs) : /\ OnLoop(u, n) <=> OnLoop(fs, n)
                                 /\ fs[n].parent # None => fs[n].parent \in 1 .. Len(fs)
      /\ ~ OnLoop(u, k)
  BY <1>1 DEF OnLoop, CallsOK
<1>3. ASSUME NEW n \in 1 .. Len(u)
      PROVE  /\ u[n].state = "park" => u[n].where = "loop"
             /\ u[n].parent # None =>
                  /\ u[n].parent \in 1 .. n - 1
                  /\ u[u[n].parent].trace = u[n].trace
                  /\ u[u[n].parent].where = "loop"
                  /\ OnLoop(u, n) => u[u[n].parent].state = "run" /\ u[n].parent # x
  <2>1. CASE n = k
    BY <1>1, <1>2, <2>1 DEF CallsOK
  <2>2. CASE n # k
    <3>1. n \in 1 .. Len(fs) /\ u[n] = fs[n]
      BY <1>1, <2>2
    <3> QED BY <1>1, <1>2, <3>1 DEF CallsOK
  <2> QED BY <2>1, <2>2
<1>4. ASSUME NEW m \in 1 .. Len(u), NEW n \in 1 .. Len(u), OnLoop(u, m), OnLoop(u, n),
             u[m].parent = u[n].parent, u[n].parent # None
      PROVE  m = n
  <2>1. m \in 1 .. Len(fs) /\ n \in 1 .. Len(fs)
    BY <1>1, <1>2, <1>4
  <2> QED BY <1>1, <1>2, <1>4, <2>1 DEF CallsOK
<1>5. x # None => u[x].where = "loop" /\ u[x].state = "run"
  BY <1>1 DEF CallsOK
<1> QED BY <1>3, <1>4, <1>5 DEF CallsOK

\* What holds of the frames if one of them is in another state.
LEMMA AlteredFrames ==
  ASSUME NEW fs, NEW u, NEW n, NEW s, Altered(fs, u, n, s), NEW x, CallsOK(fs, x), Len(fs) \in Nat
  PROVE  /\ 1 .. Len(u) = 1 .. Len(fs)
         /\ \A i \in 1 .. Len(fs) :
              /\ u[i].trace = fs[i].trace /\ u[i].where = fs[i].where /\ u[i].parent = fs[i].parent
              /\ u[i].state = (IF i = n THEN s ELSE fs[i].state)
              /\ fs[i].parent # None => fs[i].parent \in 1 .. Len(fs)
              /\ i # n => (OnLoop(u, i) <=> OnLoop(fs, i))
<1>1. \A i \in 1 .. Len(fs) : fs[i].parent # None => fs[i].parent \in 1 .. Len(fs)
  BY DEF CallsOK
<1> QED BY <1>1 DEF Altered, OnLoop

\* It returns to its caller.
LEMMA CallsExit ==
  ASSUME NEW fs, Len(fs) \in Nat, NEW x \in 1 .. Len(fs), x # None, CallsOK(fs, x),
         NEW u, Altered(fs, u, x, "gone")
  PROVE  CallsOK(u, fs[x].parent)
<1>1. /\ 1 .. Len(u) = 1 .. Len(fs)
      /\ \A i \in 1 .. Len(fs) :
           /\ u[i].trace = fs[i].trace /\ u[i].where = fs[i].where /\ u[i].parent = fs[i].parent
           /\ u[i].state = (IF i = x THEN "gone" ELSE fs[i].state)
           /\ fs[i].parent # None => fs[i].parent \in 1 .. Len(fs)
           /\ i # x => (OnLoop(u, i) <=> OnLoop(fs, i))
  BY AlteredFrames
<1>2. OnLoop(fs, x) /\ ~ OnLoop(u, x)
  BY <1>1 DEF CallsOK, OnLoop
<1>3. ASSUME NEW n \in 1 .. Len(fs)
      PROVE  /\ u[n].state = "park" => u[n].where = "loop"
             /\ u[n].parent # None =>
                  /\ u[n].parent \in 1 .. n - 1
                  /\ u[u[n].parent].trace = u[n].trace
                  /\ u[u[n].parent].where = "loop"
                  /\ OnLoop(u, n) => u[u[n].parent].state = "run" /\ u[n].parent # fs[x].parent
  <2>1. u[n].state = "park" => u[n].where = "loop"
    BY <1>1 DEF CallsOK
  <2>2. ASSUME fs[n].parent # None
        PROVE  /\ fs[n].parent \in 1 .. n - 1
               /\ u[fs[n].parent].trace = fs[n].trace /\ u[fs[n].parent].where = "loop"
    BY <1>1, <2>2 DEF CallsOK
  <2>3. ASSUME fs[n].parent # None, OnLoop(u, n)
        PROVE  u[fs[n].parent].state = "run" /\ fs[n].parent # fs[x].parent
    <3>1. n # x /\ OnLoop(fs, n)
      BY <1>1, <1>2, <2>3
    <3>2. fs[fs[n].parent].state = "run" /\ fs[n].parent # x
      BY <2>3, <3>1 DEF CallsOK
    <3>3. fs[n].parent # fs[x].parent
      BY <1>2, <2>3, <3>1 DEF CallsOK
    <3> QED BY <1>1, <2>3, <3>2, <3>3
  <2> QED BY <1>1, <2>1, <2>2, <2>3
<1>4. ASSUME NEW m \in 1 .. Len(fs), NEW n \in 1 .. Len(fs), OnLoop(u, m), OnLoop(u, n),
             u[m].parent = u[n].parent, u[n].parent # None
      PROVE  m = n
  <2>1. OnLoop(fs, m) /\ OnLoop(fs, n) /\ fs[m].parent = fs[n].parent /\ fs[n].parent # None
    BY <1>1, <1>2, <1>4
  <2> QED BY <2>1 DEF CallsOK
<1>5. ASSUME fs[x].parent # None
      PROVE  u[fs[x].parent].where = "loop" /\ u[fs[x].parent].state = "run"
  <2>1. /\ fs[x].parent # x /\ fs[x].parent \in 1 .. Len(fs)
        /\ fs[fs[x].parent].where = "loop" /\ fs[fs[x].parent].state = "run"
    BY <1>1, <1>2, <1>5 DEF CallsOK
  <2> QED BY <1>1, <2>1
<1> QED BY <1>1, <1>3, <1>4, <1>5 DEF CallsOK

\* A frame changes its state, and nobody executes or the frame itself does.
LEMMA CallsTurn ==
  ASSUME NEW fs, Len(fs) \in Nat, NEW n \in 1 .. Len(fs), n # None, NEW x, CallsOK(fs, x),
         NEW u, NEW s, Altered(fs, u, n, s), fs[n].where = "loop", fs[n].state # "gone",
         NEW y,
         \/ x = n /\ s = "park" /\ y = None
         \/ fs[n].state = "park" /\ s = "run" /\ y = n
  PROVE  CallsOK(u, y)
<1>1. /\ 1 .. Len(u) = 1 .. Len(fs)
      /\ \A i \in 1 .. Len(fs) :
           /\ u[i].trace = fs[i].trace /\ u[i].where = fs[i].where /\ u[i].parent = fs[i].parent
           /\ u[i].state = (IF i = n THEN s ELSE fs[i].state)
           /\ fs[i].parent # None => fs[i].parent \in 1 .. Len(fs)
           /\ i # n => (OnLoop(u, i) <=> OnLoop(fs, i))
  BY AlteredFrames
<1>2. \A i \in 1 .. Len(fs) : OnLoop(u, i) <=> OnLoop(fs, i)
  BY <1>1 DEF OnLoop
<1>3. ASSUME NEW i \in 1 .. Len(fs), fs[i].parent # None, OnLoop(fs, i)
      PROVE  fs[fs[i].parent].state = "run" /\ fs[i].parent # n
  <2>1. fs[fs[i].parent].state = "run" /\ fs[i].parent # x
    BY <1>3 DEF CallsOK
  <2> QED BY <2>1
<1>4. ASSUME NEW i \in 1 .. Len(fs)
      PROVE  /\ u[i].state = "park" => u[i].where = "loop"
             /\ u[i].parent # None =>
                  /\ u[i].parent \in 1 .. i - 1
                  /\ u[u[i].parent].trace = u[i].trace
                  /\ u[u[i].parent].where = "loop"
                  /\ OnLoop(u, i) => u[u[i].parent].state = "run" /\ u[i].parent # y
  <2>1. u[i].state = "park" => u[i].where = "loop"
    BY <1>1 DEF CallsOK
  <2>2. ASSUME fs[i].parent # None
        PROVE  /\ fs[i].parent \in 1 .. i - 1
               /\ u[fs[i].parent].trace = fs[i].trace /\ u[fs[i].parent].where = "loop"
    BY <1>1, <2>2 DEF CallsOK
  <2>3. ASSUME fs[i].parent # None, OnLoop(u, i)
        PROVE  u[fs[i].parent].state = "run" /\ fs[i].parent # y
    BY <1>1, <1>2, <1>3, <2>3
  <2> QED BY <1>1, <2>1, <2>2, <2>3
<1>5. ASSUME NEW m \in 1 .. Len(fs), NEW i \in 1 .. Len(fs), OnLoop(u, m), OnLoop(u, i),
             u[m].parent = u[i].parent, u[i].parent # None
      PROVE  m = i
  <2>1. OnLoop(fs, m) /\ OnLoop(fs, i) /\ fs[m].parent = fs[i].parent /\ fs[i].parent # None
    BY <1>1, <1>2, <1>5
  <2> QED BY <2>1 DEF CallsOK
<1>6. y # None => u[y].where = "loop" /\ u[y].state = "run"
  BY <1>1
<1> QED BY <1>1, <1>4, <1>5, <1>6 DEF CallsOK

\* A worker is done.
LEMMA CallsLeave ==
  ASSUME NEW fs, Len(fs) \in Nat, NEW n \in 1 .. Len(fs), NEW x \in 1 .. Len(fs) \cup {None},
         CallsOK(fs, x), NEW u, Altered(fs, u, n, "gone"), fs[n].where = "pool"
  PROVE  CallsOK(u, x)
<1>1. /\ 1 .. Len(u) = 1 .. Len(fs)
      /\ \A i \in 1 .. Len(fs) :
           /\ u[i].trace = fs[i].trace /\ u[i].where = fs[i].where /\ u[i].parent = fs[i].parent
           /\ u[i].state = (IF i = n THEN "gone" ELSE fs[i].state)
           /\ fs[i].parent # None => fs[i].parent \in 1 .. Len(fs)
           /\ i # n => (OnLoop(u, i) <=> OnLoop(fs, i))
  BY AlteredFrames
<1>2. \A i \in 1 .. Len(fs) : OnLoop(u, i) <=> OnLoop(fs, i)
  BY <1>1 DEF OnLoop
<1>3. ASSUME NEW i \in 1 .. Len(fs)
      PROVE  /\ u[i].state = "park" => u[i].where = "loop"
             /\ u[i].parent # None =>
                  /\ u[i].parent \in 1 .. i - 1
                  /\ u[u[i].parent].trace = u[i].trace
                  /\ u[u[i].parent].where = "loop"
                  /\ OnLoop(u, i) => u[u[i].parent].state = "run" /\ u[i].parent # x
  <2>1. u[i].state = "park" => u[i].where = "loop"
    BY <1>1 DEF CallsOK
  <2>2. ASSUME fs[i].parent # None
        PROVE  /\ fs[i].parent \in 1 .. i - 1 /\ fs[i].parent # n
               /\ u[fs[i].parent].trace = fs[i].trace /\ u[fs[i].parent].where = "loop"
    BY <1>1, <2>2 DEF CallsOK
  <2>3. ASSUME fs[i].parent # None, OnLoop(u, i)
        PROVE  u[fs[i].parent].state = "run" /\ fs[i].parent # x
    BY <1>1, <1>2, <2>2, <2>3 DEF CallsOK
  <2> QED BY <1>1, <2>1, <2>2, <2>3
<1>4. ASSUME NEW m \in 1 .. Len(fs), NEW i \in 1 .. Len(fs), OnLoop(u, m), OnLoop(u, i),
             u[m].parent = u[i].parent, u[i].parent # None
      PROVE  m = i
  <2>1. OnLoop(fs, m) /\ OnLoop(fs, i) /\ fs[m].parent = fs[i].parent /\ fs[i].parent # None
    BY <1>1, <1>2, <1>4
  <2> QED BY <2>1 DEF CallsOK
<1>5. x # None => u[x].where = "loop" /\ u[x].state = "run"
  BY <1>1 DEF CallsOK
<1> QED BY <1>1, <1>3, <1>4, <1>5 DEF CallsOK

-----------------------------------------------------------------------------
(* What is true of the server, and of what the dashboard shows of it *)

\* A frame is of a request that has started, and while one is there its request
\* is not over, unless frames outlive their requests.
StartedOK(fs, ph) ==
  \A n \in 1 .. Len(fs) :
    /\ ph[fs[n].trace] # "new"
    /\ ~ Orphans /\ fs[n].state # "gone" => ph[fs[n].trace] # "over"

ServerTruth == CallsOK(frames, exec) /\ StartedOK(frames, phase)

\* Nothing is known of a request that has not started, or of a frame that was not
\* entered.
NewInv ==
  /\ \A r \in Traces : phase[r] = "new" => r \notin DOMAIN dash.before
  /\ \A n \in Nodes : n > Len(frames) => holds[n] = 0

FaithInv ==
  /\ NewInv /\ TreesOK(dash, frames) /\ SpansOK(dash, frames, holds, named, phase)
  /\ HolderOK(dash, TraceOf(exec))
  /\ ~ Orphans => WorkOK(dash, frames)

\* As long as every event arrives, the dashboard shows what is true.
Truth == ServerTruth /\ (Intact => FaithInv)

\* A frame is entered for a request that has started and is not over.
LEMMA StartedGrown ==
  ASSUME NEW fs, Len(fs) \in Nat, NEW u, NEW f, Grown(fs, u, f), NEW ph, StartedOK(fs, ph),
         ph[f.trace] # "new", ~ Orphans => ph[f.trace] # "over"
  PROVE  StartedOK(u, ph)
<1> SUFFICES ASSUME NEW n \in 1 .. Len(u)
             PROVE  /\ ph[u[n].trace] # "new"
                    /\ ~ Orphans /\ u[n].state # "gone" => ph[u[n].trace] # "over"
  BY DEF StartedOK
<1>1. CASE n = Len(fs) + 1
  BY <1>1 DEF Grown
<1>2. CASE n # Len(fs) + 1
  <2>1. n \in 1 .. Len(fs) /\ u[n] = fs[n]
    BY <1>2 DEF Grown
  <2> QED BY <2>1 DEF StartedOK
<1> QED BY <1>1, <1>2

\* A frame that is not gone changes, or one that is gone stays so.
LEMMA StartedAltered ==
  ASSUME NEW fs, NEW u, NEW n \in 1 .. Len(fs), NEW s, Altered(fs, u, n, s), NEW ph, StartedOK(fs, ph),
         s = "gone" \/ fs[n].state # "gone"
  PROVE  StartedOK(u, ph)
BY DEF StartedOK, Altered

\* A frame joins the others.
LEMMA FrameGrown ==
  ASSUME ServerOK, NEW f \in FrameRec, frames' = Append(frames, f)
  PROVE  Len(frames) \in Nat /\ Grown(frames, frames', f)
<1>1. frames \in Seq(FrameRec) /\ Len(frames) \in Nat
  BY ServerFacts DEF ServerOK
<1>2. /\ Len(frames') = Len(frames) + 1
      /\ \A n \in 1 .. Len(frames) : frames'[n] = frames[n]
      /\ frames'[Len(frames) + 1] = f
  BY <1>1, AppendProperties
<1> QED BY <1>1, <1>2 DEF Grown

\* A frame changes its state.
LEMMA FrameAltered ==
  ASSUME ServerOK, NEW n \in 1 .. Len(frames), NEW state \in {"run", "park", "gone"},
         frames' = [frames EXCEPT ![n].state = state]
  PROVE  Len(frames) \in Nat /\ Altered(frames, frames', n, state)
<1> DEFINE y == [frames[n] EXCEPT !.state = state]
           u == [frames EXCEPT ![n] = y]
<1>1. frames \in Seq(FrameRec) /\ frames[n] \in FrameRec /\ Len(frames) \in Nat
  BY ServerFacts DEF ServerOK
<1>2. /\ y \in FrameRec /\ y.parent = frames[n].parent /\ y.state = state
      /\ y.trace = frames[n].trace /\ y.where = frames[n].where
  BY <1>1 DEF FrameRec
<1>3. frames' = u
  OBVIOUS
<1> HIDE DEF y
<1>4. /\ Len(u) = Len(frames)
      /\ \A i \in 1 .. Len(frames) : u[i] = IF i = n THEN y ELSE frames[i]
  BY <1>1, <1>2, ExceptSeq
<1> HIDE DEF u
<1> QED BY <1>1, <1>2, <1>3, <1>4 DEF Altered

\* d is the client once the hold of the frame that lets go was taken in.
Readied(d) ==
  /\ SameTrees(dash, d) /\ SameWork(dash, d)
  /\ SpansOK(d, frames, holds', named, phase)
  /\ d.holder = dash.holder /\ DOMAIN d.before \subseteq DOMAIN dash.before \cup {TraceOf(exec)}

\* A frame lets go of the loop: its hold, if it is slow, is taken in first.
LEMMA SlowTaken ==
  ASSUME ServerOK, dash \in Dash, "loss" \notin world.harm,
         SpansOK(dash, frames, holds, named, phase),
         NEW slow \in BOOLEAN, LetsGo(slow), NEW a, Arrive(Slow(slow) \o <<a>>)
  PROVE  \E d \in Dash : dash' = Ingest(d, a) /\ Readied(d)
<1> DEFINE b == Event("loop_blocked", TraceOf(exec), exec)
           d == Ingest(dash, b)
<1>1. CASE slow
  <2>1. exec \in Nodes /\ TraceOf(exec) \in Traces
    BY <1>1, HoldsCount
  <2>2. Plain(b) /\ TraceOf(exec) # None
    BY <2>1, DashboardAssumption DEF Plain, Event
  <2>3. d \in Dash
    BY <2>2, PlainEvents DEF Keeps
  <2>4. d = OnLoopBlocked(dash, TraceOf(exec), exec)
    BY <2>2 DEF Ingest, Event
  <2>5. Slow(slow) \o <<a>> = <<b, a>>
    <3>1. Slow(slow) = <<b>>
      BY <1>1 DEF Slow
    <3> HIDE DEF b
    <3>2. <<b>> \o <<a>> = <<b, a>>
      BY OneAndOne
    <3> QED BY <3>1, <3>2
  <2> HIDE DEF b
  <2>6. dash' = Ingest(d, a)
    BY <2>5, TwoTaken
  <2> HIDE DEF d
  <2>7. holds \in [Nodes -> Nat] /\ exec \in 1 .. Len(frames) /\ 1 .. Len(frames) \subseteq Nodes
    BY <2>1, ServerFacts DEF ServerOK
  <2>8. /\ holds[exec] \in Nat /\ holds'[exec] = holds[exec] + 1
        /\ \A m \in 1 .. Len(frames) : m # exec => holds'[m] = holds[m]
    BY <1>1, <2>1, <2>7 DEF LetsGo
  <2>9. exec \in FramesOf(frames, TraceOf(exec))
    BY <2>1, <2>7, ServerFacts DEF FramesOf, TraceOf
  <2>11. LET e == OnLoopBlocked(dash, TraceOf(exec), exec) IN
         /\ SpansOK(e, frames, holds', named, phase) /\ SameTrees(dash, e) /\ SameWork(dash, e)
         /\ e.holder = dash.holder /\ DOMAIN e.before \subseteq DOMAIN dash.before \cup {TraceOf(exec)}
    BY <2>1, <2>8, <2>9, BlockedTaken
  <2>12. Readied(d)
    BY <2>4, <2>11 DEF Readied
  <2> QED BY <2>3, <2>6, <2>12
<1>2. CASE ~ slow
  <2>1. Slow(slow) \o <<a>> = <<a>>
    <3>1. Slow(slow) = << >>
      BY <1>2 DEF Slow
    <3>2. << >> \o <<a>> = <<a>>
      OBVIOUS
    <3> QED BY <3>1, <3>2
  <2>2. dash' = Ingest(dash, a)
    BY <2>1, OneTaken
  <2>3. holds' = holds
    BY <1>2 DEF LetsGo
  <2>6. SameTrees(dash, dash) /\ SameWork(dash, dash)
    BY SameSelf
  <2>7. Readied(dash)
    BY <2>3, <2>6 DEF Readied
  <2> QED BY <2>2, <2>7
<1> QED BY <1>1, <1>2

\* The request of a frame that executes has started, and the frame was entered.
LEMMA NewKept ==
  ASSUME ServerOK, StartedOK(frames, phase), NewInv, world' = world, phase' = phase,
         Len(frames') \in Nat, Len(frames) <= Len(frames'), NEW slow \in BOOLEAN, LetsGo(slow),
         DOMAIN dash'.before \subseteq DOMAIN dash.before \cup {TraceOf(exec)}
  PROVE  /\ NewInv'
         /\ \A n \in Nodes : n > Len(frames) => holds'[n] = 0
<1>1. ASSUME NEW r \in Traces, phase[r] = "new" PROVE r # TraceOf(exec)
  <2>1. CASE exec = None
    BY <2>1, DashboardAssumption DEF TraceOf
  <2>2. CASE exec # None
    <3>1. exec \in 1 .. Len(frames)
      BY <2>2, ServerFacts
    <3> QED BY <1>1, <2>2, <3>1 DEF TraceOf, StartedOK
  <2> QED BY <2>1, <2>2
<1>2. ASSUME NEW n \in Nodes, n > Len(frames) PROVE holds'[n] = 0
  <2>1. holds \in [Nodes -> Nat] /\ world.nodes \in Nat /\ Len(frames) \in Nat
    BY ServerFacts DEF ServerOK
  <2>2. holds[n] = 0
    BY <1>2 DEF NewInv
  <2>3. exec # n
    BY <1>2, <2>1, ServerFacts DEF Nodes
  <2> QED BY <1>2, <2>1, <2>2, <2>3 DEF LetsGo
<1>3. Nodes' = Nodes /\ \A n \in Nodes : n > Len(frames') => n > Len(frames)
  <2>1. world.nodes \in Nat /\ Len(frames) \in Nat
    BY ServerFacts
  <2> QED BY <2>1 DEF Nodes
<1> QED BY <1>1, <1>2, <1>3 DEF NewInv

\* What a frame that changes its state leaves of the spans, and one that is
\* entered.
LEMMA SpansTurned ==
  ASSUME NEW n, NEW s, Altered(frames, frames', n, s), NEW d, NEW h,
         SpansOK(d, frames, h, named, phase)
  PROVE  SpansOK(d, frames', h, named, phase)
BY SpansAltered

LEMMA SpansJoined ==
  ASSUME ServerOK, Len(frames) + 1 \in Nodes, NEW f, Grown(frames, frames', f), NEW d, NEW h,
         \A n \in Nodes : n > Len(frames) => h[n] = 0, SpansOK(d, frames, h, named, phase)
  PROVE  SpansOK(d, frames', h, named, phase)
<1>1. Len(frames) \in Nat /\ named \subseteq 1 .. Len(frames)
  BY ServerFacts DEF ServerOK, WatchOK
<1>2. h[Len(frames) + 1] = 0 /\ Len(frames) + 1 \notin named
  BY <1>1
<1> QED BY <1>1, <1>2, SpansGrown

\* Workers that do not change are shown as they were.
LEMMA WorkSame ==
  ASSUME NEW d, NEW e, SameWork(d, e), NEW fs, NEW u, \A q : PoolOf(u, q) = PoolOf(fs, q),
         WorkOK(d, fs)
  PROVE  WorkOK(e, u)
BY DEF SameWork, WorkOK

-----------------------------------------------------------------------------
(* Each step keeps it *)

\* What the invariants say of the server and of the client.
LEMMA Knowing ==
  ASSUME IInv, Truth
  PROVE  /\ ServerOK /\ dash \in Dash
         /\ CallsOK(frames, exec) /\ StartedOK(frames, phase)
         /\ Intact => /\ "loss" \notin world.harm
                      /\ NewInv /\ TreesOK(dash, frames)
                      /\ SpansOK(dash, frames, holds, named, phase)
                      /\ HolderOK(dash, TraceOf(exec)) /\ (~ Orphans => WorkOK(dash, frames))
BY DEF IInv, ClientOK, Truth, ServerTruth, Intact, FaithInv

\* What a frame that lets go of the loop leaves the client to draw, drawn.
LEMMA ShownAs ==
  ASSUME ServerOK, StartedOK(frames, phase), NewInv, world' = world, phase' = phase, named' = named,
         NEW slow \in BOOLEAN, LetsGo(slow),
         NEW d, Readied(d), Redrawn(d, dash', frames'),
         \/ \E n, s : Altered(frames, frames', n, s)
         \/ Len(frames) + 1 \in Nodes /\ \E f : Grown(frames, frames', f),
         \A q : PoolOf(frames', q) = PoolOf(frames, q),
         ~ Orphans => WorkOK(dash, frames)
  PROVE  /\ NewInv' /\ TreesOK(dash', frames')
         /\ SpansOK(dash', frames', holds', named', phase')
         /\ ~ Orphans => WorkOK(dash', frames')
<1>1. /\ SameWork(dash, d) /\ SpansOK(d, frames, holds', named, phase)
      /\ DOMAIN d.before \subseteq DOMAIN dash.before \cup {TraceOf(exec)}
  BY DEF Readied
<1>2. TreesOK(dash', frames') /\ SameSpans(d, dash') /\ SameWork(d, dash') /\ dash'.before = d.before
  BY DEF Redrawn
<1>3. NewInv' /\ \A n \in Nodes : n > Len(frames) => holds'[n] = 0
  <2>1. Len(frames') \in Nat /\ Len(frames) <= Len(frames')
    BY ServerFacts DEF Altered, Grown
  <2> QED BY <1>1, <1>2, <2>1, NewKept
<1>4. SpansOK(dash', frames', holds', named', phase')
  <2>1. SpansOK(d, frames', holds', named, phase)
    BY <1>1, <1>3, SpansTurned, SpansJoined
  <2>2. SpansOK(dash', frames', holds', named, phase)
    BY <1>2, <2>1, SpansKept
  <2> QED BY <2>2
<1>5. ASSUME ~ Orphans PROVE WorkOK(dash', frames')
  <2>1. WorkOK(d, frames')
    BY <1>1, <1>5, WorkSame
  <2> QED BY <1>2, <2>1, WorkKept
<1> QED BY <1>2, <1>3, <1>4, <1>5

\* A frame is entered on the loop.
LEMMA TruthEnterLoop ==
  ASSUME IInv, Truth, NEW r \in Traces, NEW slow \in BOOLEAN, EnterLoop(r, slow)
  PROVE  Truth'
<1> DEFINE n == Len(frames) + 1
           f == [trace |-> r, where |-> "loop", parent |-> exec, state |-> "run"]
           ev == Enter(r, n, "loop", exec)
<1>1. /\ n <= world.nodes /\ LetsGo(slow) /\ frames' = Append(frames, f) /\ exec' = n
      /\ phase[r] = "live" \/ (phase[r] = "over" /\ Orphans)
      /\ exec # None => TraceOf(exec) = r
      /\ Arrive(Slow(slow) \o <<ev>>) /\ world' = world /\ phase' = phase /\ named' = named
  BY DEF EnterLoop, watchdog
<1>2. /\ ServerOK /\ dash \in Dash
      /\ CallsOK(frames, exec) /\ StartedOK(frames, phase)
  BY Knowing
<1>3. /\ world.nodes \in Nat /\ Len(frames) \in Nat /\ exec \in 1 .. Len(frames) \cup {None}
      /\ None \notin Nat /\ exec \in Nodes \cup {None} /\ r # None
  BY <1>2, ServerFacts, DashboardAssumption DEF ServerOK
<1>4. f \in FrameRec /\ n \in Nodes
  BY <1>1, <1>3 DEF FrameRec, Nodes
<1>5. /\ f.trace = r /\ f.where = "loop" /\ f.parent = exec /\ f.state = "run"
      /\ ev.trace = r /\ ev.kind = "call_enter" /\ ev.node = n /\ ev.where = "loop" /\ ev.parent = exec
  BY DEF Enter
<1> HIDE DEF f, ev
<1>6. Grown(frames, frames', f)
  BY <1>1, <1>2, <1>4, FrameGrown
<1>7. CallsOK(frames', exec')
  <2>1. exec # None => frames[exec].trace = f.trace
    BY <1>1, <1>5 DEF TraceOf
  <2>2. CallsOK(frames', n)
    BY <1>2, <1>3, <1>5, <1>6, <2>1, CallsEnter
  <2> QED BY <1>1, <2>2
<1>8. StartedOK(frames', phase')
  <2>1. phase[f.trace] # "new" /\ (~ Orphans => phase[f.trace] # "over")
    BY <1>1, <1>5
  <2>2. StartedOK(frames', phase)
    BY <1>2, <1>3, <1>6, <2>1, StartedGrown
  <2> QED BY <1>1, <2>2
<1>10. TraceOf(exec)' = r
  <2>1. frames'[n] = f /\ n # None
    BY <1>3, <1>6 DEF Grown
  <2> QED BY <1>1, <1>5, <2>1 DEF TraceOf
<1>11. ASSUME Intact PROVE FaithInv'
  <2>1. /\ "loss" \notin world.harm
        /\ NewInv /\ TreesOK(dash, frames) /\ SpansOK(dash, frames, holds, named, phase)
        /\ HolderOK(dash, TraceOf(exec)) /\ (~ Orphans => WorkOK(dash, frames))
    BY <1>11, Knowing
  <2>2. PICK d \in Dash : dash' = Ingest(d, ev) /\ Readied(d)
    BY <1>1, <1>2, <2>1, SlowTaken
  <2>3. dash' = OnCallEnter(d, r, n, "loop", exec)
    BY <1>3, <1>5, <2>2 DEF Ingest
  <2>4. TreesOK(d, frames)
    BY <2>1, <2>2, TreesKept DEF Readied
  <2>5. exec \in FramesOf(frames, r) \cup {None}
    BY <1>1, <1>3 DEF FramesOf, TraceOf
  <2>6. LET e == OnCallEnter(d, r, n, "loop", exec) IN
        /\ Redrawn(d, e, frames')
        /\ e.holder = IF "loop" = "loop" /\ r \in DOMAIN d.rows THEN r ELSE d.holder
    BY <1>3, <1>4, <1>5, <1>6, <2>4, <2>5, EnterTaken
  <2>7. Redrawn(d, dash', frames') /\ (r \in DOMAIN d.rows => dash'.holder = r)
    BY <2>3, <2>6
  <2>8. \A q : PoolOf(frames', q) = PoolOf(frames, q)
    BY <1>3, <1>5, <1>6, PoolGrown
  <2>9. /\ NewInv' /\ TreesOK(dash', frames')
        /\ SpansOK(dash', frames', holds', named', phase')
        /\ ~ Orphans => WorkOK(dash', frames')
    BY <1>1, <1>2, <1>4, <1>6, <2>1, <2>2, <2>7, <2>8, ShownAs
  <2>10. HolderOK(dash', TraceOf(exec)')
    BY <1>10, <2>7 DEF HolderOK, Redrawn, SameWork
  <2> QED BY <2>9, <2>10 DEF FaithInv
<1> QED BY <1>1, <1>7, <1>8, <1>11 DEF Truth, ServerTruth, Intact

\* A frame on the loop is left.
LEMMA TruthExitLoop ==
  ASSUME IInv, Truth, NEW slow \in BOOLEAN, ExitLoop(slow)
  PROVE  Truth'
<1> DEFINE ev == Event("call_exit", TraceOf(exec), exec)
           r == TraceOf(exec)
<1>1. /\ exec # None /\ LetsGo(slow) /\ frames' = [frames EXCEPT ![exec].state = "gone"]
      /\ exec' = frames[exec].parent
      /\ Arrive(Slow(slow) \o <<ev>>) /\ world' = world /\ phase' = phase /\ named' = named
  BY DEF ExitLoop, watchdog
<1>2. /\ ServerOK /\ dash \in Dash
      /\ CallsOK(frames, exec) /\ StartedOK(frames, phase)
  BY Knowing
<1>3. /\ Len(frames) \in Nat /\ exec \in 1 .. Len(frames) /\ exec \in Nodes
      /\ r \in Traces /\ r # None /\ r = frames[exec].trace
  BY <1>1, <1>2, ServerFacts, DashboardAssumption DEF TraceOf
<1>4. ev.trace = r /\ ev.kind = "call_exit" /\ ev.node = exec
  BY DEF Event
<1> HIDE DEF ev, r
<1>5. Altered(frames, frames', exec, "gone")
  BY <1>1, <1>2, <1>3, FrameAltered
<1>6. CallsOK(frames', exec')
  <2>1. CallsOK(frames', frames[exec].parent)
    BY <1>1, <1>2, <1>3, <1>5, CallsExit
  <2> QED BY <1>1, <2>1
<1>7. StartedOK(frames', phase')
  <2>1. StartedOK(frames', phase)
    BY <1>2, <1>3, <1>5, StartedAltered
  <2> QED BY <1>1, <2>1
<1>9. exec' = None \/ (exec' # None /\ TraceOf(exec)' = r)
  <2> SUFFICES ASSUME exec' # None PROVE TraceOf(exec)' = r
    OBVIOUS
  <2>1. exec' \in 1 .. exec - 1 /\ frames[exec'].trace = r
    BY <1>1, <1>2, <1>3 DEF CallsOK
  <2>2. frames'[exec'].trace = frames[exec'].trace
    BY <1>3, <1>5, <2>1 DEF Altered
  <2> QED BY <2>1, <2>2 DEF TraceOf
<1>10. ASSUME Intact PROVE FaithInv'
  <2>1. /\ "loss" \notin world.harm
        /\ NewInv /\ TreesOK(dash, frames) /\ SpansOK(dash, frames, holds, named, phase)
        /\ HolderOK(dash, TraceOf(exec)) /\ (~ Orphans => WorkOK(dash, frames))
    BY <1>10, Knowing
  <2>2. PICK d \in Dash : dash' = Ingest(d, ev) /\ Readied(d)
    BY <1>1, <1>2, <2>1, SlowTaken
  <2>3. dash' = OnCallExit(d, r, exec)
    BY <1>3, <1>4, <2>2 DEF Ingest
  <2>4. TreesOK(d, frames)
    BY <2>1, <2>2, TreesKept DEF Readied
  <2>5. exec \in FramesOf(frames, r)
    BY <1>3 DEF FramesOf
  <2>6. LET e == OnCallExit(d, r, exec) IN Redrawn(d, e, frames') /\ e.holder = d.holder
    BY <1>3, <1>5, <2>4, <2>5, ExitTaken
  <2>7. Redrawn(d, dash', frames') /\ dash'.holder = d.holder
    BY <2>3, <2>6
  <2>8. \A q : PoolOf(frames', q) = PoolOf(frames, q)
    <3>1. frames[exec].where = "loop"
      BY <1>1, <1>2 DEF CallsOK
    <3> QED BY <1>3, <1>5, <3>1, PoolAltered
  <2>9. /\ NewInv' /\ TreesOK(dash', frames')
        /\ SpansOK(dash', frames', holds', named', phase')
        /\ ~ Orphans => WorkOK(dash', frames')
    BY <1>1, <1>2, <1>5, <2>1, <2>2, <2>7, <2>8, ShownAs
  <2>10. HolderOK(dash', TraceOf(exec)')
    <3>1. DOMAIN dash'.rows = DOMAIN dash.rows /\ dash'.holder = dash.holder
      BY <2>2, <2>7 DEF Redrawn, Readied, SameWork
    <3>2. HolderOK(dash', r)
      BY <2>1, <3>1 DEF HolderOK, r
    <3>3. exec' = None => TraceOf(exec)' = None
      BY DEF TraceOf
    <3> QED BY <1>9, <3>2, <3>3 DEF HolderOK
  <2> QED BY <2>9, <2>10 DEF FaithInv
<1> QED BY <1>1, <1>6, <1>7, <1>10 DEF Truth, ServerTruth, Intact

\* A chain of frames suspends.
LEMMA TruthSuspend ==
  ASSUME IInv, Truth, NEW slow \in BOOLEAN, Suspend(slow)
  PROVE  Truth'
<1> DEFINE ev == Event("suspend", TraceOf(exec), exec)
           r == TraceOf(exec)
<1>1. /\ exec # None /\ LetsGo(slow) /\ frames' = [frames EXCEPT ![exec].state = "park"]
      /\ exec' = None
      /\ Arrive(Slow(slow) \o <<ev>>) /\ world' = world /\ phase' = phase /\ named' = named
  BY DEF Suspend, watchdog
<1>2. /\ ServerOK /\ dash \in Dash
      /\ CallsOK(frames, exec) /\ StartedOK(frames, phase)
  BY Knowing
<1>3. /\ Len(frames) \in Nat /\ exec \in 1 .. Len(frames) /\ exec \in Nodes
      /\ r \in Traces /\ r # None /\ r = frames[exec].trace
      /\ frames[exec].where = "loop" /\ frames[exec].state = "run"
  BY <1>1, <1>2, ServerFacts, DashboardAssumption DEF TraceOf, CallsOK
<1>4. ev.trace = r /\ ev.kind = "suspend" /\ ev.node = exec
  BY DEF Event
<1> HIDE DEF ev, r
<1>5. Altered(frames, frames', exec, "park")
  BY <1>1, <1>2, <1>3, FrameAltered
<1>6. CallsOK(frames', exec')
  <2>1. CallsOK(frames', None)
    BY <1>1, <1>2, <1>3, <1>5, CallsTurn
  <2> QED BY <1>1, <2>1
<1>7. StartedOK(frames', phase')
  <2>1. StartedOK(frames', phase)
    BY <1>2, <1>3, <1>5, StartedAltered
  <2> QED BY <1>1, <2>1
<1>9. ASSUME Intact PROVE FaithInv'
  <2>1. /\ "loss" \notin world.harm
        /\ NewInv /\ TreesOK(dash, frames) /\ SpansOK(dash, frames, holds, named, phase)
        /\ (~ Orphans => WorkOK(dash, frames))
    BY <1>9, Knowing
  <2>2. PICK d \in Dash : dash' = Ingest(d, ev) /\ Readied(d)
    BY <1>1, <1>2, <2>1, SlowTaken
  <2>3. dash' = OnSuspend(d, r, exec)
    BY <1>3, <1>4, <2>2 DEF Ingest
  <2>4. TreesOK(d, frames)
    BY <2>1, <2>2, TreesKept DEF Readied
  <2>5. exec \in FramesOf(frames, r)
    BY <1>3 DEF FramesOf
  <2>6. LET e == OnSuspend(d, r, exec) IN Redrawn(d, e, frames')
    BY <1>3, <1>5, <2>4, <2>5, SuspendTaken
  <2>7. Redrawn(d, dash', frames')
    BY <2>3, <2>6
  <2>8. \A q : PoolOf(frames', q) = PoolOf(frames, q)
    BY <1>3, <1>5, PoolAltered
  <2>9. /\ NewInv' /\ TreesOK(dash', frames')
        /\ SpansOK(dash', frames', holds', named', phase')
        /\ ~ Orphans => WorkOK(dash', frames')
    BY <1>1, <1>2, <1>5, <2>1, <2>2, <2>7, <2>8, ShownAs
  <2>10. HolderOK(dash', TraceOf(exec)')
    BY <1>1 DEF HolderOK, TraceOf
  <2> QED BY <2>9, <2>10 DEF FaithInv
<1> QED BY <1>1, <1>6, <1>7, <1>9 DEF Truth, ServerTruth, Intact

\* Nothing is known of more requests that have not started.
LEMMA NewSame ==
  ASSUME ServerOK, NewInv, \A r \in Traces : phase'[r] = "new" => phase[r] = "new",
         world' = world, Len(frames') \in Nat, Len(frames) <= Len(frames'),
         holds' = holds, DOMAIN dash'.before \subseteq DOMAIN dash.before
  PROVE  NewInv'
<1>1. Nodes' = Nodes /\ \A n \in Nodes : n > Len(frames') => n > Len(frames)
  <2>1. world.nodes \in Nat /\ Len(frames) \in Nat
    BY ServerFacts
  <2> QED BY <2>1 DEF Nodes
<1> QED BY <1>1 DEF NewInv

\* The frame that executes is as it was.
LEMMA SameExec ==
  ASSUME ServerOK, exec' = exec, \A n \in 1 .. Len(frames) : frames'[n].trace = frames[n].trace
  PROVE  TraceOf(exec)' = TraceOf(exec)
BY ServerFacts DEF TraceOf

\* A chain of frames resumes.
LEMMA TruthResume ==
  ASSUME IInv, Truth, NEW n \in 1 .. Len(frames), Resume(n)
  PROVE  Truth'
<1> DEFINE ev == Event("resume", TraceOf(n), n)
           r == TraceOf(n)
<1>1. /\ exec = None /\ frames[n].state = "park"
      /\ frames' = [frames EXCEPT ![n].state = "run"] /\ exec' = n
      /\ Arrive(<<ev>>) /\ world' = world /\ phase' = phase /\ named' = named /\ holds' = holds
  BY DEF Resume, watchdog
<1>2. /\ ServerOK /\ dash \in Dash
      /\ CallsOK(frames, exec) /\ StartedOK(frames, phase)
  BY Knowing
<1>3. /\ Len(frames) \in Nat /\ n \in Nodes /\ n # None /\ frames[n] \in FrameRec
      /\ frames[n].where = "loop"
  BY <1>1, <1>2, ServerFacts DEF CallsOK
<1>4. r \in Traces /\ r # None /\ r = frames[n].trace
  BY <1>3, DashboardAssumption DEF TraceOf, FrameRec
<1>5. ev.trace = r /\ ev.kind = "resume" /\ ev.node = n
  BY DEF Event
<1> HIDE DEF ev, r
<1>6. Altered(frames, frames', n, "run")
  BY <1>1, <1>2, <1>3, FrameAltered
<1>7. CallsOK(frames', exec')
  <2>1. CallsOK(frames', n)
    BY <1>1, <1>2, <1>3, <1>6, CallsTurn
  <2> QED BY <1>1, <2>1
<1>8. StartedOK(frames', phase')
  <2>1. StartedOK(frames', phase)
    BY <1>1, <1>2, <1>3, <1>6, StartedAltered
  <2> QED BY <1>1, <2>1
<1>10. TraceOf(exec)' = r
  <2>1. frames'[n].trace = frames[n].trace
    BY <1>6 DEF Altered
  <2> QED BY <1>1, <1>3, <1>4, <2>1 DEF TraceOf
<1>11. ASSUME Intact PROVE FaithInv'
  <2>1. /\ "loss" \notin world.harm
        /\ NewInv /\ TreesOK(dash, frames) /\ SpansOK(dash, frames, holds, named, phase)
        /\ (~ Orphans => WorkOK(dash, frames))
    BY <1>11, Knowing
  <2>2. dash' = Ingest(dash, ev)
    BY <1>1, <2>1, OneTaken
  <2>3. dash' = OnResume(dash, r, n)
    BY <1>4, <1>5, <2>2 DEF Ingest
  <2>4. n \in FramesOf(frames, r)
    BY <1>4 DEF FramesOf
  <2>5. LET e == OnResume(dash, r, n) IN
        Redrawn(dash, e, frames') /\ (r \in DOMAIN dash.rows => e.holder = r)
    BY <1>1, <1>2, <1>3, <1>4, <1>6, <2>1, <2>4, ResumeTaken
  <2>6. Redrawn(dash, dash', frames') /\ (r \in DOMAIN dash.rows => dash'.holder = r)
    BY <2>3, <2>5
  <2>7. /\ TreesOK(dash', frames') /\ SameSpans(dash, dash') /\ SameWork(dash, dash')
        /\ dash'.before = dash.before /\ DOMAIN dash'.rows = DOMAIN dash.rows
    BY <2>6 DEF Redrawn, SameWork
  <2>8. NewInv'
    BY <1>1, <1>2, <1>3, <1>6, <2>1, <2>7, NewSame DEF Altered
  <2>9. SpansOK(dash', frames', holds', named', phase')
    <3>1. SpansOK(dash, frames', holds, named, phase)
      BY <1>6, <2>1, SpansTurned
    <3>2. SpansOK(dash', frames', holds, named, phase)
      BY <2>7, <3>1, SpansKept
    <3> QED BY <1>1, <3>2
  <2>10. ASSUME ~ Orphans PROVE WorkOK(dash', frames')
    <3>1. \A q : PoolOf(frames', q) = PoolOf(frames, q)
      BY <1>3, <1>6, PoolAltered
    <3> QED BY <2>1, <2>7, <2>10, <3>1, WorkSame
  <2>11. HolderOK(dash', TraceOf(exec)')
    BY <1>10, <2>6, <2>7 DEF HolderOK
  <2> QED BY <2>7, <2>8, <2>9, <2>10, <2>11 DEF FaithInv
<1> QED BY <1>1, <1>7, <1>8, <1>11 DEF Truth, ServerTruth, Intact

\* A worker starts.
LEMMA TruthEnterPool ==
  ASSUME IInv, Truth, NEW r \in Traces, NEW by \in Nodes \cup {None}, EnterPool(r, by)
  PROVE  Truth'
<1> DEFINE n == Len(frames) + 1
           f == [trace |-> r, where |-> "pool", parent |-> by, state |-> "run"]
           a == Enter(r, n, "pool", by)
           b == Event("offload_start", r, n)
<1>1. /\ n <= world.nodes /\ frames' = Append(frames, f) /\ by \in LiveIn(r, "loop") \cup {None}
      /\ phase[r] = "live" \/ (phase[r] = "over" /\ Orphans)
      /\ Arrive(<<a, b>>) /\ world' = world /\ phase' = phase /\ exec' = exec
      /\ named' = named /\ holds' = holds
  BY DEF EnterPool, watchdog
<1>2. /\ ServerOK /\ dash \in Dash
      /\ CallsOK(frames, exec) /\ StartedOK(frames, phase)
  BY Knowing
<1>3. /\ world.nodes \in Nat /\ Len(frames) \in Nat /\ exec \in 1 .. Len(frames) \cup {None}
      /\ r # None
  BY <1>2, ServerFacts, DashboardAssumption DEF ServerOK
<1>4. by # None => by \in 1 .. Len(frames) /\ frames[by].trace = r /\ frames[by].where = "loop"
  BY <1>1 DEF LiveIn, Live
<1>5. f \in FrameRec /\ n \in Nodes
  BY <1>1, <1>3 DEF FrameRec, Nodes
<1>6. /\ f.trace = r /\ f.where = "pool" /\ f.parent = by /\ f.state = "run"
      /\ a.trace = r /\ a.kind = "call_enter" /\ a.node = n /\ a.where = "pool" /\ a.parent = by
      /\ b.trace = r /\ b.kind = "offload_start" /\ b.node = n
  BY DEF Enter, Event
<1>7. Plain(a)
  BY <1>5 DEF Plain, Enter
<1> HIDE DEF f, a, b
<1>8. Grown(frames, frames', f)
  BY <1>1, <1>2, <1>5, FrameGrown
<1>9. CallsOK(frames', exec')
  <2>1. CallsOK(frames', exec)
    BY <1>2, <1>3, <1>4, <1>6, <1>8, CallsPool
  <2> QED BY <1>1, <2>1
<1>10. StartedOK(frames', phase')
  <2>1. phase[f.trace] # "new" /\ (~ Orphans => phase[f.trace] # "over")
    BY <1>1, <1>6
  <2>2. StartedOK(frames', phase)
    BY <1>2, <1>3, <1>8, <2>1, StartedGrown
  <2> QED BY <1>1, <2>2
<1>11. TraceOf(exec)' = TraceOf(exec)
  <2>1. \A m \in 1 .. Len(frames) : frames'[m].trace = frames[m].trace
    BY <1>8 DEF Grown
  <2> QED BY <1>1, <1>2, <2>1, SameExec
<1>12. ASSUME Intact PROVE FaithInv'
  <2>1. /\ "loss" \notin world.harm
        /\ NewInv /\ TreesOK(dash, frames) /\ SpansOK(dash, frames, holds, named, phase)
        /\ HolderOK(dash, TraceOf(exec)) /\ (~ Orphans => WorkOK(dash, frames))
    BY <1>12, Knowing
  <2> DEFINE d == Ingest(dash, a)
  <2>2. dash' = Ingest(d, b)
    BY <1>1, <2>1, TwoTaken
  <2>3. d \in Dash
    BY <1>2, <1>7, PlainEvents DEF Keeps
  <2>4. d = OnCallEnter(dash, r, n, "pool", by)
    BY <1>3, <1>6 DEF Ingest
  <2> HIDE DEF d
  <2>5. dash' = OnOffloadStart(d, r, n)
    BY <1>3, <1>6, <2>2 DEF Ingest
  <2>6. by \in FramesOf(frames, r) \cup {None}
    BY <1>4 DEF FramesOf
  <2>7. Redrawn(dash, d, frames') /\ d.holder = dash.holder
    <3>1. LET e == OnCallEnter(dash, r, n, "pool", by) IN
          /\ Redrawn(dash, e, frames')
          /\ e.holder = IF "pool" = "loop" /\ r \in DOMAIN dash.rows THEN r ELSE dash.holder
      BY <1>2, <1>3, <1>5, <1>6, <1>8, <2>1, <2>6, EnterTaken
    <3> QED BY <2>4, <3>1
  <2>8. /\ Len(frames) + 1 \notin PoolOf(frames, r) /\ IsFiniteSet(PoolOf(frames, r))
        /\ PoolOf(frames', r) = PoolOf(frames, r) \cup {n}
        /\ \A q : q # r => PoolOf(frames', q) = PoolOf(frames, q)
    BY <1>3, <1>6, <1>8, PoolGrown, PoolFinite
  <2>9. Reworked(d, dash') /\ (WorkOK(d, frames) => WorkOK(dash', frames'))
    <3>1. LET e == OnOffloadStart(d, r, n) IN
          Reworked(d, e) /\ (WorkOK(d, frames) => WorkOK(e, frames'))
      BY <1>5, <2>3, <2>8, OffloadStartTaken
    <3> QED BY <2>5, <3>1
  <2>10. /\ TreesOK(d, frames') /\ SameSpans(dash, d) /\ SameWork(dash, d) /\ d.before = dash.before
         /\ SameTrees(d, dash') /\ SameSpans(d, dash')
         /\ dash'.holder = dash.holder /\ dash'.before = dash.before
    BY <2>7, <2>9 DEF Redrawn, Reworked
  <2>11. TreesOK(dash', frames')
    BY <2>10, TreesKept
  <2>12. SpansOK(dash', frames', holds', named', phase')
    <3>1. SpansOK(dash, frames', holds, named, phase)
      BY <1>2, <1>5, <1>8, <2>1, SpansJoined DEF NewInv
    <3>2. SpansOK(d, frames', holds, named, phase)
      BY <2>10, <3>1, SpansKept
    <3>3. SpansOK(dash', frames', holds, named, phase)
      BY <2>10, <3>2, SpansKept
    <3> QED BY <1>1, <3>3
  <2>13. ~ Orphans => WorkOK(dash', frames')
    BY <2>1, <2>9, <2>10, WorkKept
  <2>14. NewInv'
    BY <1>1, <1>2, <1>3, <1>8, <2>1, <2>10, NewSame DEF Grown
  <2>15. HolderOK(dash', TraceOf(exec)')
    <3>1. DOMAIN dash'.rows = DOMAIN dash.rows
      BY <2>10 DEF SameSpans
    <3> QED BY <1>11, <2>1, <2>10, <3>1 DEF HolderOK
  <2> QED BY <2>11, <2>12, <2>13, <2>14, <2>15 DEF FaithInv
<1> QED BY <1>1, <1>9, <1>10, <1>11, <1>12 DEF Truth, ServerTruth, Intact

\* A worker is done.
LEMMA TruthExitPool ==
  ASSUME IInv, Truth, NEW n \in 1 .. Len(frames), ExitPool(n)
  PROVE  Truth'
<1> DEFINE r == TraceOf(n)
           a == Event("call_exit", TraceOf(n), n)
           b == Event("offload_end", TraceOf(n), n)
<1>1. /\ n \in Live /\ frames[n].where = "pool"
      /\ frames' = [frames EXCEPT ![n].state = "gone"]
      /\ Arrive(<<a, b>>) /\ world' = world /\ phase' = phase /\ exec' = exec
      /\ named' = named /\ holds' = holds
  BY DEF ExitPool, watchdog
<1>2. /\ ServerOK /\ dash \in Dash
      /\ CallsOK(frames, exec) /\ StartedOK(frames, phase)
  BY Knowing
<1>3. /\ Len(frames) \in Nat /\ n \in Nodes /\ n # None /\ frames[n] \in FrameRec
      /\ exec \in 1 .. Len(frames) \cup {None}
  BY <1>2, ServerFacts DEF ServerOK
<1>4. r \in Traces /\ r # None /\ r = frames[n].trace
  BY <1>3, DashboardAssumption DEF TraceOf, FrameRec
<1>5. /\ a.trace = r /\ a.kind = "call_exit" /\ a.node = n
      /\ b.trace = r /\ b.kind = "offload_end" /\ b.node = n
  BY DEF Event
<1> HIDE DEF a, b, r
<1>6. Plain(a)
  BY <1>3, <1>4, <1>5 DEF Plain
<1>7. Altered(frames, frames', n, "gone")
  BY <1>1, <1>2, FrameAltered
<1>8. CallsOK(frames', exec')
  <2>1. CallsOK(frames', exec)
    BY <1>1, <1>2, <1>3, <1>7, CallsLeave
  <2> QED BY <1>1, <2>1
<1>9. StartedOK(frames', phase')
  <2>1. StartedOK(frames', phase)
    BY <1>2, <1>7, StartedAltered
  <2> QED BY <1>1, <2>1
<1>10. TraceOf(exec)' = TraceOf(exec)
  <2>1. \A m \in 1 .. Len(frames) : frames'[m].trace = frames[m].trace
    BY <1>7 DEF Altered
  <2> QED BY <1>1, <1>2, <2>1, SameExec
<1>11. ASSUME Intact PROVE FaithInv'
  <2>1. /\ "loss" \notin world.harm
        /\ NewInv /\ TreesOK(dash, frames) /\ SpansOK(dash, frames, holds, named, phase)
        /\ HolderOK(dash, TraceOf(exec)) /\ (~ Orphans => WorkOK(dash, frames))
    BY <1>11, Knowing
  <2> DEFINE d == Ingest(dash, a)
  <2>2. dash' = Ingest(d, b)
    BY <1>1, <2>1, TwoTaken
  <2>3. d \in Dash
    BY <1>2, <1>6, PlainEvents DEF Keeps
  <2>4. d = OnCallExit(dash, r, n)
    BY <1>4, <1>5 DEF Ingest
  <2> HIDE DEF d
  <2>5. dash' = OnOffloadEnd(d, r, n)
    BY <1>4, <1>5, <2>2 DEF Ingest
  <2>6. n \in FramesOf(frames, r)
    BY <1>4 DEF FramesOf
  <2>7. Redrawn(dash, d, frames') /\ d.holder = dash.holder
    <3>1. LET e == OnCallExit(dash, r, n) IN Redrawn(dash, e, frames') /\ e.holder = dash.holder
      BY <1>2, <1>3, <1>4, <1>7, <2>1, <2>6, ExitTaken
    <3> QED BY <2>4, <3>1
  <2>8. /\ n \in PoolOf(frames, r) /\ IsFiniteSet(PoolOf(frames, r))
        /\ PoolOf(frames', r) = PoolOf(frames, r) \ {n}
        /\ \A q : q # r => PoolOf(frames', q) = PoolOf(frames, q)
    <3>1. n \in PoolOf(frames, r)
      BY <1>1, <2>6 DEF PoolOf, Live
    <3> QED BY <1>3, <1>4, <1>7, <3>1, PoolAltered, PoolFinite
  <2>9. Reworked(d, dash') /\ (WorkOK(d, frames) => WorkOK(dash', frames'))
    <3>1. LET e == OnOffloadEnd(d, r, n) IN
          Reworked(d, e) /\ (WorkOK(d, frames) => WorkOK(e, frames'))
      BY <1>3, <1>4, <2>3, <2>8, OffloadEndTaken
    <3> QED BY <2>5, <3>1
  <2>10. /\ TreesOK(d, frames') /\ SameSpans(dash, d) /\ SameWork(dash, d) /\ d.before = dash.before
         /\ SameTrees(d, dash') /\ SameSpans(d, dash')
         /\ dash'.holder = dash.holder /\ dash'.before = dash.before
    BY <2>7, <2>9 DEF Redrawn, Reworked
  <2>11. TreesOK(dash', frames')
    BY <2>10, TreesKept
  <2>12. SpansOK(dash', frames', holds', named', phase')
    <3>1. SpansOK(dash, frames', holds, named, phase)
      BY <1>7, <2>1, SpansTurned
    <3>2. SpansOK(d, frames', holds, named, phase)
      BY <2>10, <3>1, SpansKept
    <3>3. SpansOK(dash', frames', holds, named, phase)
      BY <2>10, <3>2, SpansKept
    <3> QED BY <1>1, <3>3
  <2>13. ~ Orphans => WorkOK(dash', frames')
    BY <2>1, <2>9, <2>10, WorkKept
  <2>14. NewInv'
    BY <1>1, <1>2, <1>3, <1>7, <2>1, <2>10, NewSame DEF Altered
  <2>15. HolderOK(dash', TraceOf(exec)')
    <3>1. DOMAIN dash'.rows = DOMAIN dash.rows
      BY <2>10 DEF SameSpans
    <3> QED BY <1>10, <2>1, <2>10, <3>1 DEF HolderOK
  <2> QED BY <2>11, <2>12, <2>13, <2>14, <2>15 DEF FaithInv
<1> QED BY <1>1, <1>8, <1>9, <1>10, <1>11 DEF Truth, ServerTruth, Intact

\* The watchdog pushes that the loop stands still, with the frame it read or none.
LEMMA TruthStall ==
  ASSUME IInv, Truth, Stall
  PROVE  Truth'
<1> DEFINE r == TraceOf(culprit)
           ev == Event("loop_stalled", TraceOf(culprit), culprit)
           N == {n \in {culprit} \ {None} : phase[TraceOf(n)] # "over"}
<1>1. /\ named' = named \cup N /\ Arrive(<<ev>>)
      /\ world' = world /\ phase' = phase /\ frames' = frames /\ exec' = exec /\ holds' = holds
  BY DEF Stall
<1>2. /\ ServerOK /\ dash \in Dash
      /\ CallsOK(frames, exec) /\ StartedOK(frames, phase)
  BY Knowing
<1>3. culprit # None => /\ culprit \in 1 .. Len(frames) /\ culprit \in Nodes
                        /\ r \in Traces /\ r # None /\ culprit \in FramesOf(frames, r)
  BY <1>2, ServerFacts, DashboardAssumption DEF ServerOK, WatchOK, TraceOf, FramesOf, FrameRec
<1>4. culprit # None => named' = IF phase[r] = "over" THEN named ELSE named \cup {culprit}
  BY <1>1
<1>5. culprit = None => r = None /\ named' = named
  BY <1>1 DEF TraceOf
<1>6. ev.trace = r /\ ev.kind = "loop_stalled" /\ ev.node = culprit
  BY DEF Event
<1>7. TraceOf(exec)' = TraceOf(exec)
  BY <1>1 DEF TraceOf
<1> HIDE DEF r, ev, N
<1>8. ASSUME Intact PROVE FaithInv'
  <2>1. /\ "loss" \notin world.harm
        /\ NewInv /\ TreesOK(dash, frames) /\ SpansOK(dash, frames, holds, named, phase)
        /\ HolderOK(dash, TraceOf(exec)) /\ (~ Orphans => WorkOK(dash, frames))
    BY <1>8, Knowing
  <2>2. dash' = Ingest(dash, ev)
    BY <1>1, <2>1, OneTaken
  <2>3. /\ SpansOK(dash', frames, holds, named', phase)
        /\ SameTrees(dash, dash') /\ SameWork(dash, dash')
        /\ dash'.holder = dash.holder /\ dash'.before = dash.before
    <3>1. CASE culprit = None
      <4>1. dash' = dash
        BY <1>5, <1>6, <2>2, <3>1 DEF Ingest
      <4> QED BY <1>5, <2>1, <3>1, <4>1, SameSelf
    <3>2. CASE culprit # None
      <4>1. dash' = OnLoopStalled(dash, r, culprit)
        BY <1>3, <1>6, <2>2, <3>2 DEF Ingest
      <4>2. LET e == OnLoopStalled(dash, r, culprit) IN
            /\ SpansOK(e, frames, holds, named', phase) /\ SameTrees(dash, e) /\ SameWork(dash, e)
            /\ e.holder = dash.holder /\ e.before = dash.before
        BY <1>2, <1>3, <1>4, <2>1, <3>2, StalledTaken
      <4> QED BY <4>1, <4>2
    <3> QED BY <3>1, <3>2
  <2>4. TreesOK(dash', frames')
    BY <1>1, <2>1, <2>3, TreesKept
  <2>5. ~ Orphans => WorkOK(dash', frames')
    BY <1>1, <2>1, <2>3, WorkKept
  <2>6. NewInv'
    BY <1>1, <1>2, <2>1, <2>3, ServerFacts, NewSame
  <2>7. HolderOK(dash', TraceOf(exec)')
    BY <1>7, <2>1, <2>3 DEF HolderOK, SameTrees
  <2>8. SpansOK(dash', frames', holds', named', phase')
    BY <1>1, <2>3
  <2> QED BY <2>4, <2>5, <2>6, <2>7, <2>8 DEF FaithInv
<1> QED BY <1>1, <1>2, <1>8 DEF Truth, ServerTruth, Intact

\* It pushes that the loop moves again.
LEMMA TruthUnstall ==
  ASSUME IInv, Truth, Unstall
  PROVE  Truth'
<1> DEFINE r == TraceOf(culprit)
           ev == Event("loop_unstalled", TraceOf(culprit), culprit)
<1>1. /\ named' = named /\ Arrive(<<ev>>)
      /\ world' = world /\ phase' = phase /\ frames' = frames /\ exec' = exec /\ holds' = holds
  BY DEF Unstall
<1>2. /\ ServerOK /\ dash \in Dash
      /\ CallsOK(frames, exec) /\ StartedOK(frames, phase)
  BY Knowing
<1>3. TraceOf(exec)' = TraceOf(exec)
  BY <1>1 DEF TraceOf
<1>4. ev.trace = r /\ ev.kind = "loop_unstalled"
  BY DEF Event
<1> HIDE DEF r, ev
<1>5. ASSUME Intact PROVE FaithInv'
  <2>1. /\ "loss" \notin world.harm
        /\ NewInv /\ TreesOK(dash, frames) /\ SpansOK(dash, frames, holds, named, phase)
        /\ HolderOK(dash, TraceOf(exec)) /\ (~ Orphans => WorkOK(dash, frames))
    BY <1>5, Knowing
  <2>2. dash' = Ingest(dash, ev)
    BY <1>1, <2>1, OneTaken
  <2>3. /\ SameTrees(dash, dash') /\ SameSpans(dash, dash') /\ SameWork(dash, dash')
        /\ dash'.holder = dash.holder /\ dash'.before = dash.before
    <3>1. CASE r = None
      <4>1. dash' = dash
        BY <1>4, <2>2, <3>1 DEF Ingest
      <4> QED BY <4>1, SameSelf
    <3>2. CASE r # None
      <4>1. dash' = OnLoopUnstalled(dash)
        BY <1>4, <2>2, <3>2 DEF Ingest
      <4> QED BY <1>2, <4>1, UnstalledTaken
    <3> QED BY <3>1, <3>2
  <2>4. TreesOK(dash', frames')
    BY <1>1, <2>1, <2>3, TreesKept
  <2>5. ~ Orphans => WorkOK(dash', frames')
    BY <1>1, <2>1, <2>3, WorkKept
  <2>6. NewInv'
    BY <1>1, <1>2, <2>1, <2>3, ServerFacts, NewSame
  <2>7. HolderOK(dash', TraceOf(exec)')
    BY <1>3, <2>1, <2>3 DEF HolderOK, SameTrees
  <2>8. SpansOK(dash', frames', holds', named', phase')
    BY <1>1, <2>1, <2>3, SpansKept
  <2> QED BY <2>4, <2>5, <2>6, <2>7, <2>8 DEF FaithInv
<1> QED BY <1>1, <1>2, <1>5 DEF Truth, ServerTruth, Intact

\* A request starts.
LEMMA TruthRequestStart ==
  ASSUME IInv, Truth, NEW r \in Traces, RequestStart(r)
  PROVE  Truth'
<1> DEFINE ev == Event("request_start", r, None)
<1>1. /\ phase[r] = "new" /\ phase' = [phase EXCEPT ![r] = "live"] /\ Arrive(<<ev>>)
      /\ world' = world /\ frames' = frames /\ exec' = exec /\ named' = named /\ holds' = holds
  BY DEF RequestStart, watchdog
<1>2. /\ ServerOK /\ dash \in Dash
      /\ CallsOK(frames, exec) /\ StartedOK(frames, phase)
  BY Knowing
<1>3. phase \in [Traces -> {"new", "live", "over"}] /\ r # None
  BY <1>2, DashboardAssumption DEF ServerOK
<1>4. \A n \in 1 .. Len(frames) : frames[n].trace \in Traces /\ frames[n].trace # r
  BY <1>1, <1>2, ServerFacts DEF StartedOK, FrameRec
<1>5. TraceOf(exec) # r
  BY <1>2, <1>3, <1>4, ServerFacts DEF TraceOf
<1>6. StartedOK(frames', phase')
  <2>1. \A q \in Traces : q # r => phase'[q] = phase[q]
    BY <1>1, <1>3
  <2> QED BY <1>1, <1>2, <1>4, <2>1 DEF StartedOK
<1>7. TraceOf(exec)' = TraceOf(exec)
  BY <1>1, <1>2, SameExec
<1>8. ev.trace = r /\ ev.kind = "request_start"
  BY DEF Event
<1> HIDE DEF ev
<1>9. ASSUME Intact PROVE FaithInv'
  <2>1. /\ "loss" \notin world.harm
        /\ NewInv /\ TreesOK(dash, frames) /\ SpansOK(dash, frames, holds, named, phase)
        /\ HolderOK(dash, TraceOf(exec)) /\ (~ Orphans => WorkOK(dash, frames))
    BY <1>9, Knowing
  <2>2. dash' = Ingest(dash, ev)
    BY <1>1, <2>1, OneTaken
  <2>3. dash' = OnRequestStart(dash, r)
    BY <1>3, <1>8, <2>2 DEF Ingest
  <2>4. r \notin DOMAIN dash.before
    BY <1>1, <2>1 DEF NewInv
  <2>5. FramesOf(frames, r) = {}
    BY <1>4 DEF FramesOf
  <2>6. LET e == OnRequestStart(dash, r) IN
        /\ TreesOK(e, frames) /\ SpansOK(e, frames, holds, named, phase') /\ HolderOK(e, TraceOf(exec))
        /\ WorkOK(dash, frames) => WorkOK(e, frames)
        /\ DOMAIN e.before \subseteq DOMAIN dash.before
    <3>1. phase'[r] = "live" /\ phase[r] # "over" /\ \A q \in Traces : q # r => phase'[q] = phase[q]
      BY <1>1, <1>3
    <3> QED BY <1>2, <1>5, <2>1, <2>4, <2>5, <3>1, RequestStartTaken
  <2>7. \A q \in Traces : phase'[q] = "new" => phase[q] = "new"
    BY <1>1, <1>3
  <2>8. NewInv'
    BY <1>1, <1>2, <2>1, <2>3, <2>6, <2>7, ServerFacts, NewSame
  <2> QED BY <1>1, <1>7, <2>1, <2>3, <2>6, <2>8 DEF FaithInv
<1> QED BY <1>1, <1>2, <1>6, <1>7, <1>9 DEF Truth, ServerTruth, Intact

\* A request ends, on no worker unless frames outlive it.
LEMMA TruthRequestEnd ==
  ASSUME IInv, Truth, NEW r \in Traces, RequestEnd(r)
  PROVE  Truth'
<1> DEFINE ev == Event("request_end", r, None)
<1>1. /\ phase[r] = "live" /\ phase' = [phase EXCEPT ![r] = "over"] /\ Arrive(<<ev>>)
      /\ Orphans \/ LiveIn(r, "loop") \cup LiveIn(r, "pool") = {}
      /\ world' = world /\ frames' = frames /\ exec' = exec /\ named' = named /\ holds' = holds
  BY DEF RequestEnd, watchdog
<1>2. /\ ServerOK /\ dash \in Dash
      /\ CallsOK(frames, exec) /\ StartedOK(frames, phase)
  BY Knowing
<1>3. phase \in [Traces -> {"new", "live", "over"}] /\ r # None
  BY <1>2, DashboardAssumption DEF ServerOK
<1>4. \A n \in 1 .. Len(frames) : frames[n].trace \in Traces /\ frames[n].where \in {"loop", "pool"}
  BY <1>2, ServerFacts DEF FrameRec
<1>5. ~ Orphans => \A n \in 1 .. Len(frames) : frames[n].trace = r => frames[n].state = "gone"
  BY <1>1, <1>4 DEF LiveIn, Live
<1>6. StartedOK(frames', phase')
  <2>1. phase'[r] = "over" /\ \A q \in Traces : q # r => phase'[q] = phase[q]
    BY <1>1, <1>3
  <2> QED BY <1>1, <1>2, <1>4, <1>5, <2>1 DEF StartedOK
<1>7. TraceOf(exec)' = TraceOf(exec)
  BY <1>1, <1>2, SameExec
<1>8. ev.trace = r /\ ev.kind = "request_end"
  BY DEF Event
<1> HIDE DEF ev
<1>9. ASSUME Intact PROVE FaithInv'
  <2>1. /\ "loss" \notin world.harm
        /\ NewInv /\ TreesOK(dash, frames) /\ SpansOK(dash, frames, holds, named, phase)
        /\ HolderOK(dash, TraceOf(exec)) /\ (~ Orphans => WorkOK(dash, frames))
    BY <1>9, Knowing
  <2>2. dash' = Ingest(dash, ev)
    BY <1>1, <2>1, OneTaken
  <2>3. dash' = OnRequestEnd(dash, r)
    BY <1>3, <1>8, <2>2 DEF Ingest
  <2>4. ~ Orphans => PoolOf(frames, r) = {}
    BY <1>5 DEF PoolOf, FramesOf
  <2>6. /\ SameTrees(dash, dash') /\ SpansOK(dash', frames, holds, named, phase')
        /\ dash'.holder = dash.holder /\ dash'.before = dash.before
        /\ WorkOK(dash, frames) /\ PoolOf(frames, r) = {} => WorkOK(dash', frames)
    <3>1. phase'[r] = "over" /\ \A q \in Traces : q # r => phase'[q] = phase[q]
      BY <1>1, <1>3
    <3>2. LET e == OnRequestEnd(dash, r) IN
          /\ SameTrees(dash, e) /\ SpansOK(e, frames, holds, named, phase')
          /\ e.holder = dash.holder /\ e.before = dash.before
          /\ WorkOK(dash, frames) /\ PoolOf(frames, r) = {} => WorkOK(e, frames)
      BY <1>2, <2>1, <3>1, RequestEndTaken
    <3> QED BY <2>3, <3>2
  <2>7. TreesOK(dash', frames')
    BY <1>1, <2>1, <2>6, TreesKept
  <2>8. SpansOK(dash', frames', holds', named', phase')
    BY <1>1, <2>6
  <2>9. ~ Orphans => WorkOK(dash', frames')
    BY <1>1, <2>1, <2>4, <2>6
  <2>10. \A q \in Traces : phase'[q] = "new" => phase[q] = "new"
    BY <1>1, <1>3
  <2>11. NewInv'
    BY <1>1, <1>2, <2>1, <2>6, <2>10, ServerFacts, NewSame
  <2>12. HolderOK(dash', TraceOf(exec)')
    BY <1>7, <2>1, <2>6 DEF HolderOK, SameTrees
  <2> QED BY <2>7, <2>8, <2>9, <2>11, <2>12 DEF FaithInv
<1> QED BY <1>1, <1>2, <1>6, <1>7, <1>9 DEF Truth, ServerTruth, Intact

\* Nothing is pushed, and the client shows the same, or has lost all of it.
LEMMA TruthUser ==
  ASSUME IInv, Truth, UNCHANGED <<world, phase, frames, exec, holds, named>>,
         \/ ~ Intact
         \/ /\ dash'.rows = dash.rows /\ dash'.workers = dash.workers
            /\ dash'.holder = dash.holder /\ dash'.before = dash.before
  PROVE  Truth'
<1>1. /\ world' = world /\ phase' = phase /\ frames' = frames /\ exec' = exec
      /\ named' = named /\ holds' = holds
  OBVIOUS
<1>2. /\ ServerOK /\ dash \in Dash
      /\ CallsOK(frames, exec) /\ StartedOK(frames, phase)
  BY Knowing
<1>3. TraceOf(exec)' = TraceOf(exec)
  BY <1>1, <1>2, SameExec
<1>4. ASSUME Intact PROVE FaithInv'
  <2>1. /\ NewInv /\ TreesOK(dash, frames) /\ SpansOK(dash, frames, holds, named, phase)
        /\ HolderOK(dash, TraceOf(exec)) /\ (~ Orphans => WorkOK(dash, frames))
    BY <1>4, Knowing
  <2>2. /\ dash'.rows = dash.rows /\ dash'.workers = dash.workers
        /\ dash'.holder = dash.holder /\ dash'.before = dash.before
    BY <1>4
  <2>3. TreesOK(dash', frames') /\ SpansOK(dash', frames', holds', named', phase')
    BY <1>1, <1>3, <2>1, <2>2 DEF TreesOK, SpansOK
  <2>4. ~ Orphans => WorkOK(dash', frames')
    BY <1>1, <2>1, <2>2 DEF WorkOK
  <2>5. HolderOK(dash', TraceOf(exec)')
    BY <1>3, <2>1, <2>2 DEF HolderOK
  <2>6. NewInv'
    BY <1>1, <2>1, <2>2 DEF NewInv, Nodes
  <2> QED BY <2>3, <2>4, <2>5, <2>6 DEF FaithInv
<1> QED BY <1>1, <1>2, <1>3, <1>4 DEF Truth, ServerTruth, Intact

\* Every step keeps Truth.
LEMMA TruthInductive ==
  ASSUME IInv, Truth, [Next]_vars
  PROVE  Truth'
<1>1. ASSUME NEW r \in Traces, RequestStart(r) PROVE Truth'
  BY <1>1, TruthRequestStart
<1>2. ASSUME NEW r \in Traces, RequestEnd(r) PROVE Truth'
  BY <1>2, TruthRequestEnd
<1>3. ASSUME NEW r \in Traces, NEW slow \in BOOLEAN, EnterLoop(r, slow) PROVE Truth'
  BY <1>3, TruthEnterLoop
<1>4. ASSUME NEW r \in Traces, NEW by \in Nodes \cup {None}, EnterPool(r, by) PROVE Truth'
  BY <1>4, TruthEnterPool
<1>5. ASSUME NEW slow \in BOOLEAN, ExitLoop(slow) PROVE Truth'
  BY <1>5, TruthExitLoop
<1>6. ASSUME NEW slow \in BOOLEAN, Suspend(slow) PROVE Truth'
  BY <1>6, TruthSuspend
<1>7. ASSUME NEW n \in 1 .. Len(frames), Resume(n) PROVE Truth'
  BY <1>7, TruthResume
<1>8. ASSUME NEW n \in 1 .. Len(frames), ExitPool(n) PROVE Truth'
  BY <1>8, TruthExitPool
<1>9. ASSUME Stall PROVE Truth'
  BY <1>9, TruthStall
<1>10. ASSUME Unstall PROVE Truth'
  BY <1>10, TruthUnstall
<1>11. ASSUME Clear PROVE Truth'
  <2>1. UNCHANGED <<world, phase, frames, exec, holds, named>> /\ ~ Intact
    BY <1>11 DEF Clear, Intact, server, watchdog
  <2> QED BY <2>1, TruthUser
<1>12. ASSUME NEW n \in Caps, SetCap(n) PROVE Truth'
  <2>1. /\ dash' = [dash EXCEPT !.cap = n] /\ dash \in Dash
        /\ UNCHANGED <<world, phase, frames, exec, holds, named>>
    BY <1>12, Knowing DEF SetCap, server, watchdog
  <2>2. /\ dash'.rows = dash.rows /\ dash'.workers = dash.workers
        /\ dash'.holder = dash.holder /\ dash'.before = dash.before
    BY <2>1 DEF Dash
  <2> QED BY <2>1, <2>2, TruthUser
<1>13. ASSUME UNCHANGED vars \/ Notice \/ Recover PROVE Truth'
  <2>1. UNCHANGED <<world, phase, frames, exec, holds, named>> /\ dash' = dash
    BY <1>13 DEF vars, server, watchdog, Notice, Recover
  <2> QED BY <2>1, TruthUser
<1>14. CASE Next
  BY <1>14, <1>1, <1>2, <1>3, <1>4, <1>5, <1>6, <1>7, <1>8, <1>9, <1>10, <1>11, <1>12, <1>13 DEF Next, Serve
<1> QED BY <1>13, <1>14

\* Nothing is shown of a server that has done nothing.
LEMMA TruthInitial == Init => Truth
<1> SUFFICES ASSUME Init PROVE Truth
  OBVIOUS
<1>1. /\ frames = << >> /\ exec = None /\ holds = [n \in Nodes |-> 0]
      /\ dash = EmptyDash(Cap)
  BY DEF Init
<1>2. Len(frames) = 0 /\ 1 .. Len(frames) = {}
  BY <1>1
<1>3. CallsOK(frames, exec) /\ StartedOK(frames, phase)
  BY <1>1, <1>2 DEF CallsOK, StartedOK
<1>5. DOMAIN dash.rows = {} /\ DOMAIN dash.before = {} /\ dash.workers = {} /\ TraceOf(exec) = None
  BY <1>1 DEF EmptyDash, TraceOf
<1>6. FaithInv
  BY <1>1, <1>5 DEF FaithInv, NewInv, TreesOK, SpansOK, HolderOK, WorkOK
<1> QED BY <1>3, <1>6 DEF Truth, ServerTruth

\* So what the dashboard shows is true as long as every event arrives.
LEMMA Truthful == Spec => [](IInv /\ Truth)
<1>1. Init => IInv /\ Truth
  BY Initial, TruthInitial
<1>2. IInv /\ Truth /\ [Next]_vars => (IInv /\ Truth)'
  BY Inductive, TruthInductive
<1> QED BY <1>1, <1>2, PTL DEF Spec

-----------------------------------------------------------------------------
(* What the dashboard shows *)

\* While every event arrives, whatever cap the user sets: a row that is shown has
\* a node for every frame its request ever entered, in the state it is in and
\* under the frame that called it, and its stack holds those that are there, once
\* each (dashboard.js:608-620, 672-764).
THEOREM CompleteRows == Spec => []RowsAreComplete
<1>1. ASSUME IInv, Truth PROVE RowsAreComplete
  <2> SUFFICES ASSUME Intact, NEW r \in Shown
               PROVE  /\ DOMAIN dash.rows[r].nodes = Frames(r)
                      /\ \A n \in Frames(r) :
                           /\ dash.rows[r].nodes[n].parent = frames[n].parent
                           /\ dash.rows[r].nodes[n].state = Shows(frames[n].state)
                      /\ ToSet(dash.rows[r].stack) = Frames(r) \cap Live
                      /\ IsInjective(dash.rows[r].stack)
    BY DEF RowsAreComplete, Shows
  <2>1. TreesOK(dash, frames)
    BY <1>1, Knowing
  <2>2. Pictured(dash.rows[r], frames, r)
    BY <2>1 DEF TreesOK, Shown
  <2>3. Frames(r) = FramesOf(frames, r)
    BY DEF Frames, FramesOf
  <2>4. \A n \in Frames(r) : n \in Live <=> frames[n].state # "gone"
    BY DEF Frames, Live
  <2>5. ToSet(dash.rows[r].stack) = Frames(r) \cap Live
    BY <2>2, <2>3, <2>4 DEF Pictured
  <2> QED BY <2>2, <2>3, <2>5 DEF Pictured
<1> QED BY Truthful, <1>1, PTL

\* While every event arrives: the spans of a row are, for each of its frames, one
\* that has ended for every slow hold the timer reported of it, and one that is
\* open exactly if the watchdog named it while its request was not over and no
\* hold of it was ever reported (dashboard.js:756-774, 815-836).
THEOREM ReconciledSpans == Spec => []SpansAreReconciled
<1>1. ASSUME IInv, Truth PROVE SpansAreReconciled
  <2> SUFFICES ASSUME Intact, NEW r \in Shown
               PROVE  LET spans == dash.rows[r].spans
                          Reported(n) == {i \in DOMAIN spans : spans[i].node = n /\ spans[i].ended}
                          Running(n) == {i \in DOMAIN spans : spans[i].node = n /\ ~ spans[i].ended}
                      IN /\ dash.rows[r].blockCount = Len(spans)
                         /\ \A i \in DOMAIN spans : spans[i].node \in Frames(r)
                         /\ \A n \in Frames(r) :
                              /\ Cardinality(Reported(n)) = holds[n]
                              /\ Cardinality(Running(n)) = IF n \in named /\ holds[n] = 0 THEN 1 ELSE 0
    BY DEF SpansAreReconciled
  <2> DEFINE row == dash.rows[r]
  <2>1. Timed(row, FramesOf(frames, r), holds, named)
    BY <1>1, Knowing DEF SpansOK, Shown
  <2>2. Frames(r) = FramesOf(frames, r)
    BY DEF Frames, FramesOf
  <2> HIDE DEF row
  <2>3. ASSUME NEW n \in Frames(r)
        PROVE  /\ Cardinality(EndedOf(row, n)) = holds[n]
               /\ Cardinality(OpenOf(row, n)) = IF n \in named /\ holds[n] = 0 THEN 1 ELSE 0
    <3>1. CASE Pending(holds, named, n)
      <4>1. PICK x : OpenOf(row, n) = {x}
        BY <2>1, <2>2, <2>3, <3>1 DEF Timed
      <4>2. Cardinality(OpenOf(row, n)) = 1
        BY <4>1, FS_Singleton
      <4> QED BY <2>1, <2>2, <2>3, <3>1, <4>2 DEF Timed, Pending
    <3>2. CASE ~ Pending(holds, named, n)
      <4>1. OpenOf(row, n) = {}
        BY <2>1, <2>2, <2>3, <3>2 DEF Timed
      <4>2. Cardinality(OpenOf(row, n)) = 0
        BY <4>1, FS_EmptySet
      <4> QED BY <2>1, <2>2, <2>3, <3>2, <4>2 DEF Timed, Pending
    <3> QED BY <3>1, <3>2
  <2>4. row.blockCount = Len(row.spans) /\ \A i \in DOMAIN row.spans : row.spans[i].node \in Frames(r)
    BY <2>1, <2>2 DEF Timed
  <2> QED BY <2>3, <2>4 DEF EndedOf, OpenOf, row
<1> QED BY Truthful, <1>1, PTL

\* The tag of a row.
LEMMA TagOf ==
  ASSUME NEW d, NEW r
  PROVE  /\ BranchState(d, r) = "WORKER" => d.rows[r].live > 0
         /\ BranchState(d, r) = "RUNNING" /\ Zone(d.rows[r]) = "loop" => d.holder = r
         /\ d.holder = r /\ ~ d.rows[r].done /\ Zone(d.rows[r]) = "loop" /\ d.rows[r].stalled \in BOOLEAN
              => BranchState(d, r) \in {"RUNNING", "STALLED"}
<1>1. Zone(d.rows[r]) = "pool" \/ Zone(d.rows[r]) = "loop"
  BY DEF Zone
<1>2. "WORKER" # "DONE" /\ "WORKER" # "STALLED" /\ "WORKER" # "RUNNING" /\ "WORKER" # "WAITING"
  OBVIOUS
<1> QED BY <1>1, <1>2 DEF BranchState

\* While every event arrives and no frame outlives its request: the request
\* whose frame executes holds the loop and is shown RUNNING or STALLED, no other
\* row on the loop is RUNNING, a row counts and lists exactly the workers that
\* are busy for its request, and one in WORKER has one (dashboard.js:662-668,
\* 726-729, 875-914, 1210-1257).
THEOREM TrueView == ~ Orphans => (Spec => []ViewIsTruth)
<1> SUFFICES ASSUME ~ Orphans PROVE Spec => []ViewIsTruth
  OBVIOUS
<1>1. ASSUME IInv, Truth PROVE ViewIsTruth
  <2> SUFFICES ASSUME Intact PROVE HolderIsTruth /\ WorkersAreBusy /\ TagsAreTrue
    BY DEF ViewIsTruth
  <2>1. /\ ServerOK /\ dash \in Dash /\ CallsOK(frames, exec) /\ StartedOK(frames, phase)
        /\ TreesOK(dash, frames) /\ HolderOK(dash, TraceOf(exec)) /\ WorkOK(dash, frames)
    BY <1>1, Knowing
  <2>2. \A r \in Shown : r \in Traces /\ r # None /\ dash.rows[r] \in Row
    BY <2>1, ClientTypes, DashboardAssumption DEF Shown
  <2>3. \A r : LiveIn(r, "pool") = PoolOf(frames, r)
    BY DEF LiveIn, Live, PoolOf, FramesOf
  <2>4. HolderIsTruth
    BY <2>1, <2>2 DEF HolderIsTruth, HolderOK, Shown
  <2>5. WorkersAreBusy
    BY <2>1, <2>3 DEF WorkersAreBusy, WorkOK, Shown
  <2>6. ASSUME exec # None, TraceOf(exec) \in Shown
        PROVE  BranchState(dash, TraceOf(exec)) \in {"RUNNING", "STALLED"}
    <3> DEFINE t == TraceOf(exec)
    <3>1. /\ exec \in 1 .. Len(frames) /\ frames[exec].trace = t
          /\ frames[exec].where = "loop" /\ frames[exec].state = "run"
      BY <2>1, <2>6, ServerFacts DEF TraceOf, CallsOK
    <3>2. dash.rows[t].sawLoop
      <4>1. Pictured(dash.rows[t], frames, t) /\ exec \in FramesOf(frames, t)
        BY <2>1, <2>6, <3>1 DEF TreesOK, Shown, FramesOf
      <4> QED BY <3>1, <4>1 DEF Pictured
    <3>3. Zone(dash.rows[t]) = "loop"
      BY <3>2 DEF Zone
    <3>4. ~ dash.rows[t].done
      <4>1. Calm(dash, 1 .. Len(frames), Over)
        BY <1>1 DEF IInv, CalmInv
      <4>2. dash.rows[t].done => t \in Over
        BY <2>6, <4>1 DEF Calm, Shown
      <4>3. phase[t] # "over"
        BY <2>1, <3>1 DEF StartedOK
      <4> QED BY <4>2, <4>3 DEF Over
    <3>5. dash.holder = t /\ dash.rows[t].stalled \in BOOLEAN
      BY <2>2, <2>4, <2>6 DEF HolderIsTruth, Row
    <3> QED BY <3>3, <3>4, <3>5, TagOf
  <2>7. ASSUME NEW r \in Shown, BranchState(dash, r) = "WORKER"
        PROVE  LiveIn(r, "pool") # {}
    <3>1. dash.rows[r].live = Cardinality(LiveIn(r, "pool")) /\ dash.rows[r].live > 0
      BY <2>5, <2>7, TagOf DEF WorkersAreBusy
    <3> QED BY <3>1, FS_EmptySet
  <2>8. Cardinality({r \in Shown : Zone(dash.rows[r]) = "loop" /\ BranchState(dash, r) = "RUNNING"}) <= 1
    <3> DEFINE S == {r \in Shown : Zone(dash.rows[r]) = "loop" /\ BranchState(dash, r) = "RUNNING"}
    <3>1. S \subseteq {dash.holder}
      BY TagOf
    <3> HIDE DEF S
    <3>2. IsFiniteSet({dash.holder}) /\ Cardinality({dash.holder}) = 1
      BY FS_Singleton
    <3>3. Cardinality(S) <= Cardinality({dash.holder})
      BY <3>1, <3>2, FS_Subset
    <3> QED BY <3>2, <3>3 DEF S
  <2> QED BY <2>4, <2>5, <2>6, <2>7, <2>8 DEF TagsAreTrue
<1> QED BY Truthful, <1>1, PTL

-----------------------------------------------------------------------------
(* The divider *)

\* The divider is in the window's upper part, and leaves both zones their floor
\* or is in the middle.
LEMMA DividerClamped ==
  ASSUME NEW h \in Nat, NEW y \in Int
  PROVE  LET d == ClampDividerY(h, y) IN
         /\ Avail(h) \in Nat \ {0} /\ d \in Nat /\ d >= ZoneTop
         /\ IF Avail(h) < 2 * ZoneMinPx
            THEN d = ZoneTop + Avail(h) \div 2
            ELSE d >= ZoneTop + ZoneMinPx /\ d <= h - ZoneBottomMargin - ZoneMinPx
<1>1. /\ ZoneTop = 80 /\ ZoneBottomMargin = 80 /\ ZoneMinPx = 1180 /\ Px = 10
  BY DEF ZoneTop, ZoneBottomMargin, ZoneMinPx, ZoneHeaderH, RowCollapsedH, Px
<1>2. /\ Avail(h) = IF 400 > h - 160 THEN 400 ELSE h - 160
      /\ Avail(h) \in Nat \ {0}
  BY <1>1 DEF Avail, Larger
<1>3. CASE Avail(h) < 2360
  BY <1>1, <1>2, <1>3 DEF ClampDividerY
<1>4. CASE ~ (Avail(h) < 2360)
  <2>1. h >= 2520
    BY <1>2, <1>4
  <2>2. ClampDividerY(h, y) = Larger(1260, Smaller(h - 1260, y))
    BY <1>1, <1>4 DEF ClampDividerY, Within
  <2> QED BY <1>1, <1>2, <1>4, <2>1, <2>2 DEF Larger, Smaller
<1> QED BY <1>1, <1>3, <1>4

\* A pinned divider is a fraction.
LEMMA FractionType ==
  ASSUME NEW h \in Nat, NEW y \in Int
  PROVE  FracFromY(h, y) \in Nat
<1> DEFINE a == Avail(h)
           x == (ClampDividerY(h, y) - ZoneTop) * Unit
<1>1. a \in Nat \ {0} /\ ClampDividerY(h, y) \in Nat /\ ClampDividerY(h, y) >= ZoneTop
  BY DividerClamped
<1>2. x \in Nat
  BY <1>1 DEF ZoneTop, Unit, Px
<1> HIDE DEF a, x
<1>3. x \div a \in Nat
  BY <1>1, <1>2
<1> QED BY <1>3 DEF FracFromY, a, x

\* The divider of a frame is clamped.
LEMMA DividerOfFrame ==
  ASSUME NEW h \in Nat, NEW at \in Nat \cup {None}, None \notin Nat, NEW above \in Nat, NEW all \in Nat
  PROVE  \E y \in Int : DividerY(h, at, above, all) = ClampDividerY(h, y)
<1> DEFINE share == IF all = 0 THEN 500 ELSE Within(ZoneMinFrac, ZoneMaxFrac, (above * Unit) \div all)
           frac == IF at = None THEN share ELSE at
           x == frac * Avail(h)
<1>1. share \in Int
  <2>1. CASE all = 0
    BY <2>1
  <2>2. CASE all # 0
    <3> DEFINE k == above * Unit
    <3>1. k \in Nat
      BY DEF Unit
    <3> HIDE DEF k
    <3>2. k \div all \in Int
      BY <2>2, <3>1
    <3> QED BY <2>2, <3>2 DEF k, Within, Larger, Smaller, ZoneMinFrac, ZoneMaxFrac
  <2> QED BY <2>1, <2>2
<1>2. frac \in Int
  BY <1>1
<1>3. Avail(h) \in Nat
  BY DEF Avail, Larger, ZoneBottomMargin, ZoneTop, Px
<1>4. x \in Int
  <2> HIDE DEF frac
  <2> QED BY <1>2, <1>3
<1>5. ZoneTop + x \div Unit \in Int
  <2> HIDE DEF x
  <2> QED BY <1>4 DEF ZoneTop, Unit, Px
<1> QED BY <1>5 DEF DividerY

-----------------------------------------------------------------------------
(* The order of the rows *)

\* s is sorted by key.
Rising(s, key) == IsInjective(s) /\ \A i, j \in DOMAIN s : i < j => key[s[i]] <= key[s[j]]

\* A set that is not empty has a member with the smallest key.
LEMMA SmallestKey ==
  ASSUME NEW S, S # {}, NEW key, \A x \in S : key[x] \in Nat
  PROVE  \E x \in S : \A y \in S : key[x] <= key[y]
<1> DEFINE K == {key[x] : x \in S}
<1>1. K \in SUBSET Nat /\ K # {}
  OBVIOUS
<1>2. PICK k \in K : \A l \in K : k <= l
  <2> HIDE DEF K
  <2> QED BY <1>1, Taking!LeastOf
<1> QED BY <1>2

\* A sorted sequence with something smaller before it.
LEMMA RisingAfter ==
  ASSUME NEW n \in Nat \ {0}, NEW T, NEW x \in T, NEW key,
         \A y \in T : key[x] <= key[y],
         NEW s \in [1 .. n - 1 -> T \ {x}], Rising(s, key)
  PROVE  \E t \in [1 .. n -> T] : Rising(t, key)
<1> DEFINE t == [i \in 1 .. n |-> IF i = 1 THEN x ELSE s[i - 1]]
<1>1. \A i \in 2 .. n : i \in 1 .. n /\ i - 1 \in 1 .. n - 1
  OBVIOUS
<1>2. \A i \in 1 .. n : i = 1 \/ i \in 2 .. n
  OBVIOUS
<1>3. t[1] = x /\ \A i \in 2 .. n : t[i] = s[i - 1] /\ s[i - 1] \in T \ {x}
  BY <1>1
<1>4. t \in [1 .. n -> T]
  BY <1>1, <1>2
<1>5. DOMAIN t = 1 .. n /\ DOMAIN s = 1 .. n - 1
  OBVIOUS
<1> HIDE DEF t
<1>6. ASSUME NEW i \in 1 .. n, NEW j \in 1 .. n, t[i] = t[j]
      PROVE  i = j
  <2>1. CASE i = 1 \/ j = 1
    BY <1>2, <1>3, <1>6, <2>1
  <2>2. CASE i \in 2 .. n /\ j \in 2 .. n
    <3>1. s[i - 1] = s[j - 1] /\ i - 1 \in DOMAIN s /\ j - 1 \in DOMAIN s
      BY <1>1, <1>3, <1>5, <1>6, <2>2
    <3>2. i - 1 = j - 1
      BY <3>1 DEF Rising, IsInjective
    <3> QED BY <3>2
  <2> QED BY <1>2, <2>1, <2>2
<1>7. ASSUME NEW i \in 1 .. n, NEW j \in 1 .. n, i < j
      PROVE  key[t[i]] <= key[t[j]]
  <2>1. j \in 2 .. n
    BY <1>7
  <2>2. CASE i = 1
    BY <1>3, <1>4, <2>2
  <2>3. CASE i \in 2 .. n
    <3>1. i - 1 \in DOMAIN s /\ j - 1 \in DOMAIN s /\ i - 1 < j - 1
      BY <1>1, <1>5, <1>7, <2>1, <2>3
    <3>2. key[s[i - 1]] <= key[s[j - 1]]
      BY <3>1 DEF Rising
    <3> QED BY <1>3, <2>1, <2>3, <3>2
  <2> QED BY <1>2, <2>2, <2>3
<1>8. Rising(t, key)
  BY <1>5, <1>6, <1>7 DEF Rising, IsInjective
<1> QED BY <1>4, <1>8

\* Every finite set can be sorted.
LEMMA CanBeSorted ==
  ASSUME NEW S, IsFiniteSet(S), NEW key, \A x \in S : key[x] \in Nat
  PROVE  \E s \in [1 .. Cardinality(S) -> S] : Rising(s, key)
<1> DEFINE Sortable(T) == \E s \in [1 .. Cardinality(T) -> T] : Rising(s, key)
           U == {n \in Nat : \A T \in SUBSET S : Cardinality(T) = n => Sortable(T)}
<1>1. \A T \in SUBSET S : IsFiniteSet(T) /\ Cardinality(T) \in Nat
  BY FS_Subset, FS_CardinalityType
<1>2. 0 \in U
  <2> SUFFICES ASSUME NEW T \in SUBSET S, Cardinality(T) = 0 PROVE Sortable(T)
    OBVIOUS
  <2> DEFINE s == [i \in 1 .. 0 |-> i]
  <2>1. s \in [1 .. Cardinality(T) -> T] /\ DOMAIN s = {}
    OBVIOUS
  <2>2. Rising(s, key)
    BY <2>1 DEF Rising, IsInjective
  <2> QED BY <2>1, <2>2
<1>3. ASSUME NEW n \in 1 .. Cardinality(S), n - 1 \in U
      PROVE  n \in U
  <2> SUFFICES ASSUME NEW T \in SUBSET S, Cardinality(T) = n PROVE Sortable(T)
    BY <1>1
  <2>1. n \in Nat \ {0}
    BY <1>1
  <2>2. T # {}
    BY <1>1, <2>1, FS_EmptySet
  <2>3. PICK x \in T : \A y \in T : key[x] <= key[y]
    BY <2>2, SmallestKey
  <2>4. Cardinality(T \ {x}) = n - 1 /\ T \ {x} \in SUBSET S
    BY <1>1, FS_RemoveElement
  <2>5. Sortable(T \ {x})
    BY <1>3, <2>4
  <2>6. PICK s \in [1 .. n - 1 -> T \ {x}] : Rising(s, key)
    BY <2>4, <2>5
  <2>7. \E t \in [1 .. n -> T] : Rising(t, key)
    BY <2>1, <2>3, <2>6, RisingAfter
  <2> QED BY <2>7
<1>4. \A n \in 0 .. Cardinality(S) : n \in U
  <2>1. Cardinality(S) \in Nat
    BY <1>1
  <2> HIDE DEF U
  <2> QED BY <1>2, <1>3, <2>1, Taking!Induction
<1>5. Cardinality(S) \in 0 .. Cardinality(S)
  BY <1>1
<1> QED BY <1>4, <1>5

\* What the order is: every member once, from the smallest key to the largest.
LEMMA OrderIs ==
  ASSUME NEW S, IsFiniteSet(S), NEW key, \A x \in S : key[x] \in Nat
  PROVE  LET s == InOrder(S, key) IN
         /\ Cardinality(S) \in Nat /\ s \in [1 .. Cardinality(S) -> S] /\ Rising(s, key)
         /\ \A x \in S : \E i \in 1 .. Cardinality(S) : s[i] = x
<1> DEFINE n == Cardinality(S)
           s == InOrder(S, key)
<1>1. s \in [1 .. n -> S] /\ Rising(s, key)
  BY CanBeSorted DEF InOrder, Rising
<1>2. n \in Nat /\ IsFiniteSet(1 .. n) /\ Cardinality(1 .. n) = n
  BY FS_CardinalityType, FS_Interval
<1> HIDE DEF s
<1>3. s \in Injection(1 .. n, S)
  BY <1>1 DEF Injection, Rising
<1>4. s \in Surjection(1 .. n, S)
  BY <1>2, <1>3, FS_Injection
<1>5. \A x \in S : \E i \in 1 .. n : s[i] = x
  BY <1>4 DEF Surjection
<1> QED BY <1>1, <1>2, <1>5 DEF s

-----------------------------------------------------------------------------
(* The rows of a zone, one below the other *)

\* A row, or a piece of work, in its place.
Item(T) == [trace : T, top : Nat, height : Nat]

\* The first n of the list are stacked from 0 down to the end.
Stacked(st, list, T, n) ==
  /\ st.end \in Nat /\ st.rows \in Seq(Item(T)) /\ Len(st.rows) = n
  /\ \A i \in 1 .. n : /\ st.rows[i].trace = list[i].trace
                       /\ Bottom(st.rows[i]) + RowGap <= st.end
  /\ \A i, j \in 1 .. n : i < j => Bottom(st.rows[i]) + RowGap <= st.rows[j].top
  /\ IF n = 0 THEN st.end = 0
     ELSE st.rows[1].top = 0 /\ Bottom(st.rows[n]) + RowGap = st.end

\* One more is placed below.
LEMMA PlaceKeeps ==
  ASSUME NEW T, NEW list, NEW n \in Nat \ {0}, NEW acc, Stacked(acc, list, T, n - 1),
         list[n] \in [trace : T, height : Nat]
  PROVE  Stacked(Place(acc, list[n]), list, T, n)
<1> DEFINE it == [trace |-> list[n].trace, top |-> acc.end, height |-> list[n].height]
           st == Place(acc, list[n])
<1>1. acc.end \in Nat /\ acc.rows \in Seq(Item(T)) /\ Len(acc.rows) = n - 1 /\ RowGap \in Nat
  BY DEF Stacked, RowGap, Px
<1>2. it \in Item(T)
  BY <1>1 DEF Item
<1>3. /\ st.rows = Append(acc.rows, it)
      /\ st.end = Bottom(it) + RowGap
  BY DEF Place, Bottom
<1>4. Bottom(it) = acc.end + list[n].height /\ it.top = acc.end /\ it.trace = list[n].trace
  BY DEF Bottom
<1> HIDE DEF it, st
<1>5. /\ st.rows \in Seq(Item(T)) /\ Len(st.rows) = n /\ st.rows[n] = it
      /\ \A i \in 1 .. n - 1 : st.rows[i] = acc.rows[i]
  BY <1>1, <1>2, <1>3, AppendProperties
<1>6. st.end \in Nat /\ acc.end <= st.end /\ Bottom(it) + RowGap = st.end
  BY <1>1, <1>3, <1>4
<1>7. \A i \in 1 .. n : i = n \/ i \in 1 .. n - 1
  OBVIOUS
<1>8. \A i \in 1 .. n - 1 : Bottom(acc.rows[i]) \in Nat /\ acc.rows[i] \in Item(T)
  <2> SUFFICES ASSUME NEW i \in 1 .. n - 1 PROVE Bottom(acc.rows[i]) \in Nat /\ acc.rows[i] \in Item(T)
    OBVIOUS
  <2>1. acc.rows[i] \in Item(T)
    BY <1>1
  <2> QED BY <2>1 DEF Item, Bottom
<1>9. \A i \in 1 .. n : st.rows[i].trace = list[i].trace /\ Bottom(st.rows[i]) + RowGap <= st.end
  <2> SUFFICES ASSUME NEW i \in 1 .. n
               PROVE  st.rows[i].trace = list[i].trace /\ Bottom(st.rows[i]) + RowGap <= st.end
    OBVIOUS
  <2>1. CASE i = n
    BY <1>4, <1>5, <1>6, <2>1
  <2>2. CASE i \in 1 .. n - 1
    <3>1. acc.rows[i].trace = list[i].trace /\ Bottom(acc.rows[i]) + RowGap <= acc.end
      BY <2>2 DEF Stacked
    <3>2. Bottom(acc.rows[i]) + RowGap <= st.end
      <4>1. Bottom(acc.rows[i]) \in Nat
        BY <1>8, <2>2
      <4> QED BY <1>1, <1>6, <3>1, <4>1
    <3>3. st.rows[i] = acc.rows[i]
      BY <1>5, <2>2
    <3> QED BY <3>1, <3>2, <3>3
  <2> QED BY <1>7, <2>1, <2>2
<1>10. \A i, j \in 1 .. n : i < j => Bottom(st.rows[i]) + RowGap <= st.rows[j].top
  <2> SUFFICES ASSUME NEW i \in 1 .. n, NEW j \in 1 .. n, i < j
               PROVE  Bottom(st.rows[i]) + RowGap <= st.rows[j].top
    OBVIOUS
  <2>1. i \in 1 .. n - 1
    OBVIOUS
  <2>2. CASE j = n
    <3>1. Bottom(acc.rows[i]) + RowGap <= acc.end
      BY <2>1 DEF Stacked
    <3> QED BY <1>4, <1>5, <2>1, <2>2, <3>1
  <2>3. CASE j \in 1 .. n - 1
    <3>1. Bottom(acc.rows[i]) + RowGap <= acc.rows[j].top
      BY <2>1, <2>3 DEF Stacked
    <3> QED BY <1>5, <2>1, <2>3, <3>1
  <2> QED BY <1>7, <2>2, <2>3
<1>11. st.rows[1].top = 0
  <2>1. CASE n = 1
    <3>1. acc.end = 0
      BY <2>1 DEF Stacked
    <3> QED BY <1>4, <1>5, <2>1, <3>1
  <2>2. CASE n # 1
    <3>1. acc.rows[1].top = 0 /\ 1 \in 1 .. n - 1
      BY <2>2 DEF Stacked
    <3> QED BY <1>5, <3>1
  <2> QED BY <2>1, <2>2
<1>12. Stacked(st, list, T, n)
  BY <1>5, <1>6, <1>9, <1>10, <1>11 DEF Stacked
<1> QED BY <1>12 DEF st

\* Everything in the list is placed.
LEMMA AllPlaced ==
  ASSUME NEW T, NEW n \in Nat, NEW list \in [1 .. n -> [trace : T, height : Nat]]
  PROVE  Stacked(FoldLeft(Place, [rows |-> <<>>, end |-> 0], list), list, T, n)
<1> DEFINE base == [rows |-> <<>>, end |-> 0]
<1>1. DOMAIN list = 1 .. n
  OBVIOUS
<1>2. Stacked(base, list, T, 0)
  BY EmptySeq DEF Stacked
<1> HIDE DEF base
<1>3. FoldLeft(Place, base, list) = Stacking!Folded(base, list, 1 .. n)
  BY <1>1 DEF FoldLeft, MapThenFoldSet, Max, Stacking!Folded, Stacking!IsFold, Stacking!Top
<1>4. PICK f : Stacking!IsTrail(f, base, list, n) /\ Stacking!Folded(base, list, 1 .. n) = f[n]
  BY Stacking!FoldHasTrail
<1>5. f[0] = base /\ \A k \in 1 .. n : f[k] = Place(f[k - 1], list[k])
  BY <1>4 DEF Stacking!IsTrail
<1> DEFINE U == {k \in Nat : Stacked(f[k], list, T, k)}
<1>6. 0 \in U
  BY <1>2, <1>5
<1>7. ASSUME NEW k \in 1 .. n, k - 1 \in U PROVE k \in U
  <2>1. k \in Nat \ {0} /\ f[k] = Place(f[k - 1], list[k]) /\ list[k] \in [trace : T, height : Nat]
    BY <1>5
  <2>2. Stacked(f[k - 1], list, T, k - 1)
    BY <1>7
  <2> QED BY <2>1, <2>2, PlaceKeeps
<1>8. \A k \in 0 .. n : k \in U
  <2> HIDE DEF U
  <2> QED BY <1>6, <1>7, Stacking!Induction
<1>9. Stacked(f[n], list, T, n)
  BY <1>8
<1> QED BY <1>3, <1>4, <1>9 DEF base

\* k items are piled from 0 down to the end.
Piled(items, k, end) ==
  /\ end \in Nat
  /\ \A i \in 1 .. k : items[i].top \in Nat /\ items[i].height \in Nat
  /\ \A i, j \in 1 .. k : i < j => Bottom(items[i]) + RowGap <= items[j].top
  /\ IF k = 0 THEN end = 0
     ELSE items[1].top = 0 /\ Bottom(items[k]) + RowGap = end

\* What workers do comes below the rows.
LEMMA WorkBelow ==
  ASSUME NEW T, NEW list, NEW n \in Nat, NEW stack, Stacked(stack, list, T, n),
         NEW m \in Nat, NEW work \in [1 .. m -> T], NEW items,
         \A i \in 1 .. n : items[i] = stack.rows[i],
         \A i \in 1 .. m : items[n + i] = [trace |-> work[i],
                                           top |-> stack.end + (i - 1) * (WorkRowH + RowGap),
                                           height |-> WorkRowH]
  PROVE  Piled(items, n + m, stack.end + m * (WorkRowH + RowGap))
<1> DEFINE end == stack.end + m * (WorkRowH + RowGap)
<1>1. RowGap = 80 /\ WorkRowH = 520
  BY DEF RowGap, WorkRowH, Px
<1>2. stack.end \in Nat /\ stack.rows \in Seq(Item(T)) /\ Len(stack.rows) = n
  BY DEF Stacked
<1>3. end = stack.end + m * 600 /\ end \in Nat
  BY <1>1, <1>2
<1>4. ASSUME NEW i \in 1 .. n
      PROVE  /\ items[i].top \in Nat /\ items[i].height \in Nat /\ Bottom(items[i]) \in Nat
             /\ Bottom(items[i]) + RowGap <= stack.end
  <2>1. stack.rows[i] \in Item(T)
    BY <1>2
  <2>2. Bottom(stack.rows[i]) + RowGap <= stack.end
    BY DEF Stacked
  <2>3. Bottom(stack.rows[i]) \in Nat
    BY <2>1 DEF Item, Bottom
  <2> QED BY <2>1, <2>2, <2>3 DEF Item
<1>5. ASSUME NEW j \in n + 1 .. n + m
      PROVE  /\ items[j].top = stack.end + (j - n - 1) * 600 /\ items[j].height = 520
             /\ Bottom(items[j]) + RowGap = stack.end + (j - n) * 600
             /\ items[j].top \in Nat /\ Bottom(items[j]) \in Nat
  <2> DEFINE i == j - n
  <2>1. i \in 1 .. m /\ n + i = j
    OBVIOUS
  <2>2. items[n + i] = [trace |-> work[i], top |-> stack.end + (i - 1) * (WorkRowH + RowGap),
                        height |-> WorkRowH]
    <3> HIDE DEF i
    <3> QED BY <2>1
  <2>3. items[j].top = stack.end + (j - n - 1) * 600 /\ items[j].height = 520
    BY <1>1, <2>1, <2>2
  <2>4. Bottom(items[j]) = stack.end + (j - n - 1) * 600 + 520
    BY <2>3 DEF Bottom
  <2>5. (j - n - 1) * 600 + 600 = (j - n) * 600 /\ (j - n - 1) * 600 \in Nat
    OBVIOUS
  <2> QED BY <1>1, <1>2, <2>3, <2>4, <2>5
<1> HIDE DEF end
<1>6. \A j \in 1 .. n + m : j \in 1 .. n \/ j \in n + 1 .. n + m
  OBVIOUS
<1>7. ASSUME NEW i \in 1 .. n + m, NEW j \in 1 .. n + m, i < j
      PROVE  Bottom(items[i]) + RowGap <= items[j].top
  <2>1. CASE j \in 1 .. n
    <3>1. i \in 1 .. n
      BY <1>7, <2>1
    <3> QED BY <1>7, <2>1, <3>1 DEF Stacked
  <2>2. CASE i \in 1 .. n /\ j \in n + 1 .. n + m
    <3>1. Bottom(items[i]) + RowGap <= stack.end /\ Bottom(items[i]) \in Nat
      BY <1>4, <2>2
    <3>2. items[j].top >= stack.end
      <4>1. items[j].top = stack.end + (j - n - 1) * 600
        BY <1>5, <2>2
      <4>2. (j - n - 1) * 600 \in Nat
        BY <2>2
      <4> QED BY <1>2, <4>1, <4>2
    <3>3. items[j].top \in Nat
      BY <1>5, <2>2
    <3> QED BY <1>1, <1>2, <3>1, <3>2, <3>3
  <2>3. CASE i \in n + 1 .. n + m /\ j \in n + 1 .. n + m
    <3>1. Bottom(items[i]) + RowGap = stack.end + (i - n) * 600
      BY <1>5, <2>3
    <3>2. items[j].top = stack.end + (j - n - 1) * 600
      BY <1>5, <2>3
    <3>3. (i - n) * 600 <= (j - n - 1) * 600
      BY <1>7
    <3> QED BY <1>2, <3>1, <3>2, <3>3
  <2>4. CASE i \in n + 1 .. n + m /\ j \in 1 .. n
    BY <1>7, <2>4
  <2> QED BY <1>6, <2>1, <2>2, <2>3, <2>4
<1>8. IF n + m = 0 THEN end = 0 ELSE items[1].top = 0 /\ Bottom(items[n + m]) + RowGap = end
  <2>1. CASE n = 0 /\ m = 0
    BY <1>3, <2>1 DEF Stacked
  <2>2. CASE n = 0 /\ m # 0
    <3>1. stack.end = 0
      BY <2>2 DEF Stacked
    <3>2. items[1].top = 0
      <4>1. 1 \in n + 1 .. n + m /\ (1 - n - 1) * 600 = 0
        BY <2>2
      <4>2. items[1].top = stack.end + (1 - n - 1) * 600
        BY <1>5, <4>1
      <4> QED BY <3>1, <4>1, <4>2
    <3>3. Bottom(items[n + m]) + RowGap = stack.end + m * 600
      <4>1. n + m \in n + 1 .. n + m /\ n + m - n = m
        BY <2>2
      <4>2. Bottom(items[n + m]) + RowGap = stack.end + (n + m - n) * 600
        BY <1>5, <4>1
      <4> QED BY <4>1, <4>2
    <3> QED BY <1>3, <2>2, <3>2, <3>3
  <2>3. CASE n # 0 /\ m = 0
    <3>1. stack.rows[1].top = 0 /\ Bottom(stack.rows[n]) + RowGap = stack.end
      BY <2>3 DEF Stacked
    <3>2. n + m = n /\ end = stack.end
      BY <1>2, <1>3, <2>3
    <3> QED BY <2>3, <3>1, <3>2
  <2>4. CASE n # 0 /\ m # 0
    <3>1. stack.rows[1].top = 0
      BY <2>4 DEF Stacked
    <3>2. Bottom(items[n + m]) + RowGap = stack.end + m * 600
      <4>1. n + m \in n + 1 .. n + m /\ n + m - n = m
        BY <2>4
      <4>2. Bottom(items[n + m]) + RowGap = stack.end + (n + m - n) * 600
        BY <1>5, <4>1
      <4> QED BY <4>1, <4>2
    <3> QED BY <1>3, <2>4, <3>1, <3>2
  <2> QED BY <2>1, <2>2, <2>3, <2>4
<1>9. \A i \in 1 .. n + m : items[i].top \in Nat /\ items[i].height \in Nat
  BY <1>4, <1>5, <1>6
<1> QED BY <1>3, <1>7, <1>8, <1>9 DEF Piled, end

\* The same on the canvas, drawn or culled.
Placed(T) == [trace : T, top : Int, height : Nat, drawn : BOOLEAN]

\* An item is moved as a whole, and culled by where it then is.
LEMMA MovedItem ==
  ASSUME NEW T, NEW item \in Item(T), NEW by \in Int, NEW top \in Int, NEW bottom \in Int
  PROVE  LET new == OnCanvas(item, by, top, bottom) IN
         /\ new \in Placed(T) /\ new.trace = item.trace
         /\ new.top = item.top + by /\ Bottom(new) = Bottom(item) + by
         /\ new.drawn = Near(new, top, bottom)
<1> DEFINE moved == [item EXCEPT !.top = @ + by]
           new == OnCanvas(item, by, top, bottom)
<1>1. item.trace \in T /\ item.top \in Nat /\ item.height \in Nat
  BY DEF Item
<1>2. moved.trace = item.trace /\ moved.top = item.top + by /\ moved.height = item.height
  BY DEF Item
<1> HIDE DEF moved
<1>3. Near(moved, top, bottom) \in BOOLEAN
  BY DEF Near
<1>4. new = [trace |-> moved.trace, top |-> moved.top, height |-> moved.height,
             drawn |-> Near(moved, top, bottom)]
  BY DEF OnCanvas, moved
<1> HIDE DEF new
<1>5. new.top = moved.top /\ new.height = moved.height
  BY <1>4
<1>6. Near(new, top, bottom) = Near(moved, top, bottom)
  BY <1>5 DEF Near
<1>7. Bottom(new) = Bottom(item) + by
  BY <1>1, <1>2, <1>5 DEF Bottom
<1>8. new \in Placed(T)
  BY <1>1, <1>2, <1>3, <1>4 DEF Placed
<1> QED BY <1>2, <1>4, <1>6, <1>7, <1>8 DEF new

\* What has a row: a request, or the work a worker does for it.
Things == Traces \cup (Traces \X Nat)

\* The items of a zone are stacked with the gap, culled by where they are, and
\* scrolled only as far as there are items.
LaidOut(z) ==
  LET k == Len(z.rows) + Len(z.work) IN
  /\ z.top \in Int /\ z.bottom \in Int /\ z.top <= z.bottom /\ z.scroll \in Int
  /\ z.rows \in Seq(Placed(Things)) /\ z.work \in Seq(Placed(Things))
  /\ DOMAIN Items(z) = 1 .. k /\ Len(Items(z)) = k /\ (k = 0 => Items(z) = <<>>)
  /\ \A i \in 1 .. Len(z.rows) : Items(z)[i] = z.rows[i]
  /\ \A i \in 1 .. k : /\ Items(z)[i].top \in Int /\ Items(z)[i].height \in Nat
                       /\ Items(z)[i].drawn = Near(Items(z)[i], z.top, z.bottom)
  /\ \A i, j \in 1 .. k : i < j => Bottom(Items(z)[i]) < Items(z)[j].top
  /\ k # 0 => /\ Items(z)[1].top <= z.top
              /\ Items(z)[1].top < z.top => Bottom(Items(z)[k]) + RowGap >= z.bottom

\* A tuple is a sequence.
LEMMA TupleIsSeq ==
  ASSUME NEW S, NEW k \in Nat, NEW f \in [1 .. k -> S]
  PROVE  f \in Seq(S) /\ Len(f) = k
OBVIOUS

\* Items as drawZone places them.
Moved(items, by, top, bottom) == [i \in DOMAIN items |-> OnCanvas(items[i], by, top, bottom)]

\* Items stay the same number, in the same order.
LEMMA ItemsMoved ==
  ASSUME NEW T, NEW k \in Nat, NEW items \in Seq(Item(T)), Len(items) = k,
         NEW by \in Int, NEW top \in Int, NEW bottom \in Int
  PROVE  LET u == Moved(items, by, top, bottom) IN
         /\ u \in Seq(Placed(T)) /\ Len(u) = k /\ DOMAIN u = 1 .. k
         /\ \A i \in 1 .. k : u[i] = OnCanvas(items[i], by, top, bottom)
<1> DEFINE u == Moved(items, by, top, bottom)
<1>1. DOMAIN items = 1 .. k
  OBVIOUS
<1>2. \A i \in 1 .. k : items[i] \in Item(T)
  BY <1>1
<1>3. \A i \in 1 .. k : u[i] = OnCanvas(items[i], by, top, bottom) /\ u[i] \in Placed(T)
  BY <1>1, <1>2, MovedItem DEF Moved
<1>4. u \in [1 .. k -> Placed(T)]
  BY <1>1, <1>3 DEF Moved
<1> HIDE DEF u
<1>5. u \in Seq(Placed(T)) /\ Len(u) = k /\ DOMAIN u = 1 .. k
  BY <1>4, TupleIsSeq
<1> QED BY <1>3, <1>5 DEF u

-----------------------------------------------------------------------------
(* A zone: its rows, and below them its work *)

\* How far a zone is scrolled: not before its first item, and no further than
\* there is something to see.
LEMMA Clamped ==
  ASSUME NEW offset \in Int, NEW content \in Nat, NEW room \in Nat
  PROVE  LET s == Scrolled(offset, content, room) IN
         s \in Nat /\ (s > 0 => s <= content - room)
BY DEF Scrolled, Larger, Smaller

\* A zone of n rows and m pieces of work is laid out.
LEMMA ZoneLaidOut ==
  ASSUME NEW band, band.top \in Int, band.bottom \in Int, NEW list, NEW stack, NEW n \in Nat,
         Stacked(stack, list, Things, n), NEW m \in Nat, NEW work \in [1 .. m -> Things], NEW offset \in Int
  PROVE  LET z == DrawZone(band, stack, work, offset) IN
         /\ LaidOut(z) /\ Len(z.rows) = n /\ \A i \in 1 .. n : z.rows[i].trace = list[i].trace
         /\ z.top = band.top + ZoneHeaderH /\ z.bottom = Larger(z.top, band.bottom)
<1> DEFINE top == band.top + ZoneHeaderH
           bottom == Larger(top, band.bottom)
           content == stack.end + m * (WorkRowH + RowGap)
           s == Scrolled(offset, content, bottom - top)
           by == top - s
           worked == [i \in DOMAIN work |->
                        [trace |-> work[i], top |-> stack.end + (i - 1) * (WorkRowH + RowGap),
                         height |-> WorkRowH]]
           u == [i \in DOMAIN stack.rows |-> OnCanvas(stack.rows[i], by, top, bottom)]
           v == [i \in DOMAIN worked |-> OnCanvas(worked[i], by, top, bottom)]
           items == stack.rows \o worked
           z == DrawZone(band, stack, work, offset)
<1>1. RowGap = 80 /\ WorkRowH = 520 /\ ZoneHeaderH = 460
  BY DEF RowGap, WorkRowH, ZoneHeaderH, Px
<1>2. stack.end \in Nat /\ stack.rows \in Seq(Item(Things)) /\ Len(stack.rows) = n
  BY DEF Stacked
<1>3. top \in Int /\ bottom \in Int /\ top <= bottom /\ bottom - top \in Nat
  BY <1>1 DEF Larger
<1>4. content \in Nat
  BY <1>1, <1>2
<1>5. s \in Nat /\ (s > 0 => s <= content - (bottom - top))
  <2> HIDE DEF content, top, bottom
  <2> QED BY <1>3, <1>4, Clamped
<1>6. by \in Int
  <2> HIDE DEF top, s
  <2> QED BY <1>3, <1>5
<1>7. work \in Seq(Things) /\ Len(work) = m
  BY TupleIsSeq
<1>8. worked \in [1 .. m -> Item(Things)]
  <2> SUFFICES ASSUME NEW i \in 1 .. m
               PROVE  [trace |-> work[i], top |-> stack.end + (i - 1) * (WorkRowH + RowGap),
                       height |-> WorkRowH] \in Item(Things)
    OBVIOUS
  <2>1. stack.end + (i - 1) * (WorkRowH + RowGap) \in Nat /\ WorkRowH \in Nat
    BY <1>1, <1>2
  <2> QED BY <2>1 DEF Item
<1>9. worked \in Seq(Item(Things)) /\ Len(worked) = m
  <2> HIDE DEF worked
  <2> QED BY <1>8, TupleIsSeq
<1>10. z = [top |-> top, bottom |-> bottom, scroll |-> s, content |-> content, rows |-> u, work |-> v]
  BY <1>7 DEF DrawZone
<1>11. \A i \in 1 .. m : worked[i] = [trace |-> work[i],
                                      top |-> stack.end + (i - 1) * (WorkRowH + RowGap),
                                      height |-> WorkRowH]
  OBVIOUS
<1>12. /\ z.top = top /\ z.bottom = bottom /\ z.scroll = s /\ z.rows = u /\ z.work = v
       /\ Items(z) = u \o v
  BY <1>10 DEF Items
<1>13. u = Moved(stack.rows, by, top, bottom) /\ v = Moved(worked, by, top, bottom)
  BY DEF Moved
<1> HIDE DEF worked, u, v, z, s, content, top, bottom, by
<1>14. /\ u \in Seq(Placed(Things)) /\ Len(u) = n /\ DOMAIN u = 1 .. n
       /\ \A i \in 1 .. n : u[i] = OnCanvas(stack.rows[i], by, top, bottom)
  BY <1>2, <1>3, <1>6, <1>13, ItemsMoved
<1>15. /\ v \in Seq(Placed(Things)) /\ Len(v) = m /\ DOMAIN v = 1 .. m
       /\ \A i \in 1 .. m : v[i] = OnCanvas(worked[i], by, top, bottom)
  BY <1>3, <1>6, <1>9, <1>13, ItemsMoved
<1>16. /\ Len(u \o v) = n + m /\ DOMAIN (u \o v) = 1 .. n + m
       /\ n + m = 0 => u \o v = <<>>
       /\ \A i \in 1 .. n : (u \o v)[i] = u[i]
       /\ \A i \in 1 .. m : (u \o v)[n + i] = v[i]
  <2>1. u \in Seq(Placed(Things)) /\ v \in Seq(Placed(Things)) /\ Len(u) = n /\ Len(v) = m
    BY <1>14, <1>15
  <2> QED BY <2>1
<1>17. /\ items \in Seq(Item(Things)) /\ Len(items) = n + m
       /\ \A i \in 1 .. n : items[i] = stack.rows[i]
       /\ \A i \in 1 .. m : items[n + i] = worked[i]
  <2> DEFINE rows == stack.rows
  <2>1. rows \in Seq(Item(Things)) /\ worked \in Seq(Item(Things)) /\ Len(rows) = n /\ Len(worked) = m
    BY <1>2, <1>9
  <2> HIDE DEF rows
  <2>2. /\ rows \o worked \in Seq(Item(Things)) /\ Len(rows \o worked) = n + m
        /\ \A i \in 1 .. n : (rows \o worked)[i] = rows[i]
        /\ \A i \in 1 .. m : (rows \o worked)[n + i] = worked[i]
    BY <2>1
  <2> QED BY <2>2 DEF rows
<1> HIDE DEF items
<1>18. \A i \in 1 .. m : items[n + i] = [trace |-> work[i],
                                         top |-> stack.end + (i - 1) * (WorkRowH + RowGap),
                                         height |-> WorkRowH]
  BY <1>11, <1>17
<1>19. Piled(items, n + m, content)
  <2>1. \A i \in 1 .. n : items[i] = stack.rows[i]
    BY <1>17
  <2> QED BY <1>18, <2>1, WorkBelow DEF content
<1>20. ASSUME NEW i \in 1 .. n + m
       PROVE  /\ Items(z)[i] \in Placed(Things) /\ Items(z)[i].drawn = Near(Items(z)[i], top, bottom)
              /\ Items(z)[i].top = items[i].top + by /\ Bottom(Items(z)[i]) = Bottom(items[i]) + by
              /\ items[i] \in Item(Things)
  <2>1. items[i] \in Item(Things)
    BY <1>17
  <2>2. Items(z)[i] = OnCanvas(items[i], by, top, bottom)
    <3>1. CASE i \in 1 .. n
      BY <1>12, <1>14, <1>16, <1>17, <3>1
    <3>2. CASE i \notin 1 .. n
      <4> DEFINE j == i - n
      <4>1. j \in 1 .. m /\ n + j = i
        BY <3>2
      <4> HIDE DEF j
      <4>2. (u \o v)[n + j] = v[j] /\ items[n + j] = worked[j]
            /\ v[j] = OnCanvas(worked[j], by, top, bottom)
        BY <1>15, <1>16, <1>17, <4>1
      <4> QED BY <1>12, <4>1, <4>2
    <3> QED BY <3>1, <3>2
  <2> QED BY <1>3, <1>6, <2>1, <2>2, MovedItem
<1>21. ASSUME NEW i \in 1 .. n + m, NEW j \in 1 .. n + m, i < j
       PROVE  Bottom(Items(z)[i]) < Items(z)[j].top
  <2>1. Bottom(items[i]) + RowGap <= items[j].top
    BY <1>19, <1>21 DEF Piled
  <2>2. items[i].top \in Nat /\ items[i].height \in Nat /\ items[j].top \in Nat
    BY <1>19 DEF Piled
  <2>3. Bottom(items[i]) \in Nat
    BY <2>2 DEF Bottom
  <2>4. Bottom(Items(z)[i]) = Bottom(items[i]) + by /\ Items(z)[j].top = items[j].top + by
    BY <1>20
  <2> QED BY <1>1, <1>6, <2>1, <2>2, <2>3, <2>4
<1>22. ASSUME n + m # 0
       PROVE  /\ Items(z)[1].top <= top
              /\ Items(z)[1].top < top => Bottom(Items(z)[n + m]) + RowGap >= bottom
  <2>1. items[1].top = 0 /\ Bottom(items[n + m]) + RowGap = content
    BY <1>19, <1>22 DEF Piled
  <2>2. 1 \in 1 .. n + m /\ n + m \in 1 .. n + m
    BY <1>22
  <2>3. Items(z)[1].top = by
    BY <1>6, <1>20, <2>1, <2>2
  <2>4. Bottom(Items(z)[n + m]) = Bottom(items[n + m]) + by
    BY <1>20, <2>2
  <2>5. Bottom(items[n + m]) \in Int
    <3>1. items[n + m].top \in Nat /\ items[n + m].height \in Nat
      BY <1>19, <2>2 DEF Piled
    <3> QED BY <3>1 DEF Bottom
  <2> DEFINE last == Bottom(items[n + m])
  <2> HIDE DEF last
  <2>6. last \in Int /\ last + 80 = content /\ Bottom(Items(z)[n + m]) = last + by
    BY <1>1, <2>1, <2>4, <2>5 DEF last
  <2>7. by = top - s
    BY DEF by
  <2> QED BY <1>1, <1>3, <1>4, <1>5, <2>3, <2>6, <2>7
<1>23. \A i \in 1 .. n : z.rows[i].trace = list[i].trace
  <2> SUFFICES ASSUME NEW i \in 1 .. n PROVE u[i].trace = list[i].trace
    BY <1>12
  <2>1. stack.rows[i] \in Item(Things)
    BY <1>2
  <2>2. u[i] = OnCanvas(stack.rows[i], by, top, bottom)
    BY <1>14
  <2>3. u[i].trace = stack.rows[i].trace
    BY <1>3, <1>6, <2>1, <2>2, MovedItem
  <2> QED BY <2>3 DEF Stacked
<1>24. LaidOut(z)
  <2>1. /\ Len(z.rows) = n /\ Len(z.work) = m
        /\ z.rows \in Seq(Placed(Things)) /\ z.work \in Seq(Placed(Things))
        /\ DOMAIN Items(z) = 1 .. n + m /\ Len(Items(z)) = n + m
        /\ (n + m = 0 => Items(z) = <<>>)
        /\ \A i \in 1 .. n : Items(z)[i] = z.rows[i]
    BY <1>12, <1>14, <1>15, <1>16
  <2>2. \A i \in 1 .. n + m : /\ Items(z)[i].top \in Int /\ Items(z)[i].height \in Nat
                              /\ Items(z)[i].drawn = Near(Items(z)[i], z.top, z.bottom)
    BY <1>12, <1>20 DEF Placed
  <2>3. z.top \in Int /\ z.bottom \in Int /\ z.top <= z.bottom /\ z.scroll \in Int
    BY <1>3, <1>5, <1>12
  <2>4. n + m # 0 => /\ Items(z)[1].top <= z.top
                     /\ Items(z)[1].top < z.top => Bottom(Items(z)[n + m]) + RowGap >= z.bottom
    BY <1>12, <1>22
  <2> QED BY <1>21, <2>1, <2>2, <2>3, <2>4 DEF LaidOut
<1>25. Len(z.rows) = n
  BY <1>12, <1>14
<1> QED BY <1>12, <1>23, <1>24, <1>25 DEF z, top, bottom

-----------------------------------------------------------------------------
(* There are finitely many rows, and they can be laid out *)

\* There are finitely many rows, because they are numbered.
LEMMA RowsFinite ==
  ASSUME NEW d \in Dash, Ages(d)
  PROVE  IsFiniteSet(DOMAIN d.rows)
<1> DEFINE f == [r \in DOMAIN d.rows |-> d.rows[r].seq]
           N == 0 .. d.nextSeq
<1>1. d.nextSeq \in Nat
  BY DEF Dash
<1>2. \A r \in DOMAIN d.rows : d.rows[r].seq \in Nat
  BY ClientTypes DEF Row
<1>3. f \in [DOMAIN d.rows -> N]
  BY <1>1, <1>2 DEF Ages
<1>4. IsInjective(f)
  BY DEF IsInjective, Ages
<1>5. f \in Injection(DOMAIN d.rows, N)
  <2> HIDE DEF f, N
  <2> QED BY <1>3, <1>4 DEF Injection
<1>6. IsFiniteSet(N)
  BY <1>1, FS_Interval
<1> QED BY <1>5, <1>6, FS_Injection

\* There are finitely many frames.
LEMMA NodesFinite == ASSUME world.nodes \in Nat PROVE IsFiniteSet(Nodes)
<1>1. IsFiniteSet(1 .. world.nodes)
  BY FS_Interval
<1> QED BY <1>1 DEF Nodes

\* A row has some height, whatever its tree.
LEMMA RowHeightType ==
  ASSUME world.nodes \in Nat, NEW row \in Row, NEW r, NEW opens, NEW h \in Nat
  PROVE  RowHeight(row, r \in opens, h) \in Nat
<1> DEFINE k == Cardinality(Leaves(row))
           most == (RowExpandedMaxFrac * h) \div Unit
<1>1. k \in Nat
  <2>1. DOMAIN row.nodes \subseteq Nodes
    BY TreesAre DEF Row
  <2>2. IsFiniteSet(Nodes \cup {Root})
    BY NodesFinite, FS_AddElement
  <2>3. Leaves(row) \in SUBSET (Nodes \cup {Root})
    BY <2>1 DEF Leaves, Tree
  <2> QED BY <2>2, <2>3, FS_Subset, FS_CardinalityType
<1>2. most \in Int
  BY DEF RowExpandedMaxFrac, Unit
<1> HIDE DEF k, most
<1>3. Metrics(row).leaves = k
  BY DEF Metrics, k
<1>4. RowHeight(row, r \in opens, h) =
        IF ~ (r \in opens) THEN RowCollapsedH
        ELSE Larger(RowExpandedMin, Smaller(most, k * SiblingGap + 40 * Px))
  BY <1>3 DEF RowHeight, most
<1> QED BY <1>1, <1>2, <1>4 DEF RowCollapsedH, RowExpandedMin, SiblingGap, Px, Larger, Smaller

\* The rows of a zone: each of them once, in the order they came.
InTurn(d, S, list, n) ==
  /\ \A i \in 1 .. n : list[i].trace \in S
  /\ \A r \in S : \E i \in 1 .. n : list[i].trace = r
  /\ \A i, j \in 1 .. n : i < j => d.rows[list[i].trace].seq < d.rows[list[j].trace].seq

\* The rows of a zone are stacked in the order they came.
LEMMA RowsStacked ==
  ASSUME world.nodes \in Nat, NEW d \in Dash, Ages(d), NEW S \in SUBSET DOMAIN d.rows,
         NEW opens, NEW h \in Nat, NEW T, Traces \subseteq T
  PROVE  /\ Cardinality(S) \in Nat
         /\ \E list : Stacked(LayoutRowList(d, S, opens, h), list, T, Cardinality(S))
                      /\ InTurn(d, S, list, Cardinality(S))
<1> DEFINE n == Cardinality(S)
           key == [r \in S |-> d.rows[r].seq]
           order == InOrder(S, key)
           list == [i \in DOMAIN order |->
                      [trace |-> order[i],
                       height |-> RowHeight(d.rows[order[i]], order[i] \in opens, h)]]
<1>1. IsFiniteSet(S)
  BY RowsFinite, FS_Subset
<1>2. \A r \in S : d.rows[r] \in Row /\ r \in Traces /\ d.rows[r].seq \in Nat /\ key[r] = d.rows[r].seq
  BY ClientTypes DEF Row
<1>3. \A r \in S : key[r] \in Nat
  BY <1>2
<1>4. /\ n \in Nat /\ order \in [1 .. n -> S] /\ Rising(order, key)
      /\ \A r \in S : \E i \in 1 .. n : order[i] = r
  <2> HIDE DEF key
  <2> QED BY <1>1, <1>3, OrderIs
<1> HIDE DEF key, order
<1>5. DOMAIN order = 1 .. n /\ \A i \in 1 .. n : order[i] \in S
  BY <1>4
<1>6. list \in [1 .. n -> [trace : T, height : Nat]]
  <2> SUFFICES ASSUME NEW i \in 1 .. n
               PROVE  [trace |-> order[i],
                       height |-> RowHeight(d.rows[order[i]], order[i] \in opens, h)]
                        \in [trace : T, height : Nat]
    BY <1>5
  <2>1. order[i] \in T /\ d.rows[order[i]] \in Row
    BY <1>2, <1>5
  <2>2. RowHeight(d.rows[order[i]], order[i] \in opens, h) \in Nat
    BY <2>1, RowHeightType
  <2> QED BY <2>1, <2>2
<1>7. \A i \in 1 .. n : list[i].trace = order[i]
  BY <1>5
<1>8. LayoutRowList(d, S, opens, h) = FoldLeft(Place, [rows |-> <<>>, end |-> 0], list)
  BY DEF LayoutRowList, order, key
<1> HIDE DEF list, n
<1>9. Stacked(LayoutRowList(d, S, opens, h), list, T, n)
  BY <1>4, <1>6, <1>8, AllPlaced
<1>10. ASSUME NEW i \in 1 .. n, NEW j \in 1 .. n, i < j
       PROVE  d.rows[order[i]].seq < d.rows[order[j]].seq
  <2>1. key[order[i]] <= key[order[j]]
    BY <1>5, <1>10, <1>4 DEF Rising
  <2>2. order[i] # order[j]
    BY <1>4, <1>5, <1>10 DEF Rising, IsInjective
  <2>3. d.rows[order[i]].seq # d.rows[order[j]].seq
    BY <1>5, <2>2 DEF Ages
  <2> QED BY <1>2, <1>5, <2>1, <2>3
<1>11. InTurn(d, S, list, n)
  BY <1>4, <1>5, <1>7, <1>10 DEF InTurn
<1> QED BY <1>4, <1>9, <1>11 DEF n

\* There is finitely much work.
LEMMA WorkListed ==
  ASSUME world.nodes \in Nat, NEW d \in Dash, Ages(d), NEW terms
  PROVE  \E m \in Nat : PoolWork(d, terms) \in [1 .. m -> Traces \X Nodes]
<1> DEFINE items == {w \in d.workers : Has(d, w[1]) /\ Matches(d, w[1], terms)}
           key == [w \in items |-> w[2]]
<1>1. d.workers \subseteq Traces \X Nodes
  BY DEF Dash
<1>2. items \in SUBSET ((DOMAIN d.rows) \X Nodes) /\ items \subseteq Traces \X Nodes
  <2> SUFFICES ASSUME NEW w \in items PROVE w \in (DOMAIN d.rows) \X Nodes /\ w \in Traces \X Nodes
    OBVIOUS
  <2>1. w \in Traces \X Nodes /\ w[1] \in DOMAIN d.rows
    BY <1>1 DEF Has
  <2>2. PICK r \in Traces, n \in Nodes : w = <<r, n>>
    BY <2>1
  <2> QED BY <2>1, <2>2
<1>3. IsFiniteSet(items)
  <2>1. IsFiniteSet((DOMAIN d.rows) \X Nodes)
    <3>1. IsFiniteSet(DOMAIN d.rows) /\ IsFiniteSet(Nodes)
      BY RowsFinite, NodesFinite
    <3> DEFINE D == DOMAIN d.rows
    <3> HIDE DEF D
    <3>2. IsFiniteSet(D) /\ IsFiniteSet(Nodes)
      BY <3>1 DEF D
    <3>3. IsFiniteSet(D \X Nodes)
      BY <3>2, FS_Product, Zenon
    <3> QED BY <3>3 DEF D
  <2> HIDE DEF items
  <2> QED BY <1>2, <2>1, FS_Subset
<1>4. \A w \in items : key[w] \in Nat
  BY <1>1 DEF Nodes
<1>5. PoolWork(d, terms) = InOrder(items, key)
  BY DEF PoolWork
<1> HIDE DEF items, key
<1>6. Cardinality(items) \in Nat /\ InOrder(items, key) \in [1 .. Cardinality(items) -> items]
  BY <1>3, <1>4, OrderIs
<1> QED BY <1>2, <1>5, <1>6

-----------------------------------------------------------------------------
(* A frame *)

\* What a frame always is: two zones, laid out, the lower one below the upper one.
Sound(f) ==
  /\ LaidOut(f.loop) /\ LaidOut(f.pool)
  /\ f.divider \in Nat
  /\ f.loop.bottom < f.pool.top

\* The bands of a frame, on either side of a clamped divider.
Banded(f) ==
  \E y \in Int :
    /\ f.divider = ClampDividerY(size.h, y)
    /\ f.loop.top = ZoneTop + ZoneHeaderH
    /\ f.loop.bottom = Larger(f.loop.top, f.divider - ZoneDivGap)
    /\ f.pool.top = f.divider + ZoneDivGap + ZoneHeaderH
    /\ f.pool.bottom = Larger(f.pool.top, size.h - ZoneBottomMargin)

\* What it is as long as it is fresh: it shows the rows there are.
Faithful(f) ==
  /\ Banded(f)
  /\ \A z \in Zones : InTurn(dash, Listed(dash, filter, z), f[z].rows, Len(f[z].rows))

\* A zone of rows and work.
LEMMA ZoneRendered ==
  ASSUME world.nodes \in Nat, dash \in Dash, Ages(dash), size.h \in Nat,
         NEW S \in SUBSET DOMAIN dash.rows, NEW band, band.top \in Int, band.bottom \in Int,
         NEW m \in Nat, NEW work \in [1 .. m -> Things], NEW offset \in Int
  PROVE  LET z == DrawZone(band, LayoutRowList(dash, S, open, size.h), work, offset) IN
         /\ LaidOut(z) /\ InTurn(dash, S, z.rows, Len(z.rows))
         /\ z.top = band.top + ZoneHeaderH /\ z.bottom = Larger(z.top, band.bottom)
<1> DEFINE stack == LayoutRowList(dash, S, open, size.h)
           n == Cardinality(S)
           z == DrawZone(band, stack, work, offset)
<1>1. Traces \subseteq Things
  BY DEF Things
<1>2. n \in Nat
  BY RowsStacked, <1>1
<1>3. PICK list : Stacked(stack, list, Things, n) /\ InTurn(dash, S, list, n)
  BY RowsStacked, <1>1
<1> HIDE DEF stack, n
<1>4. /\ LaidOut(z) /\ Len(z.rows) = n /\ \A i \in 1 .. n : z.rows[i].trace = list[i].trace
      /\ z.top = band.top + ZoneHeaderH /\ z.bottom = Larger(z.top, band.bottom)
  <2>1. Stacked(stack, list, Things, n)
    BY <1>3
  <2> QED BY <1>2, <2>1, ZoneLaidOut
<1> HIDE DEF z
<1>5. InTurn(dash, S, z.rows, n)
  BY <1>3, <1>4 DEF InTurn
<1> QED BY <1>4, <1>5 DEF z, stack

\* A frame that is painted is sound, and shows the rows there are.
LEMMA Rendered ==
  ASSUME world.nodes \in Nat, dash \in Dash, Ages(dash), size.h \in Nat, split \in Nat \cup {None},
         NEW at \in [loop : Int, pool : Int]
  PROVE  /\ Sound(Render(at)) /\ Faithful(Render(at))
         /\ Render(at).loop.scroll \in Int /\ Render(at).pool.scroll \in Int
<1> DEFINE onLoop == Listed(dash, filter, "loop")
           inPool == Listed(dash, filter, "pool")
           work == PoolWork(dash, filter)
           all == Cardinality(onLoop) + Cardinality(inPool) + Len(work)
           divider == DividerY(size.h, split, Cardinality(onLoop), all)
           upper == [top |-> ZoneTop, bottom |-> divider - ZoneDivGap]
           idle == <<>>
           zero == 0
           lower == [top |-> divider + ZoneDivGap, bottom |-> size.h - ZoneBottomMargin]
           loop == DrawZone(upper, LayoutRowList(dash, onLoop, open, size.h), idle, at.loop)
           pool == DrawZone(lower, LayoutRowList(dash, inPool, open, size.h), work, at.pool)
           f == Render(at)
<1>1. onLoop \in SUBSET DOMAIN dash.rows /\ inPool \in SUBSET DOMAIN dash.rows
  BY DEF Listed
<1>2. PICK m \in Nat : work \in [1 .. m -> Traces \X Nodes]
  BY WorkListed
<1>3. f = [divider |-> divider, loop |-> loop, pool |-> pool]
  BY DEF Render
<1> HIDE DEF work, onLoop, inPool
<1>4. work \in [1 .. m -> Things] /\ Len(work) = m
  <2>1. Nodes \subseteq Nat
    BY DEF Nodes
  <2>2. Traces \X Nodes \subseteq Things
    BY <2>1 DEF Things
  <2>3. work \in [1 .. m -> Things]
    BY <1>2, <2>2
  <2> QED BY <2>3, TupleIsSeq
<1>5. Cardinality(onLoop) \in Nat /\ Cardinality(inPool) \in Nat
  <2>1. IsFiniteSet(onLoop) /\ IsFiniteSet(inPool)
    BY <1>1, RowsFinite, FS_Subset
  <2> QED BY <2>1, FS_CardinalityType
<1>6. all \in Nat
  BY <1>4, <1>5
<1> HIDE DEF all
<1>7. None \notin Nat
  BY DashboardAssumption
<1>8. PICK y \in Int : divider = ClampDividerY(size.h, y)
  BY <1>5, <1>6, <1>7, DividerOfFrame
<1>9. divider \in Nat /\ divider >= 80
  <2>1. ClampDividerY(size.h, y) \in Nat /\ ClampDividerY(size.h, y) >= ZoneTop
    BY DividerClamped
  <2> HIDE DEF divider
  <2> QED BY <1>8, <2>1 DEF ZoneTop, Px
<1> HIDE DEF divider
<1>10. /\ ZoneTop = 80 /\ ZoneDivGap = 70 /\ ZoneHeaderH = 460 /\ ZoneBottomMargin = 80
  BY DEF ZoneTop, ZoneDivGap, ZoneHeaderH, ZoneBottomMargin, Px
<1>11. /\ upper.top = ZoneTop /\ upper.bottom = divider - ZoneDivGap
       /\ lower.top = divider + ZoneDivGap /\ lower.bottom = size.h - ZoneBottomMargin
       /\ {upper.top, upper.bottom, lower.top, lower.bottom} \subseteq Int
  BY <1>9, <1>10
<1>12. at.loop \in Int /\ at.pool \in Int /\ idle \in [1 .. zero -> Things] /\ zero \in Nat
  OBVIOUS
<1> HIDE DEF upper, lower, idle, zero
<1>13. /\ LaidOut(loop) /\ InTurn(dash, onLoop, loop.rows, Len(loop.rows))
       /\ loop.top = upper.top + ZoneHeaderH /\ loop.bottom = Larger(loop.top, upper.bottom)
  <2>1. upper.top \in Int /\ upper.bottom \in Int
    BY <1>11
  <2> QED BY <1>1, <1>12, <2>1, ZoneRendered
<1>14. /\ LaidOut(pool) /\ InTurn(dash, inPool, pool.rows, Len(pool.rows))
       /\ pool.top = lower.top + ZoneHeaderH /\ pool.bottom = Larger(pool.top, lower.bottom)
  <2>1. lower.top \in Int /\ lower.bottom \in Int /\ at.pool \in Int
    BY <1>11, <1>12
  <2> QED BY <1>1, <1>4, <2>1, ZoneRendered
<1> HIDE DEF loop, pool
<1>15. f.loop = loop /\ f.pool = pool /\ f.divider = divider
  BY <1>3
<1> HIDE DEF f
<1>16. loop.bottom < pool.top
  BY <1>9, <1>10, <1>11, <1>13, <1>14 DEF Larger
<1>17. Sound(f)
  BY <1>9, <1>13, <1>14, <1>15, <1>16 DEF Sound
<1>18. Banded(f)
  BY <1>8, <1>11, <1>13, <1>14, <1>15 DEF Banded
<1>19. Faithful(f)
  BY <1>13, <1>14, <1>15, <1>18 DEF Faithful, Zones, onLoop, inPool
<1>20. loop.scroll \in Int /\ pool.scroll \in Int
  BY <1>13, <1>14 DEF LaidOut
<1> QED BY <1>15, <1>17, <1>19, <1>20 DEF f

\* In a band of its own, each zone has room.
LEMMA BandsOfFrame ==
  ASSUME size.h \in Nat, Banded(frame)
  PROVE  BandsAreKept
<1> DEFINE h == size.h
           d == frame.divider
<1>1. PICK y \in Int :
        /\ d = ClampDividerY(h, y)
        /\ frame.loop.top = ZoneTop + ZoneHeaderH
        /\ frame.loop.bottom = Larger(frame.loop.top, d - ZoneDivGap)
        /\ frame.pool.top = d + ZoneDivGap + ZoneHeaderH
        /\ frame.pool.bottom = Larger(frame.pool.top, h - ZoneBottomMargin)
  BY DEF Banded
<1>2. /\ ZoneTop = 80 /\ ZoneDivGap = 70 /\ ZoneHeaderH = 460 /\ ZoneBottomMargin = 80
      /\ ZoneMinPx = 1180 /\ RowCollapsedH = 640
  BY DEF ZoneTop, ZoneDivGap, ZoneHeaderH, ZoneBottomMargin, ZoneMinPx, RowCollapsedH, Px
<1>3. /\ d \in Nat /\ d >= 80 /\ Avail(h) \in Nat
      /\ IF Avail(h) < 2360 THEN d = 80 + Avail(h) \div 2 ELSE d >= 1260 /\ d <= h - 1260
  BY <1>1, <1>2, DividerClamped
<1>4. Avail(h) = IF 400 > h - 160 THEN 400 ELSE h - 160
  BY <1>2 DEF Avail, Larger, Px
<1>5. /\ frame.loop.top = 540 /\ frame.loop.bottom = Larger(540, d - 70)
      /\ frame.pool.top = d + 530 /\ frame.pool.bottom = Larger(d + 530, h - 80)
  BY <1>1, <1>2, <1>3
<1>6. CASE Avail(h) >= 2360
  <2>1. d >= 1260 /\ d <= h - 1260
    BY <1>3, <1>6
  <2>2. frame.loop.bottom = d - 70 /\ frame.pool.bottom = h - 80
    BY <1>3, <1>5, <2>1 DEF Larger
  <2>3. Room(frame["loop"]) >= 640 /\ Room(frame["pool"]) >= 640
    BY <1>3, <1>5, <2>1, <2>2 DEF Room
  <2>4. \A z \in Zones : Room(frame[z]) >= RowCollapsedH
    BY <1>2, <2>3 DEF Zones
  <2>5. /\ frame.loop.bottom < d /\ d < frame.pool.top - ZoneHeaderH
        /\ frame.pool.bottom <= h
    BY <1>2, <1>3, <1>5, <2>2
  <2> QED BY <1>2, <1>6, <2>4, <2>5 DEF BandsAreKept
<1>7. CASE Avail(h) < 2360
  <2>1. Room(frame.loop) - Room(frame.pool) \in -1 .. 1
    <3> DEFINE half == Avail(h) \div 2
    <3>1. half \in Nat /\ 2 * half <= Avail(h) /\ Avail(h) <= 2 * half + 1
      BY <1>3
    <3>2. d = 80 + half
      BY <1>3, <1>7
    <3> HIDE DEF half
    <3> QED BY <1>4, <1>5, <3>1, <3>2 DEF Room, Larger
  <2>2. ~ (Avail(size.h) >= 2 * ZoneMinPx)
    BY <1>2, <1>3, <1>7
  <2> QED BY <2>1, <2>2 DEF BandsAreKept
<1> QED BY <1>3, <1>6, <1>7

\* What is in sight of a zone is never culled.
LEMMA SeenIsDrawn ==
  ASSUME NEW item, item.top \in Int, item.height \in Nat, NEW zone, zone.top \in Int,
         zone.bottom \in Int, Visible(item, zone)
  PROVE  Near(item, zone.top, zone.bottom)
<1> DEFINE half == item.height \div 2
<1>1. half \in Nat /\ half <= item.height
  OBVIOUS
<1> HIDE DEF half
<1>2. item.top < zone.bottom /\ item.top + item.height > zone.top
  BY DEF Visible, Bottom
<1>3. item.top + half >= zone.top - item.height
  BY <1>1, <1>2
<1>4. item.top + half <= zone.bottom + item.height
  BY <1>1, <1>2
<1> QED BY <1>3, <1>4 DEF Near, half

\* A zone that is laid out with the rows there are is in order.
LEMMA StackedRows ==
  ASSUME Sound(frame), Faithful(frame)
  PROVE  RowsAreStacked
<1> SUFFICES ASSUME NEW z \in Zones
             PROVE  LET zone == frame[z]
                        items == Items(zone)
                        seq(i) == dash.rows[zone.rows[i].trace].seq
                    IN /\ {zone.rows[i].trace : i \in DOMAIN zone.rows} = Listed(dash, filter, z)
                       /\ \A i, j \in DOMAIN zone.rows : i < j => seq(i) < seq(j)
                       /\ \A i, j \in DOMAIN items : i < j => Bottom(items[i]) < items[j].top
                       /\ \A i \in DOMAIN items : Visible(items[i], zone) => items[i].drawn
                       /\ items # <<>> =>
                            /\ items[1].top <= zone.top
                            /\ items[1].top < zone.top => Bottom(Last(items)) + RowGap >= zone.bottom
  BY DEF RowsAreStacked
<1> DEFINE zone == frame[z]
           items == Items(zone)
           n == Len(zone.rows)
           k == Len(zone.rows) + Len(zone.work)
<1>1. LaidOut(zone)
  BY DEF Sound, Zones
<1>2. InTurn(dash, Listed(dash, filter, z), zone.rows, n)
  BY DEF Faithful
<1> HIDE DEF zone
<1>3. /\ zone.rows \in Seq(Placed(Things)) /\ zone.work \in Seq(Placed(Things))
      /\ zone.top \in Int /\ zone.bottom \in Int
  BY <1>1 DEF LaidOut
<1>4. DOMAIN zone.rows = 1 .. n /\ n \in Nat /\ k \in Nat
  <2>1. Len(zone.rows) \in Nat /\ DOMAIN zone.rows = 1 .. Len(zone.rows)
    BY <1>3
  <2>2. Len(zone.work) \in Nat
    BY <1>3
  <2> DEFINE m == Len(zone.work)
  <2>3. n \in Nat /\ m \in Nat /\ DOMAIN zone.rows = 1 .. n /\ k = n + m
    BY <2>1, <2>2
  <2> HIDE DEF n, m, k
  <2> QED BY <2>3
<1>5. /\ DOMAIN items = 1 .. k /\ Len(items) = k /\ (k = 0 => items = <<>>)
      /\ \A i \in 1 .. k : /\ items[i].top \in Int /\ items[i].height \in Nat
                           /\ items[i].drawn = Near(items[i], zone.top, zone.bottom)
      /\ \A i, j \in 1 .. k : i < j => Bottom(items[i]) < items[j].top
      /\ k # 0 => /\ items[1].top <= zone.top
                  /\ items[1].top < zone.top => Bottom(items[k]) + RowGap >= zone.bottom
  BY <1>1 DEF LaidOut
<1> HIDE DEF items, n, k
<1>6. {zone.rows[i].trace : i \in DOMAIN zone.rows} = Listed(dash, filter, z)
  BY <1>2, <1>4 DEF InTurn
<1>7. \A i, j \in DOMAIN zone.rows :
        i < j => dash.rows[zone.rows[i].trace].seq < dash.rows[zone.rows[j].trace].seq
  BY <1>2, <1>4 DEF InTurn
<1>8. \A i \in DOMAIN items : Visible(items[i], zone) => items[i].drawn
  BY <1>3, <1>5, SeenIsDrawn
<1>9. Last(items) = items[k]
  BY <1>5 DEF Last
<1> QED BY <1>5, <1>6, <1>7, <1>8, <1>9 DEF items, zone

-----------------------------------------------------------------------------
(* What the view keeps *)

\* What every step of the view keeps.
ViewInv ==
  /\ scroll \in [loop : Int, pool : Int]
  /\ size.h \in Nat
  /\ split \in Nat \cup {None}
  /\ since \in Nat
  /\ Sound(frame)
  /\ Fresh => Faithful(frame)

\* What the view does, the dashboard allows: it only adds to what "clear" and the
\* events do.
LEMMA ViewStep ==
  ASSUME [VNext]_<<vars, view>>
  PROVE  [Next]_vars
<1>1. CASE UNCHANGED <<vars, view>>
  BY <1>1
<1>2. CASE Feed
  BY <1>2 DEF Feed, Next
<1>3. CASE Paint \/ Pass
  BY <1>3 DEF Paint, Pass
<1>4. ASSUME NEW y \in Ys, Click(y) \/ Move(y) \/ \E dy \in Wheels : Wheel(y, dy) PROVE UNCHANGED vars
  BY <1>4 DEF Click, Move, Wheel
<1>5. CASE \E which \in {"guide", "request"} : Tab(which)
  BY <1>5 DEF Tab
<1>6. CASE (\E by \in Grabs : Grab(by)) \/ Release \/ Cancel \/ Unpin
  BY <1>6 DEF Grab, Release, Cancel, Unpin
<1>7. CASE (\E s \in world.sizes : Resize(s)) \/ \E terms \in Filters : ApplyFilter(terms)
  BY <1>7 DEF Resize, ApplyFilter
<1>8. CASE ClearAll
  BY <1>8 DEF ClearAll, Next
<1> QED BY <1>1, <1>2, <1>3, <1>4, <1>5, <1>6, <1>7, <1>8 DEF VNext

\* What rendering needs of the dashboard.
LEMMA Renderable ==
  ASSUME IInv
  PROVE  world.nodes \in Nat /\ dash \in Dash /\ Ages(dash) /\ world \in Worlds
BY ServerFacts DEF IInv, ServerOK, ClientOK

\* A step that does not paint keeps the frame, and it is no longer fresh.
LEMMA NotPainted ==
  ASSUME ViewInv, Busy, UNCHANGED frame,
         scroll' \in [loop : Int, pool : Int], size'.h \in Nat, split' \in Nat \cup {None}
  PROVE  ViewInv'
<1>1. since' \in Nat /\ since' # 0
  BY DEF ViewInv, Busy
<1>2. Sound(frame')
  BY DEF ViewInv
<1> QED BY <1>1, <1>2 DEF ViewInv, Fresh

\* A frame is painted.
LEMMA Painted ==
  ASSUME IInv, ViewInv, Paint
  PROVE  ViewInv'
<1> DEFINE new == Render(scroll)
<1>1. /\ Sound(new) /\ Faithful(new) /\ new.loop.scroll \in Int /\ new.pool.scroll \in Int
  BY Renderable, Rendered DEF ViewInv
<1>2. /\ frame' = new /\ scroll' = [loop |-> frame'.loop.scroll, pool |-> frame'.pool.scroll]
      /\ since' = 0 /\ UNCHANGED <<dash, filter, size, split>>
  BY DEF Paint, vars
<1> HIDE DEF new
<1>3. Sound(frame')
  BY <1>1, <1>2
<1>4. Faithful(frame)'
  BY <1>1, <1>2 DEF Faithful, Banded
<1>5. scroll' \in [loop : Int, pool : Int]
  BY <1>1, <1>2
<1>6. size'.h \in Nat /\ split' \in Nat \cup {None}
  BY <1>2 DEF ViewInv
<1> QED BY <1>2, <1>3, <1>4, <1>5, <1>6 DEF ViewInv

\* Every step of the view keeps it.
LEMMA ViewInductive ==
  ASSUME IInv, ViewInv, [VNext]_<<vars, view>>
  PROVE  ViewInv'
<1>1. CASE UNCHANGED <<vars, view>>
  BY <1>1 DEF ViewInv, Fresh, Faithful, Banded, vars, view, canvas
<1>2. CASE Feed
  <2>1. Busy /\ UNCHANGED <<canvas, frame>>
    BY <1>2 DEF Feed
  <2> QED BY <2>1, NotPainted DEF ViewInv, canvas
<1>3. CASE Paint
  BY <1>3, Painted
<1>4. CASE Pass
  BY <1>4 DEF Pass, ViewInv, Fresh, Faithful, Banded, vars, canvas
<1>5. ASSUME NEW y \in Ys, Click(y) PROVE ViewInv'
  <2>1. Busy /\ UNCHANGED <<canvas, frame>>
    BY <1>5 DEF Click, Does
  <2> QED BY <2>1, NotPainted DEF ViewInv, canvas
<1>6. ASSUME NEW y \in Ys, Move(y) PROVE ViewInv'
  <2>1. Busy /\ UNCHANGED <<scroll, size, frame>> /\ split' = FracFromY(size.h, y) /\ y \in Int
    BY <1>6, ViewAssumption DEF Move, Does
  <2>2. split' \in Nat
    BY <2>1, FractionType DEF ViewInv
  <2> QED BY <2>1, <2>2, NotPainted DEF ViewInv
<1>7. ASSUME NEW y \in Ys, NEW dy \in Wheels, Wheel(y, dy) PROVE ViewInv'
  <2>1. Busy /\ UNCHANGED <<split, size, frame>> /\ dy \in Int
    BY <1>7, ViewAssumption DEF Wheel, Does
  <2>2. scroll \in [loop : Int, pool : Int]
    BY DEF ViewInv
  <2>3. scroll' \in [loop : Int, pool : Int]
    BY <1>7, <2>1, <2>2 DEF Wheel
  <2> QED BY <2>1, <2>3, NotPainted DEF ViewInv
<1>8. ASSUME NEW which, Tab(which) PROVE ViewInv'
  <2>1. Busy /\ UNCHANGED <<canvas, frame>>
    BY <1>8 DEF Tab, Does
  <2> QED BY <2>1, NotPainted DEF ViewInv, canvas
<1>9. ASSUME NEW by \in Grabs, Grab(by) PROVE ViewInv'
  <2>1. Busy /\ UNCHANGED <<scroll, size, frame>> /\ split' = FracFromY(size.h, frame.divider + by)
    BY <1>9 DEF Grab, Does
  <2>2. frame.divider + by \in Int /\ size.h \in Nat
    BY ViewAssumption DEF ViewInv, Sound, DividerGrab, Px
  <2>3. split' \in Nat
    BY <2>1, <2>2, FractionType
  <2> QED BY <2>1, <2>3, NotPainted DEF ViewInv
<1>10. CASE Release \/ Cancel
  <2>1. Busy /\ UNCHANGED <<scroll, size, split, frame>>
    BY <1>10 DEF Release, Cancel, Does
  <2> QED BY <2>1, NotPainted DEF ViewInv
<1>11. CASE Unpin
  <2>1. Busy /\ UNCHANGED <<scroll, size, frame>> /\ split' = None
    BY <1>11 DEF Unpin, Does
  <2> QED BY <2>1, NotPainted DEF ViewInv
<1>12. ASSUME NEW s \in world.sizes, Resize(s) PROVE ViewInv'
  <2>1. Busy /\ UNCHANGED <<scroll, split, frame>> /\ size' = s
    BY <1>12 DEF Resize, Does
  <2>2. s.h \in Nat
    BY Renderable, ViewAssumption
  <2> QED BY <2>1, <2>2, NotPainted DEF ViewInv
<1>13. ASSUME NEW terms \in Filters, ApplyFilter(terms) PROVE ViewInv'
  <2>1. Busy /\ UNCHANGED <<scroll, size, split, frame>>
    BY <1>13 DEF ApplyFilter, Does
  <2> QED BY <2>1, NotPainted DEF ViewInv
<1>14. CASE ClearAll
  <2>1. Busy /\ UNCHANGED <<size, split, frame>> /\ scroll' = [loop |-> 0, pool |-> 0]
    BY <1>14 DEF ClearAll
  <2> QED BY <2>1, NotPainted DEF ViewInv
<1> QED BY <1>1, <1>2, <1>3, <1>4, <1>5, <1>6, <1>7, <1>8, <1>9, <1>10, <1>11, <1>12, <1>13, <1>14
        DEF VNext

\* The first frame is sound and shows that there is nothing yet.
LEMMA ViewInitial == VInit => IInv /\ ViewInv
<1> SUFFICES ASSUME VInit PROVE IInv /\ ViewInv
  OBVIOUS
<1>1. IInv
  BY Initial DEF VInit
<1>2. size.h \in Nat /\ split \in Nat \cup {None} /\ since = 0 /\ frame = Render(scroll)
  BY <1>1, Renderable, ViewAssumption DEF VInit
<1>3. scroll \in [loop : Int, pool : Int]
  BY DEF VInit
<1>4. Sound(frame) /\ Faithful(frame)
  BY <1>1, <1>2, <1>3, Renderable, Rendered
<1> QED BY <1>1, <1>2, <1>3, <1>4 DEF ViewInv

\* The view only watches: whatever the user does to it, what ingest() keeps
\* behaves as the dashboard on its own, so that all of the above holds of it
\* (dashboard.js:546-560, 2403-2407, 2514-2531).
THEOREM ViewWatches == VSpec => Spec
<1>1. VInit => Init
  BY DEF VInit
<1>2. [VNext]_<<vars, view>> => [Next]_vars
  BY ViewStep
<1> QED BY <1>1, <1>2, PTL DEF VSpec, Spec

\* Both invariants of the view.
LEMMA ViewInvariance == VSpec => [](IInv /\ ViewInv)
<1>1. IInv /\ ViewInv /\ [VNext]_<<vars, view>> => (IInv /\ ViewInv)'
  BY ViewStep, Inductive, ViewInductive
<1> QED BY ViewInitial, <1>1, PTL DEF VSpec

\* For any sessions, sizes, filters, gestures and orders of frames: both zones
\* keep their floor, and each shows its rows in the order they came, nothing over
\* anything else, nothing in sight culled, and no zone scrolled blank
\* (dashboard.js:994-999, 1014-1023, 1169-1182, 2242-2250, 2293-2299).
THEOREM OrderlyCanvas == VSpec => []CanvasIsOrderly
<1>1. ASSUME ViewInv PROVE CanvasIsOrderly
  <2>1. CASE Fresh
    <3>1. Sound(frame) /\ Faithful(frame) /\ size.h \in Nat /\ Banded(frame)
      BY <1>1, <2>1 DEF ViewInv, Faithful
    <3> QED BY <3>1, BandsOfFrame, StackedRows DEF CanvasIsOrderly
  <2>2. CASE ~ Fresh
    BY <2>2 DEF CanvasIsOrderly, BandsAreKept, RowsAreStacked
  <2> QED BY <2>1, <2>2
<1> QED BY <1>1, ViewInvariance, PTL

-----------------------------------------------------------------------------
(* Clicks *)

\* No two rows of a zone are under one point.
LEMMA OneUnder ==
  ASSUME NEW zone, LaidOut(zone), NEW y \in Int, NEW n, n = Len(zone.rows),
         NEW i \in 1 .. n, NEW j \in 1 .. n, Under(zone.rows[i], y), Under(zone.rows[j], y)
  PROVE  i = j
<1> DEFINE k == n + Len(zone.work)
<1>1. n \in Nat /\ Len(zone.work) \in Nat
  BY DEF LaidOut
<1>2. i \in 1 .. k /\ j \in 1 .. k
  <2> DEFINE m == Len(zone.work)
  <2>1. m \in Nat
    BY <1>1
  <2> HIDE DEF m
  <2>2. i \in 1 .. n + m /\ j \in 1 .. n + m
    BY <1>1, <2>1
  <2> QED BY <2>2 DEF m
<1>3. Items(zone)[i] = zone.rows[i] /\ Items(zone)[j] = zone.rows[j]
  BY DEF LaidOut
<1>4. \A a, b \in 1 .. k : a < b => Bottom(Items(zone)[a]) < Items(zone)[b].top
  BY DEF LaidOut
<1>5. \A a \in 1 .. k : Items(zone)[a].top \in Int /\ Items(zone)[a].height \in Nat
  BY DEF LaidOut
<1> HIDE DEF k
<1>6. /\ zone.rows[i].top \in Int /\ Bottom(zone.rows[i]) \in Int
      /\ zone.rows[j].top \in Int /\ Bottom(zone.rows[j]) \in Int
  <2> SUFFICES ASSUME NEW l \in {i, j}
               PROVE  zone.rows[l].top \in Int /\ Bottom(zone.rows[l]) \in Int
    OBVIOUS
  <2>1. zone.rows[l].top \in Int /\ zone.rows[l].height \in Nat
    BY <1>2, <1>3, <1>5
  <2> QED BY <2>1 DEF Bottom
<1>7. ~ (i < j)
  <2> SUFFICES ASSUME i < j PROVE FALSE
    OBVIOUS
  <2>1. Bottom(zone.rows[i]) < zone.rows[j].top
    BY <1>2, <1>3, <1>4
  <2> QED BY <1>6, <2>1 DEF Under
<1>8. ~ (j < i)
  <2> SUFFICES ASSUME j < i PROVE FALSE
    OBVIOUS
  <2>1. Bottom(zone.rows[j]) < zone.rows[i].top
    BY <1>2, <1>3, <1>4
  <2> QED BY <1>6, <2>1 DEF Under
<1> QED BY <1>1, <1>7, <1>8

\* The rows that are looked at: those of the upper zone, then those of the lower.
LEMMA RowsOfFrame ==
  ASSUME Sound(frame), NEW n, n = Len(frame.loop.rows), NEW m, m = Len(frame.pool.rows)
  PROVE  /\ n \in Nat /\ m \in Nat
         /\ DOMAIN frame.loop.rows = 1 .. n /\ DOMAIN frame.pool.rows = 1 .. m
         /\ DOMAIN CurrentRows = 1 .. n + m
         /\ \A i \in 1 .. n : CurrentRows[i] = frame.loop.rows[i]
         /\ \A i \in 1 .. m : CurrentRows[n + i] = frame.pool.rows[i]
<1> DEFINE p == frame.loop.rows
           q == frame.pool.rows
<1>1. p \in Seq(Placed(Things)) /\ q \in Seq(Placed(Things))
  BY DEF Sound, LaidOut
<1>2. CurrentRows = p \o q
  BY DEF CurrentRows
<1> HIDE DEF p, q
<1>3. n = Len(p) /\ m = Len(q)
  BY DEF p, q
<1>4. n \in Nat /\ m \in Nat /\ DOMAIN p = 1 .. n /\ DOMAIN q = 1 .. m
  BY <1>1, <1>3
<1>5. /\ DOMAIN (p \o q) = 1 .. n + m
      /\ \A i \in 1 .. n : (p \o q)[i] = p[i]
      /\ \A i \in 1 .. m : (p \o q)[n + i] = q[i]
  BY <1>1, <1>3
<1> QED BY <1>2, <1>4, <1>5 DEF p, q

\* The hit-test finds the one row that is seen.
LEMMA HitIsSeen ==
  ASSUME Sound(frame), NEW y \in Int, ~ Hidden(y), SeenAt(y) # {}
  PROVE  \E r : SeenAt(y) = {r} /\ Hit(y) = {r}
<1> DEFINE loop == frame.loop
           pool == frame.pool
           n == Len(loop.rows)
           m == Len(pool.rows)
           rows == CurrentRows
<1>1. /\ n \in Nat /\ m \in Nat
      /\ DOMAIN loop.rows = 1 .. n /\ DOMAIN pool.rows = 1 .. m /\ DOMAIN rows = 1 .. n + m
      /\ \A i \in 1 .. n : rows[i] = loop.rows[i]
      /\ \A i \in 1 .. m : rows[n + i] = pool.rows[i]
  BY RowsOfFrame
<1>2. LaidOut(loop) /\ LaidOut(pool) /\ loop.bottom < pool.top
  BY DEF Sound
<1>3. loop.bottom \in Int /\ pool.top \in Int
  BY <1>2 DEF LaidOut
<1>4. SeenAt(y) = {loop.rows[i].trace : i \in {j \in 1 .. n : Under(loop.rows[j], y) /\ InSight(loop, y)}}
                    \cup {pool.rows[i].trace : i \in {j \in 1 .. m : Under(pool.rows[j], y) /\ InSight(pool, y)}}
  BY <1>1 DEF SeenAt, Zones, ToSet
<1>5. Hits(y) = {i \in 1 .. n + m : Under(rows[i], y)}
  BY <1>1 DEF Hits, Under
<1>6. Hit(y) = {rows[i].trace : i \in {j \in Hits(y) : \A k \in Hits(y) : j <= k}}
  BY DEF Hit
<1>7. \A i, j \in 1 .. n : Under(loop.rows[i], y) /\ Under(loop.rows[j], y) => i = j
  BY <1>2, OneUnder
<1>8. \A i, j \in 1 .. m : Under(pool.rows[i], y) /\ Under(pool.rows[j], y) => i = j
  BY <1>2, OneUnder
<1>9. Hidden(y) <=> y > loop.bottom /\ \E i \in 1 .. n : Under(loop.rows[i], y)
  BY <1>1 DEF Hidden, ToSet
<1>10. /\ InSight(loop, y) => y <= loop.bottom
       /\ InSight(pool, y) => y >= pool.top
  BY DEF InSight
<1> HIDE DEF loop, pool, n, m, rows
<1>11. \A i \in 1 .. n + m : i \in 1 .. n \/ (i - n \in 1 .. m /\ n + (i - n) = i)
  BY <1>1
<1>12. CASE \E a \in 1 .. n : Under(loop.rows[a], y) /\ InSight(loop, y)
  <2>1. PICK a \in 1 .. n : Under(loop.rows[a], y) /\ InSight(loop, y)
    BY <1>12
  <2>2. ~ InSight(pool, y)
    BY <1>2, <1>3, <1>10, <2>1
  <2>3. SeenAt(y) = {loop.rows[a].trace}
    BY <1>4, <1>7, <2>1, <2>2
  <2>4. a \in Hits(y)
    BY <1>1, <1>5, <2>1
  <2>5. \A k \in Hits(y) : a <= k
    <3> SUFFICES ASSUME NEW k \in Hits(y) PROVE a <= k
      OBVIOUS
    <3>1. CASE k \in 1 .. n
      BY <1>1, <1>5, <1>7, <2>1, <3>1
    <3>2. CASE k \notin 1 .. n
      BY <1>1, <1>5, <3>2
    <3> QED BY <3>1, <3>2
  <2>6. {j \in Hits(y) : \A k \in Hits(y) : j <= k} = {a}
    <3>1. ASSUME NEW j \in Hits(y), \A k \in Hits(y) : j <= k PROVE j = a
      <4>1. j <= a /\ a <= j /\ j \in Int /\ a \in Int
        BY <1>1, <1>5, <2>4, <2>5, <3>1
      <4> QED BY <4>1
    <3> QED BY <2>4, <2>5, <3>1
  <2>7. Hit(y) = {loop.rows[a].trace}
    BY <1>1, <1>6, <2>6
  <2> QED BY <2>3, <2>7
<1>13. CASE \E b \in 1 .. m : Under(pool.rows[b], y) /\ InSight(pool, y)
  <2>1. PICK b \in 1 .. m : Under(pool.rows[b], y) /\ InSight(pool, y)
    BY <1>13
  <2>2. y > loop.bottom /\ ~ InSight(loop, y)
    BY <1>2, <1>3, <1>10, <2>1
  <2>3. \A i \in 1 .. n : ~ Under(loop.rows[i], y)
    BY <1>9, <2>2
  <2>4. SeenAt(y) = {pool.rows[b].trace}
    BY <1>4, <1>8, <2>1, <2>2
  <2>5. n + b \in 1 .. n + m /\ rows[n + b] = pool.rows[b]
    BY <1>1
  <2>6. n + b \in Hits(y)
    BY <1>5, <2>1, <2>5
  <2>7. \A k \in Hits(y) : k = n + b
    <3> SUFFICES ASSUME NEW k \in Hits(y) PROVE k = n + b
      OBVIOUS
    <3>1. k \in 1 .. n + m /\ Under(rows[k], y)
      BY <1>5
    <3>2. k \notin 1 .. n
      BY <1>1, <2>3, <3>1
    <3>3. k - n \in 1 .. m /\ n + (k - n) = k
      BY <1>11, <3>1, <3>2
    <3> DEFINE i == k - n
    <3>4. i \in 1 .. m /\ n + i = k
      BY <3>3
    <3> HIDE DEF i
    <3>5. i = b
      BY <1>1, <1>8, <2>1, <3>1, <3>4
    <3> QED BY <3>4, <3>5
  <2>8. {j \in Hits(y) : \A k \in Hits(y) : j <= k} = {n + b}
    <3>1. n + b \in Int
      BY <1>1
    <3> QED BY <2>6, <2>7, <3>1
  <2>9. Hit(y) = {pool.rows[b].trace}
    BY <1>6, <2>5, <2>8
  <2> QED BY <2>4, <2>9
<1> QED BY <1>4, <1>12, <1>13

\* For any frame, however stale: a click on a row that is seen, and not on one
\* that is hidden behind the lower zone, selects it, opens or closes it if it is
\* still there, and leaves every other as it is (dashboard.js:1075-1083).
THEOREM ClicksHit == VSpec => ClickHitsWhatIsSeen
<1> DEFINE Aimed(y) == Click(y) /\ ~ OverDivider(y) /\ ~ Hidden(y) /\ SeenAt(y) # {}
           Hitting(y) ==
             /\ SeenAt(y) = {selected'}
             /\ tab' = "request"
             /\ selected' \in DOMAIN dash.rows => (selected' \in open') # (selected' \in open)
             /\ open' \ {selected'} = open \ {selected'}
<1>1. ASSUME ViewInv, NEW y \in Ys, Aimed(y) PROVE Hitting(y)
  <2>1. Sound(frame) /\ y \in Int
    BY <1>1, ViewAssumption DEF ViewInv
  <2>2. PICK r : SeenAt(y) = {r} /\ Hit(y) = {r}
    BY <1>1, <2>1, HitIsSeen
  <2>3. /\ open' = (open \ Hit(y)) \cup ((Hit(y) \cap DOMAIN dash.rows) \ open)
        /\ selected' = IF Hit(y) = {} THEN None ELSE CHOOSE q \in Hit(y) : TRUE
        /\ tab' = IF Hit(y) = {} THEN "guide" ELSE "request"
    BY <1>1 DEF Click, Press
  <2>4. selected' = r /\ tab' = "request"
    BY <2>2, <2>3
  <2>5. open' = (open \ {r}) \cup (({r} \cap DOMAIN dash.rows) \ open)
    BY <2>2, <2>3
  <2>6. r \in DOMAIN dash.rows => (r \in open') # (r \in open)
    BY <2>5
  <2>7. open' \ {r} = open \ {r}
    BY <2>5
  <2> QED BY <2>2, <2>4, <2>6, <2>7
<1>2. ASSUME ViewInv, [VNext]_<<vars, view>>
      PROVE  [\A y \in Ys : Aimed(y) => Hitting(y)]_<<vars, view>>
  BY <1>1, <1>2
<1>3. VSpec => [][\A y \in Ys : Aimed(y) => Hitting(y)]_<<vars, view>>
  BY <1>2, ViewInvariance, PTL DEF VSpec
<1> QED BY <1>3 DEF ClickHitsWhatIsSeen

=============================================================================
