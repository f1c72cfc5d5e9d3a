---------------------------- MODULE Monitor_proofs ----------------------------
(***************************************************************************)
(* For any tasks, workers, threshold and bounds: what the callbacks        *)
(* believe is what the program does.                                       *)
(*                                                                         *)
(* FramesInv holds of every program: a recorded frame is on one stack, at  *)
(* one place, until its call_exit, whatever generators, callbacks and      *)
(* cancellations pop in its stead.  The others are about plain programs    *)
(* and rest on it.  StacksInv says that nothing is left where nothing      *)
(* runs, so that a stack that is reused starts clean and all of them are   *)
(* the program's; ActiveInv follows the frame that holds the loop from one *)
(* step to the next; by CallersInv the tokens of a stack lead back to the  *)
(* frame its context was copied from; AnsweredInv counts the suspends of   *)
(* the one frame in which a task is parked.                                *)
(***************************************************************************)
EXTENDS Monitor, SequenceTheorems, FiniteSetTheorems, TLAPS

\* A frame that is recorded is on one stack, at one place, or has exited.
HeldInv ==
  /\ exited \subseteq 1 .. Len(nodes)
  /\ \A c \in Contexts : \A i \in 1 .. Len(vstack[c]) :
       /\ vstack[c][i].node \in 1 .. Len(nodes)
       /\ nodes[vstack[c][i].node].trace # None
       /\ vstack[c][i].node \notin exited
       /\ \A d \in Contexts : \A j \in 1 .. Len(vstack[d]) :
            vstack[d][j].node = vstack[c][i].node => d = c /\ j = i
  /\ \A n \in 1 .. Len(nodes) :
       nodes[n].trace # None /\ n \notin exited =>
         \E c \in Contexts : \E i \in 1 .. Len(vstack[c]) : vstack[c][i].node = n

\* What the monitor remembers as offloaded is what it announced, and that is
\* what lies at the bottom of the stacks that are not a task's.
BracketInv ==
  /\ pool = offloaded
  /\ \A n \in Nodes : n \in pool <=>
       \E c \in Workers \cup {Main} : Len(vstack[c]) > 0 /\ vstack[c][1].node = n

\* A plain program has coroutines and functions only, and no frame where
\* nothing runs yet or any more.
QuietAt(c) ==
  /\ \A i \in 1 .. Len(real[c]) : real[c][i].kind \in {"coro", "func"}
  /\ c \in Tasks /\ mode[c] = "new" => real[c] = <<>> /\ cur[c] = None /\ inherited[c] = None
  /\ c \in Workers /\ mode[c] = "idle" => real[c] = <<>>

\* It runs nothing on the loop but tasks.
QuietInv ==
  /\ run # Main /\ gens = {} /\ trace[Main] = None
  /\ run \in Tasks => mode[run] = "running"
  /\ \A c \in Contexts : QuietAt(c)

\* StackMirrors, place by place.
MirrorAt(c) ==
  /\ Len(vstack[c]) = IF Traced(c) THEN Len(real[c]) ELSE 0
  /\ \A i \in 1 .. Len(vstack[c]) : vstack[c][i].node = real[c][i].node

MirrorInv == \A c \in Contexts : MirrorAt(c)

FramesInv == TypeOK /\ HeldInv /\ BracketInv
StacksInv == FramesInv /\ (Plain => QuietInv /\ MirrorInv)

-----------------------------------------------------------------------------
(* Stacks *)

\* The assumption, one fact at a time.
LEMMA Numbers ==
  /\ MaxNodes \in Nat /\ OddNodes \in Nat /\ MaxDepth \in Nat /\ Slow \in Nat /\ OddNodes <= MaxNodes
  /\ Main \notin Tasks /\ Main \notin Workers /\ None \notin Contexts
  /\ None \notin Nat /\ None \notin Tasks /\ None # Main /\ \A c \in Contexts : c \in Tasks => c \notin Workers
BY MonitorAssumption DEF Contexts

\* A stack that is not empty has a top; popping it leaves the rest.
LEMMA Popping ==
  ASSUME NEW S, NEW s \in Seq(S), s # <<>>
  PROVE  /\ Len(s) \in Nat /\ Len(s) > 0 /\ Top(s) \in S /\ Top(s) = s[Len(s)]
         /\ Pop(s) \in Seq(S) /\ Len(Pop(s)) = Len(s) - 1
         /\ \A i \in 1 .. Len(s) - 1 : Pop(s)[i] = s[i]
<1> DEFINE n == Len(s) - 1
<1>1. n \in Nat /\ Len(s) = n + 1
  BY EmptySeq, LenProperties
<1>2. \A i \in 1 .. n : s[i] \in S
  BY <1>1, ElementOfSeq
<1>3. Pop(s) = SubSeq(s, 1, n)
  BY DEF Pop
<1> HIDE DEF n
<1>4. /\ SubSeq(s, 1, n) \in Seq(S)
      /\ Len(SubSeq(s, 1, n)) = IF 1 <= n THEN n - 1 + 1 ELSE 0
      /\ \A i \in 1 .. n - 1 + 1 : SubSeq(s, 1, n)[i] = s[1 + i - 1]
  BY <1>1, <1>2, SubSeqProperties
<1>6. /\ Pop(s) \in Seq(S) /\ Len(Pop(s)) = Len(s) - 1
      /\ \A i \in 1 .. Len(s) - 1 : Pop(s)[i] = s[i]
  BY <1>1, <1>3, <1>4
<1>5. Top(s) = s[Len(s)] /\ Top(s) \in S
  BY <1>1, ElementOfSeq DEF Top
<1> QED
  BY <1>1, <1>5, <1>6

\* Pushing leaves what was there.
LEMMA Pushing ==
  ASSUME NEW S, NEW s \in Seq(S), NEW x \in S
  PROVE  /\ Len(s) \in Nat /\ Append(s, x) \in Seq(S) /\ Len(Append(s, x)) = Len(s) + 1
         /\ Append(s, x) # <<>> /\ Append(s, x)[Len(s) + 1] = x
         /\ \A i \in 1 .. Len(s) : Append(s, x)[i] = s[i]
BY AppendProperties, LenProperties, EmptySeq

\* Moving to another context spoils the tokens and nothing else.
LEMMA Spoiling ==
  ASSUME NEW s \in Seq(Entry)
  PROVE  /\ Stale(s) \in Seq(Entry) /\ Len(Stale(s)) = Len(s) /\ Len(s) \in Nat
         /\ (Stale(s) = <<>> <=> s = <<>>)
         /\ \A i \in 1 .. Len(s) : Stale(s)[i].node = s[i].node
<1>1. Len(s) \in Nat
  BY LenProperties
<1>2. ASSUME NEW i \in 1 .. Len(s)
      PROVE  [s[i] EXCEPT !.own = FALSE] \in Entry /\ [s[i] EXCEPT !.own = FALSE].node = s[i].node
  <2>1. s[i] \in Entry
    BY ElementOfSeq
  <2> QED
    BY <2>1 DEF Entry
<1>3. Stale(s) \in [1 .. Len(s) -> Entry]
  BY <1>2 DEF Stale
<1>6. Stale(s) \in Seq(Entry) /\ Len(Stale(s)) = Len(s)
  BY <1>1, <1>3, SeqDef, LenProperties
<1>4. Stale(s) = <<>> <=> s = <<>>
  BY <1>1, <1>6, EmptySeq
<1>5. \A i \in 1 .. Len(s) : Stale(s)[i].node = s[i].node
  BY <1>2 DEF Stale
<1> QED
  BY <1>1, <1>4, <1>5, <1>6

-----------------------------------------------------------------------------
(* Types *)

\* What the type says of one context.
LEMMA ContextTyped ==
  ASSUME TypeOK, NEW c \in Contexts
  PROVE  /\ real[c] \in Seq(Frame) /\ vstack[c] \in Seq(Entry) /\ Len(nodes) \in Nat
         /\ Len(real[c]) \in Nat /\ Len(vstack[c]) \in Nat
         /\ trace[c] \in Tasks \cup {None} /\ cur[c] \in Nodes \cup {None}
         /\ inherited[c] \in Nodes \cup {None} /\ TrueTop(c) \in Nodes \cup {None}
<1>1. /\ real[c] \in Seq(Frame) /\ vstack[c] \in Seq(Entry) /\ nodes \in Seq(Entrance)
      /\ trace[c] \in Tasks \cup {None} /\ cur[c] \in Nodes \cup {None}
      /\ inherited[c] \in Nodes \cup {None}
  BY DEF TypeOK
<1>2. Len(nodes) \in Nat /\ Len(real[c]) \in Nat /\ Len(vstack[c]) \in Nat
  BY <1>1, LenProperties
<1>3. real[c] # <<>> => Top(real[c]) \in Frame
  BY <1>1, Popping
<1>4. TrueTop(c) \in Nodes \cup {None}
  BY <1>1, <1>3 DEF TrueTop, Frame
<1> QED
  BY <1>1, <1>2, <1>4

\* The top of a stack, if there is one.
LEMMA EnteredTyped ==
  ASSUME TypeOK, NEW c \in Contexts, ~ Silent(c)
  PROVE  /\ trace[c] \in Tasks /\ vstack[c] # <<>> /\ Len(vstack[c]) \in Nat /\ Len(vstack[c]) > 0
         /\ Entered(c) = vstack[c][Len(vstack[c])] /\ Entered(c) \in Entry
         /\ Entered(c).node \in Nodes /\ Entered(c).old \in Nodes \cup {None}
         /\ Popped(c) \in Seq(Entry) /\ Len(Popped(c)) = Len(vstack[c]) - 1
         /\ \A i \in 1 .. Len(vstack[c]) - 1 : Popped(c)[i] = vstack[c][i]
<1>1. trace[c] \in Tasks /\ vstack[c] # <<>> /\ vstack[c] \in Seq(Entry)
  BY ContextTyped DEF Silent
<1> DEFINE s == vstack[c]
<1> HIDE DEF s
<1>2. s \in Seq(Entry) /\ s # <<>> /\ Entered(c) = Top(s) /\ Popped(c) = Pop(s)
  BY <1>1 DEF s, Entered, Popped
<1>3. /\ Len(s) \in Nat /\ Len(s) > 0 /\ Top(s) \in Entry /\ Top(s) = s[Len(s)]
      /\ Pop(s) \in Seq(Entry) /\ Len(Pop(s)) = Len(s) - 1
      /\ \A i \in 1 .. Len(s) - 1 : Pop(s)[i] = s[i]
  BY <1>2, Popping
<1>4. Top(s).node \in Nodes /\ Top(s).old \in Nodes \cup {None}
  BY <1>3 DEF Entry
<1> QED
  BY <1>1, <1>2, <1>3, <1>4 DEF s

\* The interval that is closed, and the one that is opened.
LEMMA IntervalsTyped ==
  ASSUME TypeOK
  PROVE  /\ Closed \subseteq [node : Nodes, since : Nat, until : Nat]
         /\ \A n \in Nodes, c \in Contexts :
              trace[c] \in Tasks => Opened(n, c) \in [node : Nodes, since : Nat, trace : Tasks]
<1>1. now \in Nat /\ spans \subseteq [node : Nodes, since : Nat, until : Nat]
      /\ active \in [node : Nodes, since : Nat, trace : Tasks] \cup {None}
  BY DEF TypeOK
<1>2. active # None => active.node \in Nodes /\ active.since \in Nat
  BY <1>1
<1>3. Closed \subseteq [node : Nodes, since : Nat, until : Nat]
  BY <1>1, <1>2 DEF Closed
<1> QED
  BY <1>1, <1>3 DEF Opened

\* _on_start
LEMMA StartTyped ==
  ASSUME TypeOK, NEW c \in Contexts, Len(nodes) < MaxNodes, OnStart(c)
  PROVE  /\ nodes' \in Seq(Entrance) /\ vstack' \in [Contexts -> Seq(Entry)]
         /\ cur' \in [Contexts -> Nodes \cup {None}]
         /\ offloaded' \subseteq Nodes /\ pool' \subseteq Nodes
         /\ spans' \subseteq [node : Nodes, since : Nat, until : Nat]
         /\ active' \in [node : Nodes, since : Nat, trace : Tasks] \cup {None}
<1> DEFINE n == Len(nodes) + 1
           seen(p) == [ctx |-> c, trace |-> trace[c], first |-> real[c] = <<>>,
                       caller |-> TrueTop(c), parent |-> p]
           new == [node |-> n, old |-> cur[c], own |-> TRUE]
<1>1. n \in Nodes /\ n # None
  BY ContextTyped, Numbers DEF Nodes
<1>2. ParentOf(c) \in Nodes \cup {None}
  <2>1. vstack[c] # <<>> => Top(vstack[c]) \in Entry
    BY ContextTyped, Popping
  <2>2. vstack[c] # <<>> => Entered(c).node \in Nodes
    BY <2>1 DEF Entered, Entry
  <2> QED
    BY <2>2, ContextTyped DEF ParentOf
<1>3. ASSUME NEW p \in Nodes \cup {None}
      PROVE  seen(p) \in Entrance
  <2>1. trace[c] \in Tasks \cup {None} /\ TrueTop(c) \in Nodes \cup {None}
    BY ContextTyped
  <2>2. (real[c] = <<>>) \in BOOLEAN
    BY Zenon
  <2> QED
    BY <1>3, <2>1, <2>2, Zenon DEF Entrance
<1>4. new \in Entry
  BY <1>1, ContextTyped DEF Entry
<1>5. CASE trace[c] = None
  <2>1. nodes' = Append(nodes, seen(None)) /\ UNCHANGED <<vstack, cur, offloaded, pool, spans, active>>
    BY <1>5 DEF OnStart
  <2>2. seen(None) \in Entrance
    BY <1>3
  <2> HIDE DEF seen
  <2>3. nodes' \in Seq(Entrance)
    BY <2>1, <2>2, Pushing DEF TypeOK
  <2> QED
    BY <2>1, <2>3 DEF TypeOK
<1>6. CASE trace[c] # None
  <2>1. /\ nodes' = Append(nodes, seen(ParentOf(c)))
        /\ vstack' = [vstack EXCEPT ![c] = Append(vstack[c], new)]
        /\ cur' = [cur EXCEPT ![c] = n]
        /\ offloaded' = offloaded \cup {m \in {n} : Offloads(c)}
        /\ pool' = pool \cup {m \in {n} : Offloads(c)}
        /\ \/ spans' = Closed /\ active' = Opened(n, c)
           \/ UNCHANGED <<spans, active>>
    BY <1>6, Zenon DEF OnStart
  <2>2. seen(ParentOf(c)) \in Entrance /\ trace[c] \in Tasks
    BY <1>2, <1>3, <1>6, ContextTyped
  <2> HIDE DEF seen, new, n
  <2>3. nodes' \in Seq(Entrance)
    BY <2>1, <2>2, Pushing DEF TypeOK
  <2>4. Append(vstack[c], new) \in Seq(Entry)
    BY <1>4, Pushing, ContextTyped
  <2>5. vstack' \in [Contexts -> Seq(Entry)]
    BY <2>1, <2>4 DEF TypeOK
  <2>6. /\ cur' \in [Contexts -> Nodes \cup {None}]
        /\ offloaded' \subseteq Nodes /\ pool' \subseteq Nodes
    BY <1>1, <2>1 DEF TypeOK
  <2>7. /\ spans' \subseteq [node : Nodes, since : Nat, until : Nat]
        /\ active' \in [node : Nodes, since : Nat, trace : Tasks] \cup {None}
    <3>1. Opened(n, c) \in [node : Nodes, since : Nat, trace : Tasks]
      BY <1>1, <2>2, IntervalsTyped
    <3> QED
      BY <2>1, <3>1, IntervalsTyped DEF TypeOK
  <2> QED
    BY <2>3, <2>5, <2>6, <2>7
<1> QED
  BY <1>5, <1>6

\* _on_exit
LEMMA ExitTyped ==
  ASSUME TypeOK, NEW c \in Contexts, OnExit(c)
  PROVE  /\ vstack' \in [Contexts -> Seq(Entry)]
         /\ cur' \in [Contexts -> Nodes \cup {None}]
         /\ offloaded' \subseteq Nodes /\ pool' \subseteq Nodes /\ exited' \subseteq Nodes
         /\ spans' \subseteq [node : Nodes, since : Nat, until : Nat]
         /\ active' \in [node : Nodes, since : Nat, trace : Tasks] \cup {None}
<1>1. CASE Silent(c)
  BY <1>1 DEF OnExit, TypeOK
<1>2. CASE ~ Silent(c)
  <2>1. /\ vstack' = [vstack EXCEPT ![c] = Popped(c)]
        /\ cur' = [cur EXCEPT ![c] = Restored(c)]
        /\ exited' = exited \cup {Entered(c).node}
        /\ offloaded' = offloaded \ {Entered(c).node}
        /\ pool' \in {pool, pool \ {Entered(c).node}}
        /\ \/ spans' = Closed /\ active' = Regained(c)
           \/ UNCHANGED <<spans, active>>
    BY <1>2 DEF OnExit, ExitedWith, Brought
  <2>2. /\ trace[c] \in Tasks /\ Entered(c).node \in Nodes /\ Entered(c).old \in Nodes \cup {None}
        /\ Popped(c) \in Seq(Entry)
    BY <1>2, EnteredTyped
  <2>3. Restored(c) \in Nodes \cup {None}
    BY <2>2, ContextTyped DEF Restored
  <2>4. Regained(c) \in [node : Nodes, since : Nat, trace : Tasks] \cup {None}
    <3>1. CASE Len(vstack[c]) = 1
      BY <3>1 DEF Regained
    <3>2. CASE Len(vstack[c]) # 1
      <4>1. Popped(c) # <<>>
        <5>1. Len(Popped(c)) # 0
          <6>1. Len(Popped(c)) = Len(vstack[c]) - 1 /\ Len(vstack[c]) \in Nat
            BY <1>2, EnteredTyped
          <6> QED
            BY <3>2, <6>1
        <5> QED
          BY <5>1
      <4>2. Top(Popped(c)) \in Entry
        BY <2>2, <4>1, Popping
      <4>3. Regained(c) = Opened(Top(Popped(c)).node, c)
        BY <3>2 DEF Regained, Popped
      <4> QED
        BY <2>2, <4>2, <4>3, IntervalsTyped DEF Entry
    <3> QED
      BY <3>1, <3>2
  <2>5. vstack' \in [Contexts -> Seq(Entry)] /\ cur' \in [Contexts -> Nodes \cup {None}]
    BY <2>1, <2>2, <2>3 DEF TypeOK
  <2>6. offloaded' \subseteq Nodes /\ pool' \subseteq Nodes /\ exited' \subseteq Nodes
    BY <2>1, <2>2 DEF TypeOK
  <2>7. /\ spans' \subseteq [node : Nodes, since : Nat, until : Nat]
        /\ active' \in [node : Nodes, since : Nat, trace : Tasks] \cup {None}
    BY <2>1, <2>4, IntervalsTyped DEF TypeOK
  <2> QED
    BY <2>5, <2>6, <2>7
<1> QED
  BY <1>1, <1>2

\* _on_yield
LEMMA YieldTyped ==
  ASSUME TypeOK, NEW c \in Contexts, NEW k \in Nat, OnYield(c, k)
  PROVE  /\ waits' \in [Nodes -> Int]
         /\ spans' \subseteq [node : Nodes, since : Nat, until : Nat]
         /\ active' \in [node : Nodes, since : Nat, trace : Tasks] \cup {None}
<1>1. CASE Silent(c) \/ k = 0
  BY <1>1 DEF OnYield, TypeOK
<1>2. CASE ~ (Silent(c) \/ k = 0)
  <2>1. /\ waits' = [waits EXCEPT ![Entered(c).node] = @ + k]
        /\ \/ spans' = Closed /\ active' = None
           \/ UNCHANGED <<spans, active>>
    BY <1>2 DEF OnYield
  <2>2. Entered(c).node \in Nodes
    BY <1>2, EnteredTyped
  <2>3. waits' \in [Nodes -> Int]
    BY <2>1, <2>2 DEF TypeOK
  <2> QED
    BY <2>1, <2>3, IntervalsTyped DEF TypeOK
<1> QED
  BY <1>1, <1>2

\* _on_resume
LEMMA ResumeTyped ==
  ASSUME TypeOK, NEW c \in Contexts, NEW k \in Nat, OnResume(c, k)
  PROVE  /\ waits' \in [Nodes -> Int]
         /\ active' \in [node : Nodes, since : Nat, trace : Tasks] \cup {None}
<1>1. CASE Silent(c) \/ k = 0
  BY <1>1 DEF OnResume, TypeOK
<1>2. CASE ~ (Silent(c) \/ k = 0)
  <2>1. /\ waits' = [waits EXCEPT ![Entered(c).node] = @ - k]
        /\ active' \in {active, Opened(Entered(c).node, c)}
    BY <1>2 DEF OnResume
  <2>2. Entered(c).node \in Nodes /\ trace[c] \in Tasks
    BY <1>2, EnteredTyped
  <2>3. waits' \in [Nodes -> Int]
    BY <2>1, <2>2 DEF TypeOK
  <2>4. Opened(Entered(c).node, c) \in [node : Nodes, since : Nat, trace : Tasks]
    BY <2>2, IntervalsTyped
  <2> QED
    BY <2>1, <2>3, <2>4 DEF TypeOK
<1> QED
  BY <1>1, <1>2

\* The program starts with every variable in its type.
LEMMA InitTyped == Init => TypeOK
<1> SUFFICES ASSUME Init PROVE TypeOK
  OBVIOUS
<1>1. None \in Tasks \cup {None} /\ <<>> \in Seq(Frame) /\ <<>> \in Seq(Entry) /\ <<>> \in Seq(Entrance)
  BY EmptySeq
<1>2. mode \in [Tasks \cup Workers -> {"new", "parked", "running", "done", "idle", "busy"}]
  BY DEF Init
<1>3. waits \in [Nodes -> Int]
  BY DEF Init
<1> QED
  BY <1>1, <1>2, <1>3 DEF Init, TypeOK

\* A frame is pushed on the program's stack, or taken off it.
LEMMA RealTyped ==
  ASSUME TypeOK, NEW c \in Contexts
  PROVE  /\ \A f \in Frame : [real EXCEPT ![c] = Append(@, f)] \in [Contexts -> Seq(Frame)]
         /\ real[c] # <<>> => /\ [real EXCEPT ![c] = Pop(@)] \in [Contexts -> Seq(Frame)]
                              /\ Top(real[c]) \in Frame
<1> DEFINE s == real[c]
<1>1. s \in Seq(Frame) /\ real \in [Contexts -> Seq(Frame)]
  BY ContextTyped DEF TypeOK
<1> HIDE DEF s
<1>2. \A f \in Frame : Append(s, f) \in Seq(Frame)
  BY <1>1, Pushing
<1>3. s # <<>> => Pop(s) \in Seq(Frame) /\ Top(s) \in Frame
  BY <1>1, Popping
<1> QED
  BY <1>1, <1>2, <1>3 DEF s

\* What any step does to the monitor's stacks.
Starts(c) == Len(nodes) < MaxNodes /\ OnStart(c) /\ exited' = exited
Exits(c) == OnExit(c) /\ nodes' = nodes
Moves ==
  /\ UNCHANGED <<nodes, exited, offloaded, pool>>
  /\ \/ UNCHANGED vstack
     \/ \E d \in Workers \cup {Main} : vstack' = [vstack EXCEPT ![d] = Stale(@)]

\* Every step starts a frame, exits one, or moves the stacks.
LEMMA StackSteps ==
  ASSUME TypeOK, [Next]_vars
  PROVE  (\E c \in Contexts : Starts(c) \/ Exits(c)) \/ Moves
<1>1. ASSUME NEW c \in Contexts, NEW kind \in Kinds, Call(c, kind)
      PROVE  Starts(c)
  <2>1. Len(nodes) \in Nat /\ (Len(nodes) < MaxNodes \/ Len(nodes) < OddNodes)
    BY <1>1, ContextTyped DEF Call
  <2>2. Len(nodes) < MaxNodes
    BY <2>1, Numbers
  <2> QED
    BY <1>1, <2>2 DEF Call, Starts
<1>2. ASSUME NEW c \in Contexts, Return(c) \/ GenCloses(c)
      PROVE  Exits(c)
  BY <1>2 DEF Return, GenCloses, Exits
<1>3. ASSUME NEW c \in Contexts, GenYields(c) \/ GenResumes(c)
      PROVE  Moves
  BY <1>3 DEF GenYields, GenResumes, Moves
<1>4. ASSUME NEW c \in Tasks,
             \/ \E id \in {c, None} : Begin(c, id)
             \/ \E d \in Tasks : Spawn(c, d)
             \/ Await(c) \/ Resume(c) \/ Cancelled(c) \/ Finish(c)
      PROVE  Moves
  BY <1>4 DEF Begin, Spawn, Await, Resume, Cancelled, Finish, Moves, emitted, beliefs
<1>5. ASSUME NEW c \in Tasks, NEW w \in Workers, Offload(c, w)
      PROVE  Moves
  BY <1>5 DEF Offload, Moves
<1>6. ASSUME NEW c \in Tasks, RunCallback(c)
      PROVE  Moves
  BY <1>6 DEF RunCallback, Moves, emitted
<1>7. CASE (\E w \in Workers : JobEnds(w)) \/ CallbackEnds \/ Tick \/ UNCHANGED vars
  BY <1>7 DEF JobEnds, CallbackEnds, Tick, vars, emitted, beliefs, Moves
<1> QED
  BY <1>1, <1>2, <1>3, <1>4, <1>5, <1>6, <1>7, Zenon DEF Next

\* Every step keeps the types, for each action in turn.
LEMMA StepTyped ==
  ASSUME TypeOK, [Next]_vars
  PROVE  TypeOK'
<1> USE DEF emitted, beliefs, program
<1> DEFINE Modes == {"new", "parked", "running", "done", "idle", "busy"}
<1>1. ASSUME NEW c \in Contexts, NEW kind \in Kinds, Call(c, kind)
      PROVE  TypeOK'
  <2>1. Len(nodes) < MaxNodes
    <3>1. Len(nodes) \in Nat /\ (Len(nodes) < MaxNodes \/ Len(nodes) < OddNodes)
      BY <1>1, ContextTyped DEF Call
    <3> QED
      BY <3>1, Numbers
  <2>2. OnStart(c)
    BY <1>1 DEF Call
  <2>3. real' \in [Contexts -> Seq(Frame)]
    <3>1. [node |-> Len(nodes) + 1, kind |-> kind] \in Frame
      BY <2>1, ContextTyped, Numbers DEF Frame, Nodes
    <3> QED
      BY <1>1, <3>1, RealTyped DEF Call
  <2>4. gained' \in Nat
    BY <1>1 DEF Call, TypeOK
  <2>5. UNCHANGED <<odd, run, mode, awaits, inherited, gens, now, trace, exited, waits>>
    BY <1>1 DEF Call
  <2> QED
    BY <2>1, <2>2, <2>3, <2>4, <2>5, StartTyped DEF TypeOK
<1>2. ASSUME NEW c \in Contexts, Return(c)
      PROVE  TypeOK'
  <2>1. OnExit(c)
    BY <1>2 DEF Return
  <2>2. real' \in [Contexts -> Seq(Frame)]
    BY <1>2, RealTyped DEF Return
  <2>3. gained' \in Nat
    BY <1>2 DEF Return, TypeOK
  <2>4. UNCHANGED <<odd, run, mode, awaits, inherited, gens, now, trace, nodes, waits>>
    BY <1>2 DEF Return
  <2> QED
    BY <2>1, <2>2, <2>3, <2>4, ExitTyped DEF TypeOK
<1>3. ASSUME NEW c \in Contexts, GenYields(c)
      PROVE  TypeOK'
  <2>1. OnYield(c, 1) /\ 1 \in Nat
    BY <1>3 DEF GenYields
  <2>2. real' \in [Contexts -> Seq(Frame)] /\ gens' \subseteq Frame
    BY <1>3, RealTyped DEF GenYields, TypeOK
  <2>3. gained' \in Nat
    BY <1>3 DEF GenYields, TypeOK
  <2>4. UNCHANGED <<odd, run, mode, awaits, inherited, now, trace, vstack, cur, offloaded,
                    nodes, exited, pool>>
    BY <1>3 DEF GenYields
  <2> QED
    BY <2>1, <2>2, <2>3, <2>4, YieldTyped DEF TypeOK
<1>4. ASSUME NEW c \in Contexts, GenResumes(c)
      PROVE  TypeOK'
  <2>1. OnResume(c, 1) /\ 1 \in Nat
    BY <1>4 DEF GenResumes
  <2>2. PICK g \in gens : gens' = gens \ {g} /\ real' = [real EXCEPT ![c] = Append(@, g)]
    BY <1>4 DEF GenResumes
  <2>3. real' \in [Contexts -> Seq(Frame)] /\ gens' \subseteq Frame
    <3>1. g \in Frame
      BY <2>2 DEF TypeOK
    <3> QED
      BY <2>2, <3>1, RealTyped DEF TypeOK
  <2>4. gained' \in Nat
    BY <1>4 DEF GenResumes, TypeOK
  <2>5. UNCHANGED <<odd, run, mode, awaits, inherited, now, trace, vstack, cur, offloaded,
                    nodes, exited, pool, spans>>
    BY <1>4 DEF GenResumes
  <2> QED
    BY <2>1, <2>3, <2>4, <2>5, ResumeTyped DEF TypeOK
<1>5. ASSUME NEW c \in Contexts, GenCloses(c)
      PROVE  TypeOK'
  <2>1. OnExit(c) /\ gens' \subseteq gens
    BY <1>5 DEF GenCloses
  <2>2. UNCHANGED <<odd, real, run, mode, awaits, inherited, now, gained, trace, nodes, waits>>
    BY <1>5 DEF GenCloses
  <2> QED
    BY <2>1, <2>2, ExitTyped DEF TypeOK
<1>6. ASSUME NEW c \in Tasks, NEW id \in {c, None}, Begin(c, id)
      PROVE  TypeOK'
  <2>1. mode' \in [Tasks \cup Workers -> Modes] /\ trace' \in [Contexts -> Tasks \cup {None}]
        /\ run' \in Tasks \cup {Main, None}
    BY <1>6 DEF Begin, TypeOK, Contexts
  <2> QED
    BY <1>6, <2>1 DEF Begin, TypeOK
<1>7. ASSUME NEW c \in Tasks, NEW d \in Tasks, Spawn(c, d)
      PROVE  TypeOK'
  <2>1. c \in Contexts /\ d \in Contexts
    BY DEF Contexts
  <2>2. TrueTop(c) \in Nodes \cup {None} /\ trace[c] \in Tasks \cup {None} /\ cur[c] \in Nodes \cup {None}
    BY <2>1, ContextTyped
  <2>3. /\ mode' \in [Tasks \cup Workers -> Modes] /\ trace' \in [Contexts -> Tasks \cup {None}]
        /\ cur' \in [Contexts -> Nodes \cup {None}] /\ inherited' \in [Contexts -> Nodes \cup {None}]
    BY <1>7, <2>1, <2>2 DEF Spawn, TypeOK
  <2> QED
    BY <1>7, <2>3 DEF Spawn, TypeOK
<1>8. ASSUME NEW c \in Tasks, Park(c)
      PROVE  /\ run' = None /\ c \in Contexts /\ waits' \in [Nodes -> Int]
             /\ spans' \subseteq [node : Nodes, since : Nat, until : Nat]
             /\ active' \in [node : Nodes, since : Nat, trace : Tasks] \cup {None}
  <2>1. run' = None /\ OnYield(c, Len(real[c])) /\ c \in Contexts
    BY <1>8 DEF Park, Contexts
  <2>2. Len(real[c]) \in Nat
    BY <2>1, ContextTyped
  <2> QED
    BY <2>1, <2>2, YieldTyped
<1>9. ASSUME NEW c \in Tasks, Await(c)
      PROVE  TypeOK'
  <2>1. Park(c) /\ mode' \in [Tasks \cup Workers -> Modes]
    BY <1>9 DEF Await, TypeOK
  <2> QED
    BY <1>8, <1>9, <2>1 DEF Await, TypeOK
<1>10. ASSUME NEW c \in Tasks, NEW w \in Workers, Offload(c, w)
       PROVE  TypeOK'
  <2>1. Park(c) /\ c \in Contexts /\ w \in Contexts
    BY <1>10 DEF Offload, Contexts
  <2>2. TrueTop(c) \in Nodes \cup {None} /\ trace[c] \in Tasks \cup {None} /\ cur[c] \in Nodes \cup {None}
    BY <2>1, ContextTyped
  <2>3. /\ mode' \in [Tasks \cup Workers -> Modes] /\ trace' \in [Contexts -> Tasks \cup {None}]
        /\ cur' \in [Contexts -> Nodes \cup {None}] /\ inherited' \in [Contexts -> Nodes \cup {None}]
        /\ awaits' \in [Tasks -> Workers \cup {None}]
    BY <1>10, <2>1, <2>2 DEF Offload, TypeOK
  <2>4. vstack' \in [Contexts -> Seq(Entry)]
    <3>1. Stale(vstack[w]) \in Seq(Entry)
      BY <2>1, ContextTyped, Spoiling
    <3> QED
      BY <1>10, <2>1, <3>1 DEF Offload, TypeOK
  <2> QED
    BY <1>8, <1>10, <2>1, <2>3, <2>4 DEF Offload, TypeOK
<1>11. ASSUME NEW c \in Tasks, Resume(c)
       PROVE  TypeOK'
  <2>1. OnResume(c, Len(real[c])) /\ c \in Contexts
    BY <1>11 DEF Resume, Contexts
  <2>2. Len(real[c]) \in Nat
    BY <2>1, ContextTyped
  <2>3. waits' \in [Nodes -> Int] /\ active' \in [node : Nodes, since : Nat, trace : Tasks] \cup {None}
    BY <2>1, <2>2, ResumeTyped
  <2>4. mode' \in [Tasks \cup Workers -> Modes]
    BY <1>11 DEF Resume, TypeOK
  <2> QED
    BY <1>11, <2>3, <2>4 DEF Resume, TypeOK
<1>12. ASSUME NEW c \in Tasks, Cancelled(c) \/ Finish(c)
       PROVE  TypeOK'
  <2>1. mode' \in [Tasks \cup Workers -> Modes]
    BY <1>12 DEF Cancelled, Finish, TypeOK
  <2> QED
    BY <1>12, <2>1 DEF Cancelled, Finish, TypeOK
<1>13. ASSUME NEW c \in Tasks, RunCallback(c)
       PROVE  TypeOK'
  <2>1. c \in Contexts /\ Main \in Contexts
    BY DEF Contexts
  <2>2. TrueTop(c) \in Nodes \cup {None} /\ trace[c] \in Tasks \cup {None} /\ cur[c] \in Nodes \cup {None}
    BY <2>1, ContextTyped
  <2>3. /\ trace' \in [Contexts -> Tasks \cup {None}]
        /\ cur' \in [Contexts -> Nodes \cup {None}] /\ inherited' \in [Contexts -> Nodes \cup {None}]
    BY <1>13, <2>1, <2>2 DEF RunCallback, TypeOK
  <2>4. vstack' \in [Contexts -> Seq(Entry)]
    <3>1. Stale(vstack[Main]) \in Seq(Entry)
      BY <2>1, ContextTyped, Spoiling
    <3> QED
      BY <1>13, <2>1, <3>1 DEF RunCallback, TypeOK
  <2> QED
    BY <1>13, <2>3, <2>4 DEF RunCallback, TypeOK
<1>14. ASSUME NEW w \in Workers, JobEnds(w)
       PROVE  TypeOK'
  <2>1. w \in Contexts
    BY DEF Contexts
  <2>2. /\ mode' \in [Tasks \cup Workers -> Modes] /\ trace' \in [Contexts -> Tasks \cup {None}]
        /\ cur' \in [Contexts -> Nodes \cup {None}] /\ inherited' \in [Contexts -> Nodes \cup {None}]
        /\ awaits' \in [Tasks -> Workers \cup {None}]
    BY <1>14, <2>1 DEF JobEnds, TypeOK
  <2> QED
    BY <1>14, <2>2 DEF JobEnds, TypeOK
<1>15. CASE CallbackEnds
  BY <1>15 DEF CallbackEnds, TypeOK
<1>16. CASE Tick
  <2>1. now' \in Nat
    BY <1>16 DEF Tick, TypeOK
  <2> QED
    BY <1>16, <2>1 DEF Tick, TypeOK
<1>17. CASE UNCHANGED vars
  BY <1>17 DEF vars, TypeOK
<1> HIDE DEF emitted, beliefs, program
<1> QED
  BY <1>1, <1>2, <1>3, <1>4, <1>5, <1>6, <1>7, <1>9, <1>10, <1>11, <1>12, <1>13, <1>14, <1>15,
     <1>16, <1>17, Zenon DEF Next

-----------------------------------------------------------------------------
(* What a callback does, place by place *)

\* One stack of several is pushed on.
LEMMA PushPlaces ==
  ASSUME NEW S, NEW f \in [Contexts -> Seq(S)], NEW c \in Contexts, NEW e \in S,
         NEW g, g = [f EXCEPT ![c] = Append(f[c], e)]
  PROVE  /\ Len(f[c]) \in Nat
         /\ \A d \in Contexts : /\ Len(g[d]) = IF d = c THEN Len(f[c]) + 1 ELSE Len(f[d])
                                /\ d # c => g[d] = f[d]
         /\ g[c] # <<>> /\ g[c][Len(f[c]) + 1] = e
         /\ \A i \in 1 .. Len(f[c]) : g[c][i] = f[c][i]
<1> DEFINE s == f[c]
<1>1. s \in Seq(S)
  OBVIOUS
<1> HIDE DEF s
<1>2. /\ Len(s) \in Nat /\ Len(Append(s, e)) = Len(s) + 1
      /\ Append(s, e) # <<>> /\ Append(s, e)[Len(s) + 1] = e
      /\ \A i \in 1 .. Len(s) : Append(s, e)[i] = s[i]
  BY <1>1, Pushing
<1>3. g[c] = Append(s, e) /\ \A d \in Contexts : d # c => g[d] = f[d]
  BY DEF s
<1> QED
  BY <1>2, <1>3 DEF s

\* A stack of the program is popped, or one of the monitor.
LEMMA RealPops ==
  ASSUME TypeOK, NEW c \in Contexts, real[c] # <<>>, real' = [real EXCEPT ![c] = Pop(real[c])]
  PROVE  /\ Len(real[c]) \in Nat /\ Len(real[c]) > 0
         /\ Top(real[c]) = real[c][Len(real[c])] /\ Top(real[c]) \in Frame
         /\ Len(real'[c]) = Len(real[c]) - 1
         /\ \A i \in 1 .. Len(real[c]) - 1 : real'[c][i] = real[c][i]
         /\ \A d \in Contexts : d # c => real'[d] = real[d]
<1> DEFINE s == real[c]
<1>1. s \in Seq(Frame) /\ s # <<>>
  BY DEF TypeOK
<1>2. real'[c] = Pop(s) /\ \A d \in Contexts : d # c => real'[d] = real[d]
  BY DEF TypeOK
<1> HIDE DEF s
<1>3. /\ Len(s) \in Nat /\ Len(s) > 0 /\ Top(s) = s[Len(s)] /\ Top(s) \in Frame
      /\ Len(Pop(s)) = Len(s) - 1 /\ \A i \in 1 .. Len(s) - 1 : Pop(s)[i] = s[i]
  BY <1>1, Popping
<1> QED
  BY <1>2, <1>3 DEF s

\* The same of a stack of the monitor.
LEMMA StackPops ==
  ASSUME TypeOK, NEW c \in Contexts, vstack[c] # <<>>, vstack' = [vstack EXCEPT ![c] = Pop(vstack[c])]
  PROVE  /\ Len(vstack[c]) \in Nat /\ Len(vstack[c]) > 0
         /\ Top(vstack[c]) = vstack[c][Len(vstack[c])] /\ Top(vstack[c]) \in Entry
         /\ Len(vstack'[c]) = Len(vstack[c]) - 1
         /\ \A i \in 1 .. Len(vstack[c]) - 1 : vstack'[c][i] = vstack[c][i]
         /\ \A d \in Contexts : d # c => vstack'[d] = vstack[d]
<1> DEFINE s == vstack[c]
<1>1. s \in Seq(Entry) /\ s # <<>>
  BY DEF TypeOK
<1>2. vstack'[c] = Pop(s) /\ \A d \in Contexts : d # c => vstack'[d] = vstack[d]
  BY DEF TypeOK
<1> HIDE DEF s
<1>3. /\ Len(s) \in Nat /\ Len(s) > 0 /\ Top(s) = s[Len(s)] /\ Top(s) \in Entry
      /\ Len(Pop(s)) = Len(s) - 1 /\ \A i \in 1 .. Len(s) - 1 : Pop(s)[i] = s[i]
  BY <1>1, Popping
<1> QED
  BY <1>2, <1>3 DEF s

\* A call is recorded with the frame that made it.
LEMMA StartRecords ==
  ASSUME TypeOK, NEW c \in Contexts, Len(nodes) < MaxNodes, OnStart(c)
  PROVE  \E x \in Entrance :
           /\ x.ctx = c /\ x.trace = trace[c] /\ x.caller = TrueTop(c)
           /\ x.first = (real[c] = <<>>)
           /\ x.parent = IF trace[c] = None THEN None ELSE ParentOf(c)
           /\ nodes' = Append(nodes, x)
           /\ Len(nodes') = Len(nodes) + 1 /\ nodes'[Len(nodes) + 1] = x
           /\ \A i \in 1 .. Len(nodes) : nodes'[i] = nodes[i]
<1> DEFINE x == [ctx |-> c, trace |-> trace[c], first |-> real[c] = <<>>, caller |-> TrueTop(c),
                 parent |-> IF trace[c] = None THEN None ELSE ParentOf(c)]
<1>1. nodes' = Append(nodes, x)
  <2>1. CASE trace[c] = None
    BY <2>1, Zenon DEF OnStart
  <2>2. CASE trace[c] # None
    BY <2>2, Zenon DEF OnStart
  <2> QED
    BY <2>1, <2>2
<1>2. nodes \in Seq(Entrance) /\ nodes' \in Seq(Entrance)
  BY StartTyped DEF TypeOK
<1>3. /\ x.ctx = c /\ x.trace = trace[c] /\ x.caller = TrueTop(c)
      /\ x.parent = IF trace[c] = None THEN None ELSE ParentOf(c)
  OBVIOUS
<1>4. x.first = (real[c] = <<>>)
  BY Zenon
<1> HIDE DEF x
<1>5. /\ Len(nodes) \in Nat /\ Len(Append(nodes, x)) = Len(nodes) + 1
      /\ Append(nodes, x)[Len(nodes) + 1] = x
      /\ \A i \in 1 .. Len(nodes) : Append(nodes, x)[i] = nodes[i]
  <2>1. nodes \in Seq(Entrance \cup {x}) /\ x \in Entrance \cup {x}
    BY <1>2, SeqMonotonic
  <2> QED
    BY <2>1, Pushing
<1>6. x \in Entrance
  <2>1. Len(nodes) + 1 \in 1 .. Len(nodes')
    BY <1>1, <1>5
  <2> QED
    BY <1>1, <1>2, <1>5, <2>1, ElementOfSeq
<1> QED
  BY <1>1, <1>3, <1>4, <1>5, <1>6

\* And is pushed, if there is a trace.
LEMMA StartPushes ==
  ASSUME TypeOK, NEW c \in Contexts, Len(nodes) < MaxNodes, OnStart(c), trace[c] # None
  PROVE  \E e \in Entry :
           /\ e.node = Len(nodes) + 1 /\ e.old = cur[c] /\ e.own
           /\ vstack' = [vstack EXCEPT ![c] = Append(vstack[c], e)]
           /\ cur' = [cur EXCEPT ![c] = e.node]
           /\ offloaded' = offloaded \cup {m \in {e.node} : Offloads(c)}
           /\ pool' = pool \cup {m \in {e.node} : Offloads(c)}
<1> DEFINE e == [node |-> Len(nodes) + 1, old |-> cur[c], own |-> TRUE]
<1>1. /\ vstack' = [vstack EXCEPT ![c] = Append(vstack[c], e)]
      /\ cur' = [cur EXCEPT ![c] = e.node]
      /\ offloaded' = offloaded \cup {m \in {e.node} : Offloads(c)}
      /\ pool' = pool \cup {m \in {e.node} : Offloads(c)}
  BY DEF OnStart
<1>2. e \in Entry
  BY ContextTyped, Numbers DEF Entry, Nodes
<1> QED
  BY <1>1, <1>2

\* The top of the stack exits, if there is one.
LEMMA ExitPops ==
  ASSUME TypeOK, NEW c \in Contexts, OnExit(c), ~ Silent(c)
  PROVE  /\ vstack[c] # <<>> /\ vstack' = [vstack EXCEPT ![c] = Pop(vstack[c])]
         /\ exited' = exited \cup {vstack[c][Len(vstack[c])].node}
         /\ offloaded' = offloaded \ {vstack[c][Len(vstack[c])].node}
         /\ pool' = IF vstack[c][Len(vstack[c])].node \in offloaded
                    THEN pool \ {vstack[c][Len(vstack[c])].node} ELSE pool
         /\ cur' = [cur EXCEPT ![c] = IF vstack[c][Len(vstack[c])].own
                                      THEN vstack[c][Len(vstack[c])].old ELSE cur[c]]
BY DEF OnExit, Silent, Popped, ExitedWith, Brought, Restored, Entered, Top

-----------------------------------------------------------------------------
(* No frame is lost or ended twice *)

\* The stacks as long as they were, with the same frames.
SameFrames ==
  \A c \in Contexts : /\ Len(vstack'[c]) = Len(vstack[c])
                      /\ \A i \in 1 .. Len(vstack[c]) : vstack'[c][i].node = vstack[c][i].node

\* Moving to another context changes no frame of a stack.
LEMMA MovesKeepFrames ==
  ASSUME TypeOK, Moves
  PROVE  SameFrames
<1>1. CASE UNCHANGED vstack
  BY <1>1 DEF SameFrames
<1>2. ASSUME NEW d \in Workers \cup {Main}, vstack' = [vstack EXCEPT ![d] = Stale(@)]
      PROVE  SameFrames
  <2>1. d \in Contexts
    BY DEF Contexts
  <2>2. /\ Len(Stale(vstack[d])) = Len(vstack[d])
        /\ \A i \in 1 .. Len(vstack[d]) : Stale(vstack[d])[i].node = vstack[d][i].node
    BY <2>1, ContextTyped, Spoiling
  <2>3. \A c \in Contexts : vstack'[c] = IF c = d THEN Stale(vstack[d]) ELSE vstack[c]
    BY <1>2, <2>1 DEF TypeOK
  <2> QED
    BY <2>2, <2>3 DEF SameFrames
<1> QED
  BY <1>1, <1>2 DEF Moves

\* Where the frames stay, what is held and announced stays.
LEMMA MovesKeep ==
  ASSUME FramesInv, Moves
  PROVE  HeldInv' /\ BracketInv'
<1>1. SameFrames /\ UNCHANGED <<nodes, exited, offloaded, pool>>
  BY MovesKeepFrames DEF FramesInv, Moves
<1>2. \A c \in Contexts : Len(vstack[c]) \in Nat
  BY ContextTyped DEF FramesInv
<1>5. HeldInv
  BY DEF FramesInv
<1>3. HeldInv'
  <2>1. exited' \subseteq 1 .. Len(nodes')
    BY <1>1 DEF FramesInv, HeldInv
  <2>2. ASSUME NEW c \in Contexts, NEW i \in 1 .. Len(vstack'[c])
        PROVE  /\ vstack'[c][i].node \in 1 .. Len(nodes')
               /\ nodes'[vstack'[c][i].node].trace # None
               /\ vstack'[c][i].node \notin exited'
               /\ \A d \in Contexts : \A j \in 1 .. Len(vstack'[d]) :
                    vstack'[d][j].node = vstack'[c][i].node => d = c /\ j = i
    <3>1. i \in 1 .. Len(vstack[c]) /\ vstack'[c][i].node = vstack[c][i].node
      BY <1>1, <2>2 DEF SameFrames
    <3>2. ASSUME NEW d \in Contexts, NEW j \in 1 .. Len(vstack'[d]),
                 vstack'[d][j].node = vstack'[c][i].node
          PROVE  d = c /\ j = i
      <4>1. j \in 1 .. Len(vstack[d]) /\ vstack'[d][j].node = vstack[d][j].node
        BY <1>1, <3>2 DEF SameFrames
      <4>2. vstack[d][j].node = vstack[c][i].node => d = c /\ j = i
        <5>1. \A b \in Contexts : \A k \in 1 .. Len(vstack[b]) :
                vstack[b][k].node = vstack[c][i].node => b = c /\ k = i
          BY <1>5, <3>1 DEF HeldInv
        <5> QED
          BY <4>1, <5>1
      <4> QED
        BY <3>1, <3>2, <4>1, <4>2
    <3> QED
      BY <1>1, <3>1, <3>2 DEF FramesInv, HeldInv
  <2>3. ASSUME NEW n \in 1 .. Len(nodes'), nodes'[n].trace # None, n \notin exited'
        PROVE  \E c \in Contexts : \E i \in 1 .. Len(vstack'[c]) : vstack'[c][i].node = n
    <3>1. PICK c \in Contexts : \E i \in 1 .. Len(vstack[c]) : vstack[c][i].node = n
      BY <1>1, <2>3 DEF FramesInv, HeldInv
    <3>2. PICK i \in 1 .. Len(vstack[c]) : vstack[c][i].node = n
      BY <3>1
    <3> QED
      BY <1>1, <3>2 DEF SameFrames
  <2> QED
    BY <2>1, <2>2, <2>3 DEF HeldInv
<1>4. BracketInv'
  <2>1. \A c \in Workers \cup {Main} : c \in Contexts
    BY DEF Contexts
  <2>2. \A c \in Workers \cup {Main} : Len(vstack'[c]) = Len(vstack[c])
        /\ (Len(vstack[c]) > 0 => vstack'[c][1].node = vstack[c][1].node)
    BY <1>1, <1>2, <2>1 DEF SameFrames
  <2> QED
    BY <1>1, <2>2 DEF FramesInv, BracketInv
<1> QED
  BY <1>3, <1>4

\* A frame that starts is new to every stack, and announced if it is the
\* outermost one of a context that is no task's.
LEMMA StartsKeep ==
  ASSUME FramesInv, NEW c \in Contexts, Starts(c)
  PROVE  HeldInv' /\ BracketInv'
<1> DEFINE n == Len(nodes) + 1
<1>1. TypeOK /\ HeldInv /\ BracketInv /\ Len(nodes) \in Nat /\ exited' = exited
      /\ Len(nodes) < MaxNodes /\ OnStart(c)
  BY ContextTyped DEF FramesInv, Starts
<1>2. PICK x \in Entrance :
        /\ x.trace = trace[c] /\ Len(nodes') = n /\ nodes'[n] = x
        /\ \A i \in 1 .. Len(nodes) : nodes'[i] = nodes[i]
  BY <1>1, StartRecords
<1>3. n \in Nat /\ n \in Nodes /\ n \notin exited /\ 1 .. n = (1 .. Len(nodes)) \cup {n}
      /\ n \notin 1 .. Len(nodes)
  BY <1>1, Numbers DEF HeldInv, Nodes
<1> HIDE DEF n
<1>4. exited' \subseteq 1 .. Len(nodes')
  BY <1>1, <1>2, <1>3 DEF HeldInv
<1>5. CASE trace[c] = None
  <2>1. UNCHANGED <<vstack, offloaded, pool>>
    BY <1>1, <1>5 DEF OnStart
  <2>2. BracketInv'
    BY <1>1, <2>1 DEF BracketInv
  <2>3. ASSUME NEW d \in Contexts, NEW i \in 1 .. Len(vstack'[d])
        PROVE  /\ vstack'[d][i].node \in 1 .. Len(nodes')
               /\ nodes'[vstack'[d][i].node].trace # None
               /\ vstack'[d][i].node \notin exited'
               /\ \A b \in Contexts : \A j \in 1 .. Len(vstack'[b]) :
                    vstack'[b][j].node = vstack'[d][i].node => b = d /\ j = i
    <3>1. /\ vstack[d][i].node \in 1 .. Len(nodes)
          /\ nodes[vstack[d][i].node].trace # None
          /\ vstack[d][i].node \notin exited
          /\ \A b \in Contexts : \A j \in 1 .. Len(vstack[b]) :
               vstack[b][j].node = vstack[d][i].node => b = d /\ j = i
      BY <1>1, <2>1, <2>3 DEF HeldInv
    <3> QED
      BY <1>1, <1>2, <1>3, <2>1, <3>1
  <2>4. ASSUME NEW m \in 1 .. Len(nodes'), nodes'[m].trace # None, m \notin exited'
        PROVE  \E d \in Contexts : \E i \in 1 .. Len(vstack'[d]) : vstack'[d][i].node = m
    <3>1. m \in 1 .. Len(nodes)
      BY <1>2, <1>3, <1>5, <2>4
    <3> QED
      BY <1>1, <1>2, <2>1, <2>4, <3>1 DEF HeldInv
  <2> QED
    BY <1>4, <2>2, <2>3, <2>4 DEF HeldInv
<1>6. CASE trace[c] # None
  <2>1. PICK e \in Entry :
          /\ e.node = n
          /\ vstack' = [vstack EXCEPT ![c] = Append(vstack[c], e)]
          /\ offloaded' = offloaded \cup {m \in {e.node} : Offloads(c)}
          /\ pool' = pool \cup {m \in {e.node} : Offloads(c)}
    BY <1>1, <1>6, StartPushes DEF n
  <2>2. vstack \in [Contexts -> Seq(Entry)]
    BY <1>1 DEF TypeOK
  <2>3. /\ Len(vstack[c]) \in Nat
        /\ \A d \in Contexts : /\ Len(vstack'[d]) = IF d = c THEN Len(vstack[c]) + 1 ELSE Len(vstack[d])
                               /\ d # c => vstack'[d] = vstack[d]
        /\ vstack'[c][Len(vstack[c]) + 1] = e
        /\ \A i \in 1 .. Len(vstack[c]) : vstack'[c][i] = vstack[c][i]
    BY <2>1, <2>2, PushPlaces
  <2>4. ASSUME NEW d \in Contexts, NEW i \in 1 .. Len(vstack'[d])
        PROVE  \/ i \in 1 .. Len(vstack[d]) /\ vstack'[d][i] = vstack[d][i]
               \/ d = c /\ i = Len(vstack[c]) + 1 /\ vstack'[d][i].node = n
    <3>1. CASE d = c
      BY <2>1, <2>3, <2>4, <3>1
    <3>2. CASE d # c
      BY <2>3, <2>4, <3>2
    <3> QED
      BY <3>1, <3>2
  <2>5. \A d \in Contexts : \A i \in 1 .. Len(vstack[d]) :
          i \in 1 .. Len(vstack'[d]) /\ vstack'[d][i] = vstack[d][i]
    <3>1. ASSUME NEW d \in Contexts, NEW i \in 1 .. Len(vstack[d])
          PROVE  i \in 1 .. Len(vstack'[d]) /\ vstack'[d][i] = vstack[d][i]
      <4>1. CASE d = c
        BY <2>3, <3>1, <4>1
      <4>2. CASE d # c
        BY <2>3, <3>1, <4>2
      <4> QED
        BY <4>1, <4>2
    <3> QED
      BY <3>1
  <2>6. \A d \in Contexts : \A i \in 1 .. Len(vstack[d]) : vstack[d][i].node # n
    BY <1>1, <1>3 DEF HeldInv
  <2>7. ASSUME NEW d \in Contexts, NEW i \in 1 .. Len(vstack'[d])
        PROVE  /\ vstack'[d][i].node \in 1 .. Len(nodes')
               /\ nodes'[vstack'[d][i].node].trace # None
               /\ vstack'[d][i].node \notin exited'
               /\ \A b \in Contexts : \A j \in 1 .. Len(vstack'[b]) :
                    vstack'[b][j].node = vstack'[d][i].node => b = d /\ j = i
    <3>1. CASE i \in 1 .. Len(vstack[d]) /\ vstack'[d][i] = vstack[d][i]
      <4>1. /\ vstack[d][i].node \in 1 .. Len(nodes)
            /\ nodes[vstack[d][i].node].trace # None
            /\ vstack[d][i].node \notin exited
            /\ \A b \in Contexts : \A j \in 1 .. Len(vstack[b]) :
                    vstack[b][j].node = vstack[d][i].node => b = d /\ j = i
        BY <1>1, <3>1 DEF HeldInv
      <4>2. \A b \in Contexts : \A j \in 1 .. Len(vstack'[b]) :
                    vstack'[b][j].node = vstack'[d][i].node => b = d /\ j = i
        BY <2>4, <2>6, <3>1, <4>1
      <4> QED
        BY <1>1, <1>2, <1>3, <3>1, <4>1, <4>2
    <3>2. CASE d = c /\ i = Len(vstack[c]) + 1 /\ vstack'[d][i].node = n
      <4>1. \A b \in Contexts : \A j \in 1 .. Len(vstack'[b]) :
                    vstack'[b][j].node = vstack'[d][i].node => b = d /\ j = i
        <5>1. SUFFICES ASSUME NEW b \in Contexts, NEW j \in 1 .. Len(vstack'[b]),
                              vstack'[b][j].node = vstack'[d][i].node
                       PROVE  b = d /\ j = i
          OBVIOUS
        <5>2. ~ (j \in 1 .. Len(vstack[b]) /\ vstack'[b][j] = vstack[b][j])
          BY <2>6, <3>2, <5>1
        <5> QED
          BY <2>4, <3>2, <5>2
      <4> QED
        BY <1>1, <1>2, <1>3, <1>6, <3>2, <4>1
    <3> QED
      BY <2>4, <2>7, <3>1, <3>2
  <2>8. ASSUME NEW m \in 1 .. Len(nodes'), nodes'[m].trace # None, m \notin exited'
        PROVE  \E d \in Contexts : \E i \in 1 .. Len(vstack'[d]) : vstack'[d][i].node = m
    <3>1. CASE m = n
      <4>1. Len(vstack[c]) + 1 \in 1 .. Len(vstack'[c])
        BY <2>3
      <4> QED
        BY <2>1, <2>3, <3>1, <4>1
    <3>2. CASE m \in 1 .. Len(nodes)
      <4>1. PICK d \in Contexts : \E i \in 1 .. Len(vstack[d]) : vstack[d][i].node = m
        BY <1>1, <1>2, <2>8, <3>2 DEF HeldInv
      <4>2. PICK i \in 1 .. Len(vstack[d]) : vstack[d][i].node = m
        BY <4>1
      <4> QED
        BY <2>5, <4>2
    <3> QED
      BY <1>2, <1>3, <3>1, <3>2
  <2>9. BracketInv'
    <3>1. Offloads(c) <=> c \in Workers \cup {Main} /\ Len(vstack[c]) = 0
      <4>1. vstack[c] \in Seq(Entry)
        BY <2>2
      <4>2. vstack[c] = <<>> <=> Len(vstack[c]) = 0
        BY <4>1, EmptySeq
      <4> QED
        BY <4>2, Numbers DEF Offloads, Contexts
    <3>2. ASSUME NEW m \in Nodes
          PROVE  m \in pool' <=> \E d \in Workers \cup {Main} :
                                   Len(vstack'[d]) > 0 /\ vstack'[d][1].node = m
      <4>1. \A d \in Workers \cup {Main} : d \in Contexts /\ Len(vstack[d]) \in Nat
        BY <1>1, ContextTyped DEF Contexts
      <4>2. m \in pool' <=> m \in pool \/ (m = n /\ Offloads(c))
        BY <2>1
      <4>3. ASSUME NEW d \in Workers \cup {Main}, Len(vstack[d]) > 0
            PROVE  Len(vstack'[d]) > 0 /\ vstack'[d][1] = vstack[d][1]
        <5>1. CASE d = c
          BY <2>3, <4>1, <4>3, <5>1
        <5>2. CASE d # c
          BY <2>3, <4>1, <4>3, <5>2
        <5> QED
          BY <5>1, <5>2
      <4>4. ASSUME NEW d \in Workers \cup {Main}, ~ (Len(vstack[d]) > 0), Len(vstack'[d]) > 0
            PROVE  d = c /\ Offloads(c) /\ vstack'[d][1].node = n
        BY <2>1, <2>3, <3>1, <4>1, <4>4
      <4>5. ASSUME Offloads(c)
            PROVE  c \in Workers \cup {Main} /\ Len(vstack'[c]) > 0 /\ vstack'[c][1].node = n
        BY <2>1, <2>3, <3>1, <4>5
      <4>6. m \in pool <=> \E d \in Workers \cup {Main} : Len(vstack[d]) > 0 /\ vstack[d][1].node = m
        BY <1>1 DEF BracketInv
      <4> QED
        BY <4>2, <4>3, <4>4, <4>5, <4>6
    <3>3. pool' = offloaded'
      BY <1>1, <2>1 DEF BracketInv
    <3> QED
      BY <3>2, <3>3 DEF BracketInv
  <2> QED
    BY <1>4, <2>7, <2>8, <2>9 DEF HeldInv
<1> QED
  BY <1>5, <1>6

\* A frame that is popped was on one stack only, and its announcement, if it
\* had one, is withdrawn.
LEMMA ExitsKeep ==
  ASSUME FramesInv, NEW c \in Contexts, Exits(c)
  PROVE  HeldInv' /\ BracketInv'
<1>1. TypeOK /\ HeldInv /\ BracketInv /\ OnExit(c) /\ nodes' = nodes
  BY DEF FramesInv, Exits
<1>2. CASE Silent(c)
  <2>1. UNCHANGED <<nodes, exited, vstack, offloaded, pool>>
    BY <1>1, <1>2 DEF OnExit
  <2> QED
    BY <1>1, <2>1 DEF HeldInv, BracketInv
<1>3. CASE ~ Silent(c)
  <2> DEFINE m == vstack[c][Len(vstack[c])].node
  <2>1. /\ vstack[c] # <<>> /\ vstack' = [vstack EXCEPT ![c] = Pop(vstack[c])]
        /\ exited' = exited \cup {m} /\ offloaded' = offloaded \ {m}
        /\ pool' = IF m \in offloaded THEN pool \ {m} ELSE pool
    BY <1>1, <1>3, ExitPops
  <2>2. vstack \in [Contexts -> Seq(Entry)]
    BY <1>1 DEF TypeOK
  <2>3. /\ Len(vstack[c]) \in Nat /\ Len(vstack[c]) > 0
        /\ Len(vstack'[c]) = Len(vstack[c]) - 1
        /\ \A d \in Contexts : d # c => vstack'[d] = vstack[d]
        /\ \A i \in 1 .. Len(vstack[c]) - 1 : vstack'[c][i] = vstack[c][i]
    BY <1>1, <2>1, StackPops
  <2>4. Len(vstack[c]) \in 1 .. Len(vstack[c])
    BY <2>3
  <2>5. /\ m \in 1 .. Len(nodes)
        /\ \A d \in Contexts : \A i \in 1 .. Len(vstack[d]) :
             vstack[d][i].node = m => d = c /\ i = Len(vstack[c])
    BY <1>1, <2>4 DEF HeldInv
  <2> HIDE DEF m
  <2>6. ASSUME NEW d \in Contexts, NEW i \in 1 .. Len(vstack'[d])
        PROVE  i \in 1 .. Len(vstack[d]) /\ vstack'[d][i] = vstack[d][i] /\ vstack'[d][i].node # m
    <3>1. i \in 1 .. Len(vstack[d]) /\ vstack'[d][i] = vstack[d][i] /\ ~ (d = c /\ i = Len(vstack[c]))
      <4>1. CASE d = c
        BY <2>3, <2>6, <4>1
      <4>2. CASE d # c
        BY <2>3, <2>6, <4>2
      <4> QED
        BY <4>1, <4>2
    <3> QED
      BY <2>5, <3>1
  <2>7. ASSUME NEW d \in Contexts, NEW i \in 1 .. Len(vstack[d]), vstack[d][i].node # m
        PROVE  i \in 1 .. Len(vstack'[d]) /\ vstack'[d][i] = vstack[d][i]
    <3>1. ~ (d = c /\ i = Len(vstack[c]))
      BY <2>7 DEF m
    <3>2. CASE d = c
      BY <2>3, <3>1, <3>2
    <3>3. CASE d # c
      BY <2>3, <3>3
    <3> QED
      BY <3>2, <3>3
  <2>8. exited' \subseteq 1 .. Len(nodes')
    BY <1>1, <2>1, <2>5 DEF HeldInv
  <2>9. ASSUME NEW d \in Contexts, NEW i \in 1 .. Len(vstack'[d])
        PROVE  /\ vstack'[d][i].node \in 1 .. Len(nodes')
               /\ nodes'[vstack'[d][i].node].trace # None
               /\ vstack'[d][i].node \notin exited'
               /\ \A b \in Contexts : \A j \in 1 .. Len(vstack'[b]) :
                    vstack'[b][j].node = vstack'[d][i].node => b = d /\ j = i
    <3>1. i \in 1 .. Len(vstack[d]) /\ vstack'[d][i] = vstack[d][i] /\ vstack'[d][i].node # m
      BY <2>6
    <3>2. /\ vstack[d][i].node \in 1 .. Len(nodes)
          /\ nodes[vstack[d][i].node].trace # None
          /\ vstack[d][i].node \notin exited
          /\ \A b \in Contexts : \A j \in 1 .. Len(vstack[b]) :
               vstack[b][j].node = vstack[d][i].node => b = d /\ j = i
      BY <1>1, <3>1 DEF HeldInv
    <3>3. ASSUME NEW b \in Contexts, NEW j \in 1 .. Len(vstack'[b]),
                 vstack'[b][j].node = vstack'[d][i].node
          PROVE  b = d /\ j = i
      <4>1. j \in 1 .. Len(vstack[b]) /\ vstack'[b][j] = vstack[b][j]
        BY <2>6
      <4> QED
        BY <3>1, <3>2, <3>3, <4>1
    <3> QED
      BY <1>1, <2>1, <3>1, <3>2, <3>3
  <2>10. ASSUME NEW n \in 1 .. Len(nodes'), nodes'[n].trace # None, n \notin exited'
         PROVE  \E d \in Contexts : \E i \in 1 .. Len(vstack'[d]) : vstack'[d][i].node = n
    <3>1. PICK d \in Contexts : \E i \in 1 .. Len(vstack[d]) : vstack[d][i].node = n
      BY <1>1, <2>1, <2>10 DEF HeldInv
    <3>2. PICK i \in 1 .. Len(vstack[d]) : vstack[d][i].node = n
      BY <3>1
    <3> QED
      BY <2>1, <2>7, <2>10, <3>2
  <2>11. BracketInv'
    <3>1. pool' = pool \ {m} /\ pool' = offloaded'
      BY <1>1, <2>1 DEF BracketInv
    <3>2. \A d \in Workers \cup {Main} : d \in Contexts /\ Len(vstack[d]) \in Nat /\ Len(vstack'[d]) \in Nat
      BY <1>1, <2>3, ContextTyped DEF Contexts
    <3>3. ASSUME NEW d \in Workers \cup {Main}, Len(vstack'[d]) > 0
          PROVE  Len(vstack[d]) > 0 /\ vstack'[d][1] = vstack[d][1] /\ vstack[d][1].node # m
      <4>1. 1 \in 1 .. Len(vstack'[d])
        BY <3>2, <3>3
      <4>2. 1 \in 1 .. Len(vstack[d]) /\ vstack'[d][1] = vstack[d][1] /\ vstack'[d][1].node # m
        BY <2>6, <3>2, <4>1
      <4> QED
        BY <3>2, <4>2
    <3>4. ASSUME NEW d \in Workers \cup {Main}, Len(vstack[d]) > 0, vstack[d][1].node # m
          PROVE  Len(vstack'[d]) > 0 /\ vstack'[d][1] = vstack[d][1]
      <4>1. 1 \in 1 .. Len(vstack[d])
        BY <3>2, <3>4
      <4>2. 1 \in 1 .. Len(vstack'[d]) /\ vstack'[d][1] = vstack[d][1]
        BY <2>7, <3>2, <3>4, <4>1
      <4> QED
        BY <3>2, <4>2
    <3>5. ASSUME NEW n \in Nodes
          PROVE  n \in pool' <=> \E d \in Workers \cup {Main} :
                                   Len(vstack'[d]) > 0 /\ vstack'[d][1].node = n
      <4>1. n \in pool <=> \E d \in Workers \cup {Main} : Len(vstack[d]) > 0 /\ vstack[d][1].node = n
        BY <1>1 DEF BracketInv
      <4> QED
        BY <3>1, <3>3, <3>4, <4>1
    <3> QED
      BY <3>1, <3>5 DEF BracketInv
  <2> QED
    BY <2>8, <2>9, <2>10, <2>11 DEF HeldInv
<1> QED
  BY <1>2, <1>3

\* Every step of any program keeps FramesInv.
LEMMA StepFrames ==
  ASSUME FramesInv, [Next]_vars
  PROVE  FramesInv'
<1>1. TypeOK'
  BY StepTyped DEF FramesInv
<1>2. (\E c \in Contexts : Starts(c) \/ Exits(c)) \/ Moves
  BY StackSteps DEF FramesInv
<1> QED
  BY <1>1, <1>2, StartsKeep, ExitsKeep, MovesKeep DEF FramesInv

\* No frame is recorded at first.
LEMMA InitFrames == Init => FramesInv
<1> SUFFICES ASSUME Init PROVE FramesInv
  OBVIOUS
<1>1. Len(<<>>) = 0
  OBVIOUS
<1>2. \A c \in Contexts : vstack[c] = <<>>
  BY DEF Init
<1>3. HeldInv
  BY <1>1, <1>2 DEF Init, HeldInv
<1>4. BracketInv
  BY <1>1, <1>2 DEF Init, BracketInv, Contexts
<1> QED
  BY <1>3, <1>4, InitTyped DEF FramesInv

\* A stack without repetitions has as many frames as places.
LEMMA HeldCounts ==
  ASSUME NEW s \in Seq(Entry), \A i, j \in 1 .. Len(s) : s[i].node = s[j].node => i = j
  PROVE  Cardinality({s[i].node : i \in DOMAIN s}) = Len(s)
<1> DEFINE H == {s[i].node : i \in 1 .. Len(s)}
           f == [i \in 1 .. Len(s) |-> s[i].node]
<1>1. Len(s) \in Nat /\ DOMAIN s = 1 .. Len(s)
  BY LenProperties
<1>2. f \in [1 .. Len(s) -> H]
  OBVIOUS
<1>3. f \in Injection(1 .. Len(s), H)
  BY <1>2 DEF Injection, IsInjective
<1>4. f \in Surjection(1 .. Len(s), H)
  BY <1>2 DEF Surjection
<1>5. ExistsBijection(1 .. Len(s), H)
  BY <1>3, <1>4 DEF ExistsBijection, Bijection
<1> QED
  BY <1>1, <1>5, FS_CountingElements

\* What the invariant says place by place is what the property says of sets.
LEMMA FramesDoEnd == FramesInv => FramesEnd
<1> SUFFICES ASSUME FramesInv PROVE FramesEnd
  OBVIOUS
<1> DEFINE held(c) == {vstack[c][i].node : i \in DOMAIN vstack[c]}
<1>1. TypeOK /\ HeldInv /\ BracketInv
  BY DEF FramesInv
<1>2. \A c \in Contexts : DOMAIN vstack[c] = 1 .. Len(vstack[c]) /\ Len(vstack[c]) \in Nat
                          /\ vstack[c] \in Seq(Entry)
  BY <1>1, ContextTyped, LenProperties
<1>3. ASSUME NEW c \in Contexts
      PROVE  Cardinality(held(c)) = Len(vstack[c])
  <2> DEFINE s == vstack[c]
  <2>1. s \in Seq(Entry) /\ \A i, j \in 1 .. Len(s) : s[i].node = s[j].node => i = j
    BY <1>1, <1>2 DEF HeldInv
  <2> HIDE DEF s
  <2>2. Cardinality({s[i].node : i \in DOMAIN s}) = Len(s)
    BY <2>1, HeldCounts
  <2> QED
    BY <2>2 DEF s
<1>4. ASSUME NEW c \in Contexts, NEW n
      PROVE  n \in held(c) <=> \E i \in 1 .. Len(vstack[c]) : vstack[c][i].node = n
  BY <1>2
<1> HIDE DEF held
<1>5. ASSUME NEW c \in Contexts, NEW d \in Contexts, c # d
      PROVE  held(c) \cap held(d) = {}
  <2>1. SUFFICES ASSUME NEW n, n \in held(c), n \in held(d) PROVE FALSE
    OBVIOUS
  <2>2. PICK i \in 1 .. Len(vstack[c]) : vstack[c][i].node = n
    BY <1>4, <2>1
  <2>3. PICK j \in 1 .. Len(vstack[d]) : vstack[d][j].node = n
    BY <1>4, <2>1
  <2>4. \A b \in Contexts : \A k \in 1 .. Len(vstack[b]) :
          vstack[b][k].node = vstack[c][i].node => b = c /\ k = i
    BY <1>1 DEF HeldInv
  <2> QED
    BY <1>5, <2>2, <2>3, <2>4
<1>6. UNION {held(c) : c \in Contexts} = {n \in 1 .. Len(nodes) : nodes[n].trace # None} \ exited
  <2>1. ASSUME NEW n
        PROVE  n \in UNION {held(c) : c \in Contexts} <=>
                 n \in {m \in 1 .. Len(nodes) : nodes[m].trace # None} \ exited
    <3>1. ASSUME NEW c \in Contexts, n \in held(c)
          PROVE  n \in {m \in 1 .. Len(nodes) : nodes[m].trace # None} \ exited
      BY <1>1, <1>4, <3>1 DEF HeldInv
    <3>2. ASSUME n \in {m \in 1 .. Len(nodes) : nodes[m].trace # None} \ exited
          PROVE  \E c \in Contexts : n \in held(c)
      BY <1>1, <1>4, <3>2 DEF HeldInv
    <3> QED
      BY <3>1, <3>2
  <2> QED
    BY <2>1
<1>7. EnteredOrExited
  BY <1>3, <1>5, <1>6 DEF EnteredOrExited, held
<1>8. OffloadsEnd
  <2>1. ASSUME NEW c \in Workers \cup {Main}
        PROVE  c \in Contexts /\ (vstack[c] # <<>> <=> Len(vstack[c]) > 0)
    <3>1. c \in Contexts
      BY DEF Contexts
    <3>2. vstack[c] # <<>> => Len(vstack[c]) > 0
      BY <1>2, <3>1, EmptySeq
    <3> QED
      BY <3>1, <3>2
  <2>2. pool \subseteq Nodes
    BY <1>1 DEF TypeOK
  <2>3. ASSUME NEW c \in Workers \cup {Main}, vstack[c] # <<>>
        PROVE  vstack[c][1].node \in Nodes
    <3>1. 1 \in 1 .. Len(vstack[c]) /\ vstack[c] \in Seq(Entry)
      BY <1>2, <2>1, <2>3
    <3>2. vstack[c][1] \in Entry
      BY <3>1, ElementOfSeq
    <3> QED
      BY <3>2 DEF Entry
  <2>4. ASSUME NEW n \in Nodes
        PROVE  n \in pool <=> \E c \in Workers \cup {Main} : Len(vstack[c]) > 0 /\ vstack[c][1].node = n
    BY <1>1 DEF BracketInv
  <2> QED
    BY <2>1, <2>2, <2>3, <2>4 DEF OffloadsEnd
<1> QED
  BY <1>7, <1>8 DEF FramesEnd

\* TypeOK: whatever the callbacks store is of its type.
THEOREM Typed == Spec => []TypeOK
<1> QED
  BY InitTyped, StepTyped, PTL DEF Spec

\* FramesEnd (monitor.py:416-458): in any program, with generators resumed and
\* closed anywhere, callbacks and cancellations, a recorded frame is on exactly
\* one stack until its one call_exit, and every offload_start has its
\* offload_end.
THEOREM FramesEndAlways == Spec => []FramesEnd
<1> QED
  BY InitFrames, StepFrames, FramesDoEnd, PTL DEF Spec

-----------------------------------------------------------------------------
(* Plain programs: the stacks are the program's *)

\* A program keeps its oddities, so that a plain one stays plain.
LEMMA OddStays == [Next]_vars => odd' = odd
BY DEF Next, Call, Return, GenYields, GenResumes, GenCloses, Begin, Spawn, Await, Offload, Resume,
       Cancelled, Finish, RunCallback, JobEnds, CallbackEnds, Tick, vars, program

\* Who executes: a task that is running, or a worker that is busy.
LEMMA WhoExecutes ==
  ASSUME TypeOK, QuietInv, NEW c \in Contexts, Executing(c)
  PROVE  /\ c # Main
         /\ c \in Tasks => run = c /\ mode[c] = "running"
         /\ c \notin Tasks => c \in Workers /\ mode[c] = "busy"
BY Numbers DEF TypeOK, QuietInv, Executing, Contexts

\* The steps of a plain program.
PlainNext ==
  \/ \E c \in Contexts : (\E kind \in {"coro", "func"} : Call(c, kind)) \/ Return(c)
  \/ \E c \in Tasks :
       \/ \E id \in {c, None} : Begin(c, id)
       \/ \E d \in Tasks : Spawn(c, d)
       \/ Await(c)
       \/ \E w \in Workers : Offload(c, w)
       \/ Resume(c)
       \/ Finish(c)
  \/ \E w \in Workers : JobEnds(w)
  \/ Tick
  \/ UNCHANGED vars

\* Of a plain program's steps, those of generators, callbacks and cancellations
\* cannot be taken.
LEMMA PlainSteps ==
  ASSUME TypeOK, Plain, QuietInv, [Next]_vars
  PROVE  PlainNext
<1>1. ASSUME NEW c \in Contexts, NEW kind \in Kinds, Call(c, kind)
      PROVE  kind \in {"coro", "func"}
  BY <1>1 DEF Call, Plain, Kinds
<1>2. ASSUME NEW c \in Contexts
      PROVE  ~ GenYields(c) /\ ~ GenResumes(c) /\ ~ GenCloses(c)
  <2>1. ASSUME real[c] # <<>>
        PROVE  Top(real[c]).kind \in {"coro", "func"}
    <3>1. real[c] \in Seq(Frame)
      BY ContextTyped
    <3>2. Len(real[c]) \in 1 .. Len(real[c])
      BY <2>1, <3>1, EmptySeq
    <3> QED
      BY <3>2 DEF QuietInv, QuietAt, Top
  <2> QED
    BY <2>1 DEF GenYields, GenResumes, GenCloses, QuietInv
<1>3. \A c \in Contexts : ~ Cancelled(c) /\ ~ RunCallback(c)
  BY DEF Cancelled, RunCallback, Plain
<1>4. ~ CallbackEnds
  BY DEF CallbackEnds, QuietInv
<1>5. \A c \in Tasks : c \in Contexts
  BY DEF Contexts
<1> QED
  BY <1>1, <1>2, <1>3, <1>4, <1>5, Zenon DEF Next, PlainNext

\* What is about a context stays so where nothing of the context changes.
SameAt(c) ==
  /\ real'[c] = real[c] /\ vstack'[c] = vstack[c] /\ trace'[c] = trace[c]
  /\ cur'[c] = cur[c] /\ inherited'[c] = inherited[c]
  /\ c # Main => mode'[c] = mode[c]

\* It is as quiet as it was, and mirrors what it did.
LEMMA SameStaysQuiet ==
  ASSUME NEW c \in Contexts, SameAt(c), QuietAt(c), MirrorAt(c)
  PROVE  QuietAt(c)' /\ MirrorAt(c)'
BY Numbers DEF SameAt, QuietAt, MirrorAt, Traced

\* A frame enters or leaves one context only.
LEMMA FrameStepsElsewhere ==
  ASSUME TypeOK, NEW c \in Contexts, (\E kind \in Kinds : Call(c, kind)) \/ Return(c)
  PROVE  \A d \in Contexts : d # c => SameAt(d)
<1>1. UNCHANGED <<mode, trace, inherited>>
  BY DEF Call, Return
<1>2. \A d \in Contexts : d # c => real'[d] = real[d]
  BY DEF Call, Return, TypeOK
<1>3. OnStart(c) \/ OnExit(c)
  BY DEF Call, Return
<1>4. \A d \in Contexts : d # c => vstack'[d] = vstack[d] /\ cur'[d] = cur[d]
  <2>1. CASE OnStart(c)
    BY <2>1, Zenon DEF OnStart, TypeOK
  <2>2. CASE OnExit(c)
    BY <2>2, Zenon DEF OnExit, TypeOK
  <2> QED
    BY <1>3, <2>1, <2>2
<1> QED
  BY <1>1, <1>2, <1>4 DEF SameAt

\* What the other steps of a plain program do to a context.
LEMMA BeginAt ==
  ASSUME TypeOK, NEW c \in Tasks, NEW id \in {c, None}, Begin(c, id)
  PROVE  /\ c \in Contexts /\ run = None /\ run' = c /\ mode[c] = "new" /\ mode'[c] = "running"
         /\ trace'[c] = id
         /\ UNCHANGED <<odd, real, awaits, inherited, gens, now, gained, vstack, cur, active,
                        offloaded, nodes, exited, pool, spans, waits>>
         /\ \A d \in Contexts : d # c => SameAt(d)
<1>1. c \in Contexts /\ c \in Tasks \cup Workers
  BY DEF Contexts
<1>2. \A d \in Contexts : d # Main => d \in Tasks \cup Workers
  BY DEF Contexts
<1> QED
  BY <1>1, <1>2 DEF Begin, SameAt, TypeOK, emitted

\* A child task is made.
LEMMA SpawnAt ==
  ASSUME TypeOK, NEW c \in Tasks, NEW d \in Tasks, Spawn(c, d)
  PROVE  /\ c \in Contexts /\ d \in Contexts /\ run = c /\ mode[d] = "new" /\ mode'[d] = "parked"
         /\ trace'[d] = trace[c] /\ cur'[d] = cur[c] /\ inherited'[d] = TrueTop(c)
         /\ UNCHANGED <<odd, real, run, awaits, gens, now, gained, vstack, active, offloaded,
                        nodes, exited, pool, spans, waits>>
         /\ \A b \in Contexts : b # d => SameAt(b)
<1>1. c \in Contexts /\ d \in Contexts /\ d \in Tasks \cup Workers
  BY DEF Contexts
<1>2. \A b \in Contexts : b # Main => b \in Tasks \cup Workers
  BY DEF Contexts
<1> QED
  BY <1>1, <1>2 DEF Spawn, SameAt, TypeOK, emitted

\* A task gives the loop back or gets it.
LEMMA LoopAt ==
  ASSUME TypeOK, NEW c \in Tasks, Await(c) \/ Finish(c) \/ Resume(c)
  PROVE  /\ c \in Contexts
         /\ Await(c) => run = c /\ run' = None /\ mode'[c] = "parked"
         /\ Finish(c) => run = c /\ run' = None /\ mode'[c] = "done"
         /\ Resume(c) => run = None /\ run' = c /\ mode[c] = "parked" /\ mode'[c] = "running"
         /\ UNCHANGED <<odd, real, awaits, inherited, gens, now, trace, vstack, cur, offloaded,
                        nodes, exited, pool>>
         /\ \A d \in Contexts : d # c => SameAt(d)
<1>1. c \in Contexts /\ c \in Tasks \cup Workers
  BY DEF Contexts
<1>2. \A b \in Contexts : b # Main => b \in Tasks \cup Workers
  BY DEF Contexts
<1>3. UNCHANGED <<odd, real, awaits, inherited, gens, now, trace, vstack, cur, offloaded,
                  nodes, exited, pool>>
  BY DEF Await, Finish, Resume, beliefs, emitted
<1>4. /\ Await(c) => run = c /\ run' = None /\ mode'[c] = "parked"
      /\ Finish(c) => run = c /\ run' = None /\ mode'[c] = "done"
      /\ Resume(c) => run = None /\ run' = c /\ mode[c] = "parked" /\ mode'[c] = "running"
  BY <1>1 DEF Await, Finish, Resume, Park, TypeOK
<1>5. \A d \in Tasks \cup Workers : d # c => mode'[d] = mode[d]
  BY <1>1 DEF Await, Finish, Resume, TypeOK
<1> QED
  BY <1>1, <1>2, <1>3, <1>4, <1>5 DEF SameAt

\* A task hands a call to a worker.
LEMMA OffloadAt ==
  ASSUME TypeOK, NEW c \in Tasks, NEW w \in Workers, Offload(c, w)
  PROVE  /\ c \in Contexts /\ w \in Contexts /\ c # w /\ c # Main /\ w # Main
         /\ run = c /\ run' = None
         /\ mode[w] = "idle" /\ mode'[w] = "busy" /\ mode'[c] = "parked"
         /\ trace'[w] = trace[c] /\ cur'[w] = cur[c] /\ inherited'[w] = TrueTop(c)
         /\ vstack'[w] = Stale(vstack[w]) /\ vstack'[c] = vstack[c] /\ trace'[c] = trace[c]
         /\ cur'[c] = cur[c] /\ inherited'[c] = inherited[c]
         /\ UNCHANGED <<odd, real, gens, now, gained, offloaded, nodes, exited, pool>>
         /\ \A d \in Contexts : d # c /\ d # w => SameAt(d)
<1>1. /\ c \in Contexts /\ c \in Tasks \cup Workers /\ w \in Contexts /\ w \in Tasks \cup Workers
      /\ c # w /\ c # Main /\ w # Main
  BY Numbers DEF Contexts
<1>2. \A b \in Contexts : b # Main => b \in Tasks \cup Workers
  BY DEF Contexts
<1>3. /\ run = c /\ run' = None /\ mode[w] = "idle"
      /\ mode' = [mode EXCEPT ![c] = "parked", ![w] = "busy"]
      /\ trace' = [trace EXCEPT ![w] = trace[c]]
      /\ cur' = [cur EXCEPT ![w] = cur[c]]
      /\ vstack' = [vstack EXCEPT ![w] = Stale(vstack[w])]
      /\ inherited' = [inherited EXCEPT ![w] = TrueTop(c)]
      /\ UNCHANGED <<odd, real, gens, now, gained, offloaded, nodes, exited, pool>>
  BY DEF Offload, Park
<1>4. /\ mode'[w] = "busy" /\ mode'[c] = "parked"
      /\ \A d \in Tasks \cup Workers : d # c /\ d # w => mode'[d] = mode[d]
  BY <1>1, <1>3 DEF TypeOK
<1>5. /\ trace'[w] = trace[c] /\ \A d \in Contexts : d # w => trace'[d] = trace[d]
      /\ cur'[w] = cur[c] /\ \A d \in Contexts : d # w => cur'[d] = cur[d]
  BY <1>1, <1>3 DEF TypeOK
<1>6. /\ vstack'[w] = Stale(vstack[w]) /\ \A d \in Contexts : d # w => vstack'[d] = vstack[d]
      /\ inherited'[w] = TrueTop(c) /\ \A d \in Contexts : d # w => inherited'[d] = inherited[d]
  BY <1>1, <1>3 DEF TypeOK
<1> QED
  BY <1>1, <1>2, <1>3, <1>4, <1>5, <1>6 DEF SameAt

\* A worker's job is over.
LEMMA JobEndsAt ==
  ASSUME TypeOK, NEW w \in Workers, JobEnds(w)
  PROVE  /\ w \in Contexts /\ real[w] = <<>> /\ mode'[w] = "idle"
         /\ trace'[w] = None /\ cur'[w] = None /\ inherited'[w] = None
         /\ UNCHANGED <<odd, real, run, gens, now, gained, vstack, active, offloaded,
                        nodes, exited, pool, spans, waits>>
         /\ \A d \in Contexts : d # w => SameAt(d)
<1>1. w \in Contexts /\ w \in Tasks \cup Workers
  BY DEF Contexts
<1>2. \A b \in Contexts : b # Main => b \in Tasks \cup Workers
  BY DEF Contexts
<1> QED
  BY <1>1, <1>2 DEF JobEnds, SameAt, TypeOK, emitted

\* Time passes, or nothing happens.
LEMMA TickAt ==
  ASSUME Tick \/ UNCHANGED vars
  PROVE  /\ UNCHANGED <<odd, real, run, mode, awaits, inherited, gens, gained, trace, vstack, cur,
                        active, offloaded, nodes, exited, pool, spans, waits>>
         /\ \A d \in Contexts : SameAt(d)
BY DEF Tick, vars, program, beliefs, emitted, SameAt

\* A call: both stacks get the frame, if there is a trace.
LEMMA CallKeepsStacks ==
  ASSUME TypeOK, QuietInv, MirrorInv,
         NEW c \in Contexts, NEW kind \in {"coro", "func"}, Call(c, kind)
  PROVE  QuietInv' /\ MirrorInv'
<1> DEFINE f == [node |-> Len(nodes) + 1, kind |-> kind]
<1>1. Executing(c) /\ OnStart(c)
      /\ real' = [real EXCEPT ![c] = Append(real[c], f)]
      /\ UNCHANGED <<odd, run, mode, awaits, inherited, gens, now, trace>>
  BY DEF Call
<1>2. Len(nodes) < MaxNodes
  <2>1. Len(nodes) \in Nat /\ (Len(nodes) < MaxNodes \/ Len(nodes) < OddNodes)
    BY ContextTyped DEF Call
  <2> QED
    BY <2>1, Numbers
<1>3. f \in Frame /\ real \in [Contexts -> Seq(Frame)] /\ vstack \in [Contexts -> Seq(Entry)]
  <2>1. Len(nodes) + 1 \in Nodes /\ kind \in Kinds
    BY <1>2, ContextTyped, Numbers DEF Nodes, Kinds
  <2> QED
    BY <2>1 DEF TypeOK, Frame
<1>4. f.kind \in {"coro", "func"} /\ f.node = Len(nodes) + 1
  OBVIOUS
<1> HIDE DEF f
<1>5. /\ Len(real[c]) \in Nat /\ Len(real'[c]) = Len(real[c]) + 1
      /\ real'[c][Len(real[c]) + 1] = f
      /\ \A i \in 1 .. Len(real[c]) : real'[c][i] = real[c][i]
  BY <1>1, <1>3, PushPlaces
<1>6. /\ c # Main
      /\ c \in Tasks => mode[c] = "running"
      /\ c \notin Tasks => c \in Workers /\ mode[c] = "busy"
  BY <1>1, WhoExecutes
<1>7. \A d \in Contexts : d # c => SameAt(d)
  BY FrameStepsElsewhere DEF Kinds
<1>8. QuietAt(c) /\ MirrorAt(c)
  BY DEF QuietInv, MirrorInv
<1>9. QuietAt(c)'
  <2>1. ASSUME NEW i \in 1 .. Len(real'[c])
        PROVE  real'[c][i].kind \in {"coro", "func"}
    <3>1. i = Len(real[c]) + 1 \/ i \in 1 .. Len(real[c])
      BY <1>5
    <3> QED
      BY <1>4, <1>5, <1>8, <3>1 DEF QuietAt
  <2>2. ~ (c \in Tasks /\ mode'[c] = "new") /\ ~ (c \in Workers /\ mode'[c] = "idle")
    BY <1>1, <1>6, Numbers
  <2> QED
    BY <2>1, <2>2 DEF QuietAt
<1>10. MirrorAt(c)'
  <2>1. CASE trace[c] = None
    <3>1. vstack' = vstack
      BY <1>1, <2>1 DEF OnStart
    <3>2. Len(vstack[c]) = 0
      BY <1>8, <2>1 DEF MirrorAt, Traced
    <3> QED
      BY <1>1, <2>1, <3>1, <3>2 DEF MirrorAt, Traced
  <2>2. CASE trace[c] # None
    <3>1. PICK e \in Entry :
            e.node = Len(nodes) + 1 /\ vstack' = [vstack EXCEPT ![c] = Append(vstack[c], e)]
      BY <1>1, <1>2, <2>2, StartPushes
    <3>2. /\ Len(vstack[c]) \in Nat
          /\ Len(vstack'[c]) = Len(vstack[c]) + 1
          /\ vstack'[c][Len(vstack[c]) + 1] = e
          /\ \A i \in 1 .. Len(vstack[c]) : vstack'[c][i] = vstack[c][i]
      BY <1>3, <3>1, PushPlaces
    <3>3. /\ Len(vstack[c]) = Len(real[c])
          /\ \A i \in 1 .. Len(vstack[c]) : vstack[c][i].node = real[c][i].node
      BY <1>8, <2>2 DEF MirrorAt, Traced
    <3>4. Len(vstack'[c]) = Len(real'[c])
      BY <1>5, <3>2, <3>3
    <3>5. ASSUME NEW i \in 1 .. Len(vstack'[c])
          PROVE  vstack'[c][i].node = real'[c][i].node
      <4>1. CASE i = Len(vstack[c]) + 1
        BY <1>4, <1>5, <3>1, <3>2, <3>3, <4>1
      <4>2. CASE i \in 1 .. Len(vstack[c])
        BY <1>5, <3>2, <3>3, <4>2
      <4>3. i = Len(vstack[c]) + 1 \/ i \in 1 .. Len(vstack[c])
        BY <3>2
      <4> QED
        BY <4>1, <4>2, <4>3
    <3> QED
      BY <1>1, <2>2, <3>4, <3>5 DEF MirrorAt, Traced
  <2> QED
    BY <2>1, <2>2
<1>11. \A d \in Contexts : QuietAt(d)' /\ MirrorAt(d)'
  BY <1>7, <1>9, <1>10, SameStaysQuiet DEF QuietInv, MirrorInv
<1> QED
  BY <1>1, <1>11 DEF QuietInv, MirrorInv

\* A return: both stacks lose their top.
LEMMA ReturnKeepsStacks ==
  ASSUME TypeOK, QuietInv, MirrorInv, NEW c \in Contexts, Return(c)
  PROVE  QuietInv' /\ MirrorInv'
<1>1. Executing(c) /\ OnExit(c) /\ real[c] # <<>>
      /\ real' = [real EXCEPT ![c] = Pop(real[c])]
      /\ UNCHANGED <<odd, run, mode, awaits, inherited, gens, now, trace>>
  BY DEF Return
<1>3. real \in [Contexts -> Seq(Frame)] /\ vstack \in [Contexts -> Seq(Entry)]
  BY DEF TypeOK
<1>5. /\ Len(real[c]) \in Nat /\ Len(real[c]) > 0 /\ Len(real'[c]) = Len(real[c]) - 1
      /\ \A i \in 1 .. Len(real[c]) - 1 : real'[c][i] = real[c][i]
  BY <1>1, RealPops
<1>6. /\ c # Main
      /\ c \in Tasks => mode[c] = "running"
      /\ c \notin Tasks => c \in Workers /\ mode[c] = "busy"
  BY <1>1, WhoExecutes
<1>7. \A d \in Contexts : d # c => SameAt(d)
  BY FrameStepsElsewhere
<1>8. QuietAt(c) /\ MirrorAt(c)
  BY DEF QuietInv, MirrorInv
<1>9. QuietAt(c)'
  <2>1. ASSUME NEW i \in 1 .. Len(real'[c])
        PROVE  real'[c][i].kind \in {"coro", "func"}
    <3>1. i \in 1 .. Len(real[c]) - 1 /\ i \in 1 .. Len(real[c])
      BY <1>5
    <3> QED
      BY <1>5, <1>8, <3>1 DEF QuietAt
  <2>2. ~ (c \in Tasks /\ mode'[c] = "new") /\ ~ (c \in Workers /\ mode'[c] = "idle")
    BY <1>1, <1>6, Numbers
  <2> QED
    BY <2>1, <2>2 DEF QuietAt
<1>10. MirrorAt(c)'
  <2>1. CASE trace[c] = None
    <3>1. vstack' = vstack
      BY <1>1, <2>1 DEF OnExit, Silent
    <3>2. Len(vstack[c]) = 0
      BY <1>8, <2>1 DEF MirrorAt, Traced
    <3> QED
      BY <1>1, <2>1, <3>1, <3>2 DEF MirrorAt, Traced
  <2>2. CASE trace[c] # None
    <3>1. /\ Len(vstack[c]) = Len(real[c])
          /\ \A i \in 1 .. Len(vstack[c]) : vstack[c][i].node = real[c][i].node
      BY <1>8, <2>2 DEF MirrorAt, Traced
    <3>2. vstack[c] # <<>> /\ ~ Silent(c)
      <4>1. Len(<<>>) = 0
        OBVIOUS
      <4>2. vstack[c] # <<>>
        BY <1>5, <3>1, <4>1
      <4> QED
        BY <2>2, <4>2 DEF Silent
    <3>3. vstack' = [vstack EXCEPT ![c] = Pop(vstack[c])]
      BY <1>1, <3>2, ExitPops
    <3>4. /\ Len(vstack'[c]) = Len(vstack[c]) - 1
          /\ \A i \in 1 .. Len(vstack[c]) - 1 : vstack'[c][i] = vstack[c][i]
      BY <3>2, <3>3, StackPops
    <3>5. ASSUME NEW i \in 1 .. Len(vstack'[c])
          PROVE  vstack'[c][i].node = real'[c][i].node
      <4>1. i \in 1 .. Len(real[c]) - 1 /\ i \in 1 .. Len(real[c])
        BY <1>5, <3>1, <3>4
      <4> QED
        BY <1>5, <3>1, <3>4, <4>1
    <3> QED
      BY <1>1, <1>5, <2>2, <3>1, <3>4, <3>5 DEF MirrorAt, Traced
  <2> QED
    BY <2>1, <2>2
<1>11. \A d \in Contexts : QuietAt(d)' /\ MirrorAt(d)'
  BY <1>7, <1>9, <1>10, SameStaysQuiet DEF QuietInv, MirrorInv
<1> QED
  BY <1>1, <1>11 DEF QuietInv, MirrorInv

\* Where nothing runs there is nothing on the stack, so that whoever takes the
\* context next starts with an empty one.
LEMMA RestKeepsStacks ==
  ASSUME TypeOK, QuietInv, MirrorInv,
         \/ \E c \in Tasks :
              \/ \E id \in {c, None} : Begin(c, id)
              \/ \E d \in Tasks : Spawn(c, d)
              \/ Await(c)
              \/ \E w \in Workers : Offload(c, w)
              \/ Resume(c)
              \/ Finish(c)
         \/ \E w \in Workers : JobEnds(w)
         \/ Tick
         \/ UNCHANGED vars
  PROVE  QuietInv' /\ MirrorInv'
<1>0. /\ \A c \in Contexts : QuietAt(c) /\ MirrorAt(c)
      /\ \A c \in Contexts : SameAt(c) => QuietAt(c)' /\ MirrorAt(c)'
      /\ Main \in Contexts
  BY SameStaysQuiet DEF QuietInv, MirrorInv, Contexts
<1> DEFINE Kept == /\ run' # Main /\ gens' = {} /\ trace'[Main] = None
                   /\ run' \in Tasks => mode'[run'] = "running"
                   /\ \A c \in Contexts : QuietAt(c)' /\ MirrorAt(c)'
<1>10. SUFFICES Kept
  BY DEF QuietInv, MirrorInv
<1>11. run # Main /\ gens = {} /\ trace[Main] = None /\ (run \in Tasks => mode[run] = "running")
  BY DEF QuietInv
<1>12. \A c \in Contexts : SameAt(c) /\ c # Main => mode'[c] = mode[c]
  BY DEF SameAt
<1>13. SameAt(Main) => trace'[Main] = None
  BY <1>11 DEF SameAt
<1>14. \A c \in Contexts : Len(vstack[c]) \in Nat /\ (real[c] = <<>> => Len(vstack[c]) = 0)
  BY <1>0, ContextTyped DEF MirrorAt
<1>1. ASSUME NEW c \in Tasks, NEW id \in {c, None}, Begin(c, id)
      PROVE  Kept
  <2>1. /\ c \in Contexts /\ run' = c /\ mode[c] = "new" /\ mode'[c] = "running"
        /\ UNCHANGED <<real, gens, vstack>>
        /\ \A d \in Contexts : d # c => SameAt(d)
    BY <1>1, BeginAt
  <2>2. real[c] = <<>> /\ Len(vstack[c]) = 0
    BY <1>0, <1>14, <2>1 DEF QuietAt
  <2>3. QuietAt(c)'
    BY <2>1, <2>2, Numbers DEF QuietAt
  <2>4. MirrorAt(c)'
    BY <2>1, <2>2 DEF MirrorAt
  <2> QED
    BY <1>0, <1>11, <1>13, <2>1, <2>3, <2>4, Numbers
<1>2. ASSUME NEW c \in Tasks, NEW d \in Tasks, Spawn(c, d)
      PROVE  Kept
  <2>1. /\ c \in Contexts /\ d \in Contexts /\ run = c /\ mode[d] = "new" /\ mode'[d] = "parked"
        /\ UNCHANGED <<real, gens, vstack, run>>
        /\ \A b \in Contexts : b # d => SameAt(b)
    BY <1>2, SpawnAt
  <2>2. real[d] = <<>> /\ Len(vstack[d]) = 0 /\ c # d
    BY <1>0, <1>11, <1>14, <2>1 DEF QuietAt
  <2>3. QuietAt(d)'
    BY <2>1, <2>2, Numbers DEF QuietAt
  <2>4. MirrorAt(d)'
    BY <2>1, <2>2 DEF MirrorAt
  <2> QED
    BY <1>0, <1>11, <1>12, <1>13, <2>1, <2>2, <2>3, <2>4, Numbers
<1>3. ASSUME NEW c \in Tasks, Await(c) \/ Finish(c) \/ Resume(c)
      PROVE  Kept
  <2>1. /\ c \in Contexts /\ mode'[c] \in {"parked", "done", "running"}
        /\ (run' = None \/ (run' = c /\ mode'[c] = "running"))
        /\ UNCHANGED <<real, gens, vstack, trace>>
        /\ \A b \in Contexts : b # c => SameAt(b)
    BY <1>3, LoopAt
  <2>2. QuietAt(c)'
    BY <1>0, <2>1, Numbers DEF QuietAt
  <2>3. MirrorAt(c)'
    BY <1>0, <2>1 DEF MirrorAt, Traced
  <2> QED
    BY <1>0, <1>11, <1>13, <2>1, <2>2, <2>3, Numbers
<1>4. ASSUME NEW c \in Tasks, NEW w \in Workers, Offload(c, w)
      PROVE  Kept
  <2>1. /\ c \in Contexts /\ w \in Contexts /\ c # w /\ c # Main /\ w # Main /\ run' = None
        /\ mode[w] = "idle" /\ mode'[w] = "busy" /\ mode'[c] = "parked"
        /\ vstack'[w] = Stale(vstack[w]) /\ vstack'[c] = vstack[c] /\ trace'[c] = trace[c]
        /\ UNCHANGED <<real, gens>>
        /\ \A b \in Contexts : b # c /\ b # w => SameAt(b)
    BY <1>4, OffloadAt
  <2>2. real[w] = <<>> /\ Len(vstack[w]) = 0
    BY <1>0, <1>14, <2>1 DEF QuietAt
  <2>3. Len(vstack'[w]) = 0
    BY <2>1, <2>2, ContextTyped, Spoiling
  <2>4. QuietAt(c)' /\ QuietAt(w)'
    BY <1>0, <2>1, <2>2, Numbers DEF QuietAt
  <2>5. MirrorAt(c)' /\ MirrorAt(w)'
    BY <1>0, <2>1, <2>2, <2>3 DEF MirrorAt, Traced
  <2> QED
    BY <1>0, <1>11, <1>13, <2>1, <2>4, <2>5, Numbers
<1>5. ASSUME NEW w \in Workers, JobEnds(w)
      PROVE  Kept
  <2>1. /\ w \in Contexts /\ real[w] = <<>> /\ trace'[w] = None /\ w # Main /\ w \notin Tasks
        /\ UNCHANGED <<real, gens, run, vstack>>
        /\ \A b \in Contexts : b # w => SameAt(b)
    BY <1>5, JobEndsAt, Numbers
  <2>2. Len(vstack[w]) = 0
    BY <1>14, <2>1
  <2>3. QuietAt(w)'
    BY <2>1, Numbers DEF QuietAt
  <2>4. MirrorAt(w)'
    BY <2>1, <2>2 DEF MirrorAt
  <2>5. run \in Tasks => run \in Contexts /\ run # w /\ run # Main
    BY <2>1, Numbers DEF Contexts
  <2> QED
    BY <1>0, <1>11, <1>12, <1>13, <2>1, <2>3, <2>4, <2>5
<1>6. CASE Tick \/ UNCHANGED vars
  <2>1. UNCHANGED <<run, gens, mode>> /\ \A b \in Contexts : SameAt(b)
    BY <1>6, TickAt
  <2> QED
    BY <1>0, <1>11, <1>13, <2>1
<1> QED
  BY <1>1, <1>2, <1>3, <1>4, <1>5, <1>6

\* Every step keeps the stacks those of the program.
LEMMA StepStacks ==
  ASSUME StacksInv, [Next]_vars
  PROVE  StacksInv'
<1>1. FramesInv' /\ (Plain' => Plain)
  BY StepFrames, OddStays DEF StacksInv, Plain
<1>2. ASSUME Plain
      PROVE  QuietInv' /\ MirrorInv'
  <2>1. TypeOK /\ QuietInv /\ MirrorInv
    BY <1>2 DEF StacksInv, FramesInv
  <2>2. PlainNext
    BY <1>2, <2>1, PlainSteps
  <2> QED
    BY <1>2, <2>1, <2>2, CallKeepsStacks, ReturnKeepsStacks, RestKeepsStacks, Zenon DEF PlainNext
<1> QED
  BY <1>1, <1>2 DEF StacksInv

\* All stacks are empty at first.
LEMMA InitStacks == Init => StacksInv
<1> SUFFICES ASSUME Init PROVE StacksInv
  OBVIOUS
<1>1. Len(<<>>) = 0
  OBVIOUS
<1>2. QuietInv
  BY <1>1, Numbers DEF Init, QuietInv, QuietAt, Contexts
<1>3. MirrorInv
  BY <1>1 DEF Init, MirrorInv, MirrorAt, Traced
<1> QED
  BY <1>2, <1>3, InitFrames DEF StacksInv

\* The top of a stack is the frame on top of the program's.
LEMMA Mirrored ==
  ASSUME TypeOK, MirrorInv, NEW c \in Contexts
  PROVE  /\ Len(real[c]) \in Nat /\ (real[c] = <<>> <=> Len(real[c]) = 0)
         /\ Silent(c) <=> ~ Traced(c) \/ real[c] = <<>>
         /\ ~ Silent(c) => /\ Len(vstack[c]) = Len(real[c]) /\ Len(vstack[c]) \in 1 .. Len(vstack[c])
                           /\ Entered(c) = vstack[c][Len(vstack[c])]
                           /\ Entered(c).node = Top(real[c]).node /\ Entered(c).node \in Nodes
         /\ \A i \in 1 .. Len(vstack[c]) : vstack[c][i].node = real[c][i].node
<1>1. real[c] \in Seq(Frame) /\ vstack[c] \in Seq(Entry) /\ Len(real[c]) \in Nat
  BY ContextTyped
<1>2. (real[c] = <<>> <=> Len(real[c]) = 0) /\ (vstack[c] = <<>> <=> Len(vstack[c]) = 0)
  BY <1>1, EmptySeq
<1>3. MirrorAt(c)
  BY DEF MirrorInv
<1>4. Silent(c) <=> ~ Traced(c) \/ real[c] = <<>>
  BY <1>2, <1>3 DEF Silent, Traced, MirrorAt
<1>5. ASSUME ~ Silent(c)
      PROVE  /\ Len(vstack[c]) = Len(real[c]) /\ Len(vstack[c]) \in 1 .. Len(vstack[c])
             /\ Entered(c) = vstack[c][Len(vstack[c])]
             /\ Entered(c).node = Top(real[c]).node /\ Entered(c).node \in Nodes
  <2>1. Len(vstack[c]) = Len(real[c])
    BY <1>3, <1>4, <1>5 DEF MirrorAt
  <2>2. /\ Len(vstack[c]) \in 1 .. Len(vstack[c]) /\ Entered(c) = vstack[c][Len(vstack[c])]
        /\ Entered(c).node \in Nodes
    BY <1>5, EnteredTyped
  <2>3. Top(real[c]) = real[c][Len(real[c])]
    BY DEF Top
  <2> QED
    BY <1>3, <2>1, <2>2, <2>3 DEF MirrorAt
<1> QED
  BY <1>1, <1>2, <1>3, <1>4, <1>5 DEF MirrorAt

\* Stacks that agree place by place are the ones FramesAreThere compares.
LEMMA StacksAreThere == StacksInv => FramesAreThere
<1> SUFFICES ASSUME StacksInv, Plain PROVE StackMirrors /\ OffloadBracket
  BY DEF FramesAreThere
<1>1. TypeOK /\ HeldInv /\ BracketInv /\ QuietInv /\ MirrorInv
  BY DEF StacksInv, FramesInv
<1>2. ASSUME NEW c \in Contexts
      PROVE  [i \in DOMAIN vstack[c] |-> vstack[c][i].node]
               = IF Traced(c) THEN [i \in DOMAIN real[c] |-> real[c][i].node] ELSE <<>>
  <2>1. real[c] \in Seq(Frame) /\ vstack[c] \in Seq(Entry)
    BY <1>1, ContextTyped
  <2>2. DOMAIN vstack[c] = 1 .. Len(vstack[c]) /\ DOMAIN real[c] = 1 .. Len(real[c])
    BY <2>1, LenProperties
  <2>3. MirrorAt(c)
    BY <1>1 DEF MirrorInv
  <2>4. CASE Traced(c)
    BY <2>2, <2>3, <2>4 DEF MirrorAt
  <2>5. CASE ~ Traced(c)
    <3> DEFINE none == [i \in 1 .. 0 |-> vstack[c][i].node]
    <3>1. none \in [1 .. 0 -> Nodes] /\ 0 \in Nat
      OBVIOUS
    <3>2. none \in Seq(Nodes)
      BY <3>1, SeqDef
    <3>3. DOMAIN none = 1 .. Len(none) /\ Len(none) \in Nat /\ DOMAIN none = {}
      BY <3>1, <3>2, LenProperties
    <3>4. none = <<>>
      BY <3>2, <3>3, EmptySeq
    <3> QED
      BY <2>2, <2>3, <2>5, <3>4 DEF MirrorAt
  <2> QED
    BY <2>4, <2>5
<1>3. StackMirrors
  BY <1>2 DEF StackMirrors
<1>4. ASSUME NEW c \in Workers \cup {Main}
      PROVE  /\ Len(vstack[c]) > 0 <=> c \in Workers /\ Traced(c) /\ real[c] # <<>>
             /\ Len(vstack[c]) > 0 => vstack[c][1].node = real[c][1].node /\ real[c][1].node \in Nodes
  <2>1. c \in Contexts /\ MirrorAt(c) /\ Len(vstack[c]) \in Nat
    BY <1>1, ContextTyped DEF Contexts, MirrorInv
  <2>2. Len(real[c]) \in Nat /\ (real[c] = <<>> <=> Len(real[c]) = 0)
    BY <1>1, <2>1, Mirrored
  <2>3. ~ Traced(Main)
    BY <1>1 DEF QuietInv, Traced
  <2>4. Len(vstack[c]) > 0 <=> c \in Workers /\ Traced(c) /\ real[c] # <<>>
    BY <2>1, <2>2, <2>3 DEF MirrorAt
  <2>5. ASSUME Len(vstack[c]) > 0
        PROVE  vstack[c][1].node = real[c][1].node /\ real[c][1].node \in Nodes
    <3>1. 1 \in 1 .. Len(vstack[c]) /\ vstack[c] \in Seq(Entry)
      BY <1>1, <2>1, <2>5, ContextTyped
    <3>2. vstack[c][1] \in Entry
      BY <3>1, ElementOfSeq
    <3> QED
      BY <2>1, <3>1, <3>2 DEF MirrorAt, Entry
  <2> QED
    BY <2>4, <2>5
<1>5. OffloadBracket
  <2> DEFINE outermost == {real[w][1].node : w \in {v \in Workers : Traced(v) /\ real[v] # <<>>}}
  <2>1. outermost \subseteq Nodes /\ pool \subseteq Nodes /\ offloaded = pool
    BY <1>1, <1>4 DEF TypeOK, BracketInv
  <2>2. ASSUME NEW n \in Nodes
        PROVE  n \in pool <=> n \in outermost
    <3>1. n \in pool <=> \E c \in Workers \cup {Main} : Len(vstack[c]) > 0 /\ vstack[c][1].node = n
      BY <1>1 DEF BracketInv
    <3> QED
      BY <1>4, <3>1
  <2>3. pool = outermost
    BY <2>1, <2>2
  <2> QED
    BY <2>1, <2>3 DEF OffloadBracket
<1> QED
  BY <1>3, <1>5

\* FramesAreThere (monitor.py:226-246, 354-458): in a plain program the stack of
\* every traced task and worker is the stack of frames that are really there,
\* and the offloads that are open are the outermost frames of the jobs running.
THEOREM FramesAreThereAlways == Spec => []FramesAreThere
<1> QED
  BY InitStacks, StepStacks, StacksAreThere, PTL DEF Spec

-----------------------------------------------------------------------------
(* Plain programs: the open interval is that of the frame holding the loop *)

ActiveInv == StacksInv /\ ActiveIsTruth

\* What a step has to do to the interval and to the spans.
LoopFollows ==
  /\ active' = IF LoopTop' = None THEN None
               ELSE [node |-> LoopTop', since |-> gained', trace |-> trace'[run']]
  /\ \/ spans' = Closed /\ LoopTop' # LoopTop
     \/ spans' = spans /\ (LoopTop' = LoopTop \/ LoopTop = None)

\* The frame that holds the loop is a frame.
LEMMA LoopTopTyped ==
  ASSUME TypeOK
  PROVE  LoopTop \in Nodes \cup {None}
<1>1. ASSUME run \in Tasks, real[run] # <<>>
      PROVE  Top(real[run]).node \in Nodes
  <2>1. run \in Contexts
    BY <1>1 DEF Contexts
  <2>2. real[run] \in Seq(Frame)
    BY <2>1, ContextTyped
  <2>3. Top(real[run]) \in Frame
    BY <1>1, <2>2, Popping
  <2> QED
    BY <2>3 DEF Frame
<1> QED
  BY <1>1 DEF LoopTop

\* A step that follows the loop keeps the interval the truth, and reports the
\* span SpansFollow asks for.
LEMMA FollowingIsEnough ==
  ASSUME TypeOK, Plain, ActiveIsTruth, LoopFollows
  PROVE  ActiveIsTruth' /\ SpansFollow
<1>1. active = IF LoopTop = None THEN None ELSE [node |-> LoopTop, since |-> gained, trace |-> trace[run]]
  BY DEF ActiveIsTruth
<1>2. ActiveIsTruth'
  BY DEF ActiveIsTruth, LoopFollows
<1>3. CASE LoopTop = None
  <2>1. active = None
    BY <1>1, <1>3
  <2>2. spans' = spans
    BY <2>1 DEF LoopFollows, Closed
  <2> QED
    BY <1>2, <1>3, <2>2 DEF SpansFollow
<1>4. CASE LoopTop # None
  <2>1. active = [node |-> LoopTop, since |-> gained, trace |-> trace[run]]
    BY <1>1, <1>4
  <2>2. active.node = LoopTop /\ active.since = gained
    BY <2>1
  <2>3. CASE spans' = Closed /\ LoopTop' # LoopTop
    <3>1. active # None
      <4>1. active \in [node : Nat, since : Nat, trace : Tasks] \cup {None}
        BY DEF TypeOK, Nodes
      <4>2. LoopTop # None => run \in Tasks /\ trace[run] # None /\ run \in Contexts
        BY DEF LoopTop, Traced, Contexts
      <4>3. LoopTop \in Nat
        BY <1>4, LoopTopTyped DEF Nodes
      <4>4. trace[run] \in Tasks /\ gained \in Nat
        BY <1>4, <4>2 DEF TypeOK
      <4> QED
        BY <2>1, <4>3, <4>4, MonitorAssumption
    <3> QED
      BY <1>2, <1>4, <2>2, <2>3, <3>1 DEF SpansFollow, Closed
  <2>4. CASE spans' = spans /\ LoopTop' = LoopTop
    BY <1>2, <2>4 DEF SpansFollow
  <2> QED
    BY <1>4, <2>3, <2>4 DEF LoopFollows
<1> QED
  BY <1>3, <1>4

\* A step that leaves the loop's frame, and the interval, alone.
LEMMA LoopSame ==
  ASSUME ActiveIsTruth, Plain, UNCHANGED <<active, spans, gained, run>>,
         run \in Tasks => trace'[run] = trace[run] /\ real'[run] = real[run]
  PROVE  LoopFollows
<1>1. LoopTop' = LoopTop
  BY DEF LoopTop, Traced
<1>2. LoopTop # None => trace'[run'] = trace[run]
  BY DEF LoopTop
<1> QED
  BY <1>1, <1>2 DEF ActiveIsTruth, LoopFollows

\* A frame is entered on the loop, or on a worker.
LEMMA CallFollows ==
  ASSUME ActiveInv, Plain, NEW c \in Contexts, NEW kind \in Kinds, Call(c, kind)
  PROVE  LoopFollows
<1>1. /\ TypeOK /\ HeldInv /\ QuietInv /\ MirrorInv /\ ActiveIsTruth
      /\ Executing(c) /\ OnStart(c) /\ UNCHANGED <<run, trace>>
      /\ gained' = IF c \in Tasks THEN now ELSE gained
  BY DEF ActiveInv, StacksInv, FramesInv, Call
<1>2. /\ c \in Tasks => run = c
      /\ c \notin Tasks => c \in Workers
  BY <1>1, WhoExecutes
<1>3. \A d \in Contexts : d # c => SameAt(d)
  BY <1>1, FrameStepsElsewhere
<1>4. run \in Tasks => run \in Contexts
  BY DEF Contexts
<1>5. CASE c \notin Tasks
  <2>1. UNCHANGED <<active, spans>>
    BY <1>1, <1>5 DEF OnStart
  <2>2. run \in Tasks => trace'[run] = trace[run] /\ real'[run] = real[run]
    BY <1>3, <1>4, <1>5 DEF SameAt
  <2> QED
    BY <1>1, <1>5, <2>1, <2>2, LoopSame
<1>6. CASE c \in Tasks /\ trace[c] = None
  <2>1. UNCHANGED <<active, spans>>
    BY <1>1, <1>6 DEF OnStart
  <2>2. LoopTop = None /\ LoopTop' = None
    BY <1>1, <1>2, <1>6 DEF LoopTop, Traced
  <2> QED
    BY <1>1, <2>1, <2>2 DEF LoopFollows, ActiveIsTruth
<1>7. CASE c \in Tasks /\ trace[c] # None
  <2> DEFINE f == [node |-> Len(nodes) + 1, kind |-> kind]
  <2>1. spans' = Closed /\ active' = [node |-> Len(nodes) + 1, since |-> now, trace |-> trace[c]]
    BY <1>1, <1>7 DEF OnStart, Opened
  <2>2. LoopTop' = Len(nodes) + 1
    <3>1. f \in Frame /\ f.node = Len(nodes) + 1
      <4>1. Len(nodes) \in Nat /\ (Len(nodes) < MaxNodes \/ Len(nodes) < OddNodes)
        BY <1>1, ContextTyped DEF Call
      <4>2. Len(nodes) + 1 \in Nodes
        BY <4>1, Numbers DEF Nodes
      <4> QED
        BY <4>2 DEF Frame
    <3>2. real' = [real EXCEPT ![c] = Append(real[c], f)]
      BY DEF Call
    <3> HIDE DEF f
    <3>3. real'[c] = Append(real[c], f) /\ real[c] \in Seq(Frame)
      BY <1>1, <3>2 DEF TypeOK
    <3>4. real'[c] # <<>> /\ Len(real'[c]) = Len(real[c]) + 1 /\ real'[c][Len(real[c]) + 1] = f
      BY <3>1, <3>3, Pushing
    <3>5. Top(real'[c]) = f
      BY <3>4 DEF Top
    <3> QED
      BY <1>1, <1>2, <1>7, <3>1, <3>4, <3>5 DEF LoopTop, Traced
  <2>3. LoopTop # Len(nodes) + 1 /\ Len(nodes) + 1 # None
    <3>1. Len(nodes) \in Nat
      BY <1>1, ContextTyped
    <3>2. Len(nodes) + 1 # None
      BY <3>1, Numbers
    <3>3. CASE Silent(c)
      <4>1. LoopTop = None
        BY <1>1, <1>2, <1>7, <3>3, Mirrored DEF LoopTop
      <4> QED
        BY <3>2, <4>1
    <3>4. CASE ~ Silent(c)
      <4>1. Len(vstack[c]) \in 1 .. Len(vstack[c]) /\ Entered(c) = vstack[c][Len(vstack[c])]
            /\ Entered(c).node = Top(real[c]).node /\ Traced(c) /\ real[c] # <<>>
        BY <1>1, <3>4, Mirrored
      <4>2. Entered(c).node \in 1 .. Len(nodes)
        BY <1>1, <4>1 DEF HeldInv
      <4>3. LoopTop = Entered(c).node
        BY <1>2, <1>7, <4>1 DEF LoopTop
      <4> QED
        BY <3>1, <3>2, <4>2, <4>3
    <3> QED
      BY <3>3, <3>4
  <2>4. gained' = now /\ trace'[run'] = trace[c]
    BY <1>1, <1>2, <1>7
  <2> QED
    BY <2>1, <2>2, <2>3, <2>4 DEF LoopFollows
<1> QED
  BY <1>5, <1>6, <1>7

\* A frame is left on the loop, or on a worker.
LEMMA ReturnFollows ==
  ASSUME ActiveInv, Plain, NEW c \in Contexts, Return(c)
  PROVE  LoopFollows
<1>1. /\ TypeOK /\ HeldInv /\ QuietInv /\ MirrorInv /\ ActiveIsTruth
      /\ Executing(c) /\ OnExit(c) /\ UNCHANGED <<run, trace>>
      /\ gained' = IF c \in Tasks THEN now ELSE gained
  BY DEF ActiveInv, StacksInv, FramesInv, Return
<1>2. /\ c \in Tasks => run = c
      /\ c \notin Tasks => c \in Workers
  BY <1>1, WhoExecutes
<1>3. \A d \in Contexts : d # c => SameAt(d)
  BY <1>1, FrameStepsElsewhere
<1>4. run \in Tasks => run \in Contexts
  BY DEF Contexts
<1>5. CASE c \notin Tasks
  <2>1. UNCHANGED <<active, spans>>
    BY <1>1, <1>5 DEF OnExit
  <2>2. run \in Tasks => trace'[run] = trace[run] /\ real'[run] = real[run]
    BY <1>3, <1>4, <1>5 DEF SameAt
  <2> QED
    BY <1>1, <1>5, <2>1, <2>2, LoopSame
<1>6. CASE c \in Tasks /\ Silent(c)
  <2>1. UNCHANGED <<active, spans>>
    BY <1>1, <1>6 DEF OnExit
  <2>2. ~ Traced(c)
    BY <1>1, <1>6, Mirrored DEF Return
  <2>3. LoopTop = None /\ LoopTop' = None
    BY <1>1, <1>2, <1>6, <2>2 DEF LoopTop, Traced
  <2> QED
    BY <1>1, <2>1, <2>3 DEF LoopFollows, ActiveIsTruth
<1>7. CASE c \in Tasks /\ ~ Silent(c)
  <2> DEFINE k == Len(real[c])
  <2>1. spans' = Closed /\ active' = Regained(c)
    BY <1>1, <1>7 DEF OnExit
  <2>2. /\ Traced(c) /\ real[c] # <<>> /\ Len(vstack[c]) = k /\ k \in Nat
        /\ Entered(c).node = Top(real[c]).node
        /\ \A i \in 1 .. k : vstack[c][i].node = real[c][i].node
    BY <1>1, <1>7, Mirrored
  <2>3. /\ k > 0 /\ Top(real[c]) = real[c][k] /\ Len(real'[c]) = k - 1
        /\ \A i \in 1 .. k - 1 : real'[c][i] = real[c][i]
    BY <1>1, RealPops DEF Return
  <2>4. LoopTop = real[c][k].node /\ LoopTop \in Nodes /\ LoopTop # None
    <3>1. LoopTop = real[c][k].node
      BY <1>2, <1>7, <2>2, <2>3 DEF LoopTop
    <3>2. Entered(c).node \in Nodes
      BY <1>1, <1>7, EnteredTyped
    <3> QED
      BY <2>2, <2>3, <3>1, <3>2, Numbers DEF Nodes
  <2>5. gained' = now /\ trace'[run'] = trace[c]
    BY <1>1, <1>2, <1>7
  <2>6. real'[c] \in Seq(Frame)
    <3>1. real' = [real EXCEPT ![c] = Pop(@)] /\ real[c] # <<>>
      BY DEF Return
    <3>2. real' \in [Contexts -> Seq(Frame)]
      BY <1>1, <3>1, RealTyped
    <3> QED
      BY <3>2
  <2>10. k \in Nat /\ k > 0
    BY <2>2, <2>3
  <2>7. real'[c] = <<>> <=> k = 1
    <3> DEFINE r == real'[c]
    <3>1. r \in Seq(Frame) /\ Len(r) = k - 1
      BY <2>3, <2>6
    <3> HIDE DEF r, k
    <3>2. r = <<>> <=> k = 1
      BY <2>10, <3>1, EmptySeq
    <3> QED
      BY <3>2 DEF r
  <2>8. CASE k = 1
    <3>1. LoopTop' = None
      BY <1>1, <1>2, <1>7, <2>7, <2>8 DEF LoopTop
    <3>2. active' = None
      BY <2>1, <2>2, <2>8 DEF Regained
    <3> QED
      BY <2>1, <2>4, <3>1, <3>2 DEF LoopFollows
  <2>9. CASE k # 1
    <3>1. k - 1 \in 1 .. k /\ k \in 1 .. k /\ k - 1 # k /\ k - 1 \in 1 .. k - 1
      <4> HIDE DEF k
      <4> QED
        BY <2>9, <2>10
    <3>2. LoopTop' = real[c][k - 1].node
      <4>1. real'[c] # <<>> /\ Top(real'[c]) = real[c][k - 1]
        BY <2>3, <2>7, <2>9, <3>1 DEF Top
      <4> QED
        BY <1>1, <1>2, <1>7, <2>2, <4>1 DEF LoopTop, Traced
    <3>3. /\ Len(Popped(c)) = k - 1 /\ Popped(c)[k - 1] = vstack[c][k - 1]
      BY <1>1, <1>7, <2>2, <3>1, EnteredTyped
    <3>4. Regained(c) = Opened(real[c][k - 1].node, c)
      BY <2>2, <2>9, <3>1, <3>3 DEF Regained, Top, Popped
    <3>8. /\ \A i \in 1 .. Len(vstack[c]) : vstack[c][i].node \in 1 .. Len(nodes)
          /\ \A i, j \in 1 .. Len(vstack[c]) : vstack[c][i].node = vstack[c][j].node => i = j
      BY <1>1 DEF HeldInv
    <3>9. /\ vstack[c][k - 1].node = real[c][k - 1].node /\ vstack[c][k].node = real[c][k].node
          /\ k - 1 \in 1 .. Len(vstack[c]) /\ k \in 1 .. Len(vstack[c])
      BY <2>2, <3>1
    <3>5. real[c][k - 1].node # real[c][k].node
      <4> HIDE DEF k
      <4> QED
        BY <3>1, <3>8, <3>9
    <3>6. real[c][k - 1].node \in 1 .. Len(nodes)
      BY <3>8, <3>9
    <3>10. Len(nodes) \in Nat
      BY <1>1, ContextTyped
    <3>7. LoopTop' # None
      BY <3>2, <3>6, <3>10, Numbers
    <3> QED
      BY <2>1, <2>4, <2>5, <3>2, <3>4, <3>5, <3>7 DEF LoopFollows, Opened
  <2> QED
    BY <2>8, <2>9
<1> QED
  BY <1>5, <1>6, <1>7

\* A task that gives the loop back closes its interval; one that gets it opens
\* its own.
LEMMA ParkFollows ==
  ASSUME ActiveInv, Plain, NEW c \in Tasks, Park(c), gained' = gained
  PROVE  LoopFollows
<1>1. /\ TypeOK /\ HeldInv /\ QuietInv /\ MirrorInv /\ ActiveIsTruth /\ c \in Contexts
      /\ run = c /\ run' = None /\ OnYield(c, Len(real[c]))
  BY DEF ActiveInv, StacksInv, FramesInv, Park, Contexts
<1>2. LoopTop' = None
  BY <1>1, Numbers DEF LoopTop
<1>3. CASE Silent(c)
  <2>1. UNCHANGED <<active, spans>>
    BY <1>1, <1>3 DEF OnYield
  <2>2. LoopTop = None
    BY <1>1, <1>3, Mirrored DEF LoopTop
  <2> QED
    BY <1>1, <1>2, <2>1, <2>2 DEF LoopFollows, ActiveIsTruth
<1>4. CASE ~ Silent(c)
  <2>1. Traced(c) /\ real[c] # <<>> /\ Len(real[c]) # 0 /\ Entered(c).node = Top(real[c]).node
        /\ Entered(c).node \in Nodes
    BY <1>1, <1>4, Mirrored
  <2>2. spans' = Closed /\ active' = None
    BY <1>1, <1>4, <2>1 DEF OnYield
  <2>3. LoopTop # None
    BY <1>1, <2>1, Numbers DEF LoopTop, Nodes
  <2> QED
    BY <1>2, <2>2, <2>3 DEF LoopFollows
<1> QED
  BY <1>3, <1>4

\* A task that gets the loop back opens its interval.
LEMMA ResumeFollows ==
  ASSUME ActiveInv, Plain, NEW c \in Tasks, Resume(c)
  PROVE  LoopFollows
<1>1. /\ TypeOK /\ HeldInv /\ QuietInv /\ MirrorInv /\ ActiveIsTruth /\ c \in Contexts
      /\ run = None /\ run' = c /\ OnResume(c, Len(real[c])) /\ gained' = now
      /\ UNCHANGED <<spans, trace, real>>
  BY DEF ActiveInv, StacksInv, FramesInv, Resume, Contexts
<1>2. LoopTop = None /\ active = None
  BY <1>1, Numbers DEF LoopTop, ActiveIsTruth
<1>3. CASE Silent(c)
  <2>1. active' = active
    BY <1>1, <1>3 DEF OnResume
  <2>2. LoopTop' = None
    BY <1>1, <1>3, Mirrored DEF LoopTop, Traced
  <2> QED
    BY <1>1, <1>2, <2>1, <2>2 DEF LoopFollows
<1>4. CASE ~ Silent(c)
  <2>1. Traced(c) /\ real[c] # <<>> /\ Len(real[c]) # 0 /\ Entered(c).node = Top(real[c]).node
        /\ Entered(c).node \in Nodes
    BY <1>1, <1>4, Mirrored
  <2>2. active' = [node |-> Entered(c).node, since |-> now, trace |-> trace[c]]
    BY <1>1, <1>4, <2>1 DEF OnResume, Opened
  <2>3. LoopTop' = Entered(c).node /\ LoopTop' # None
    BY <1>1, <2>1, Numbers DEF LoopTop, Traced, Nodes
  <2> QED
    BY <1>1, <1>2, <2>2, <2>3 DEF LoopFollows
<1> QED
  BY <1>3, <1>4

\* Every step of a plain program follows the loop.
LEMMA StepFollows ==
  ASSUME ActiveInv, Plain, [Next]_vars
  PROVE  LoopFollows
<1>1. TypeOK /\ QuietInv /\ MirrorInv /\ ActiveIsTruth
  BY DEF ActiveInv, StacksInv, FramesInv
<1>2. PlainNext
  BY <1>1, PlainSteps
<1>3. \A c \in Contexts : \A kind \in {"coro", "func"} : Call(c, kind) => LoopFollows
  BY CallFollows DEF Kinds
<1>4. \A c \in Contexts : Return(c) => LoopFollows
  BY ReturnFollows
<1>5. run \in Tasks => run \in Contexts /\ mode[run] = "running" /\ run # Main
  BY <1>1, Numbers DEF Contexts, QuietInv
<1>6. ASSUME NEW c \in Tasks, NEW id \in {c, None}, Begin(c, id)
      PROVE  LoopFollows
  <2>1. /\ c \in Contexts /\ run = None /\ run' = c /\ mode[c] = "new" /\ UNCHANGED <<real, active, spans>>
    BY <1>1, <1>6, BeginAt
  <2>2. real'[c] = <<>>
    BY <1>1, <2>1 DEF QuietInv, QuietAt
  <2>3. LoopTop = None /\ LoopTop' = None
    BY <2>1, <2>2, Numbers DEF LoopTop
  <2> QED
    BY <1>1, <2>1, <2>3 DEF LoopFollows, ActiveIsTruth
<1>7. ASSUME NEW c \in Tasks, NEW d \in Tasks, Spawn(c, d)
      PROVE  LoopFollows
  <2>1. /\ run = c /\ mode[d] = "new" /\ UNCHANGED <<active, spans, gained, run>>
        /\ \A b \in Contexts : b # d => SameAt(b)
    BY <1>1, <1>7, SpawnAt
  <2>2. run \in Tasks => trace'[run] = trace[run] /\ real'[run] = real[run]
    BY <1>5, <2>1 DEF SameAt
  <2> QED
    BY <1>1, <2>1, <2>2, LoopSame
<1>8. ASSUME NEW c \in Tasks, Await(c) \/ \E w \in Workers : Offload(c, w)
      PROVE  LoopFollows
  <2>1. Park(c) /\ gained' = gained
    BY <1>8 DEF Await, Offload
  <2> QED
    BY <2>1, ParkFollows
<1>9. \A c \in Tasks : Resume(c) => LoopFollows
  BY ResumeFollows
<1>10. ASSUME NEW c \in Tasks, Finish(c)
       PROVE  LoopFollows
  <2>1. run = c /\ real[c] = <<>> /\ run' = None /\ UNCHANGED <<active, spans>>
    BY <1>10 DEF Finish, beliefs, emitted
  <2>2. LoopTop = None /\ LoopTop' = None
    BY <2>1, Numbers DEF LoopTop
  <2> QED
    BY <1>1, <2>1, <2>2 DEF LoopFollows, ActiveIsTruth
<1>11. ASSUME NEW w \in Workers, JobEnds(w)
       PROVE  LoopFollows
  <2>1. UNCHANGED <<active, spans, gained, run>> /\ \A b \in Contexts : b # w => SameAt(b)
    BY <1>1, <1>11, JobEndsAt
  <2>2. run \in Tasks => trace'[run] = trace[run] /\ real'[run] = real[run]
    BY <1>5, <2>1, Numbers DEF SameAt
  <2> QED
    BY <1>1, <2>1, <2>2, LoopSame
<1>12. CASE Tick \/ UNCHANGED vars
  <2>1. UNCHANGED <<active, spans, gained, run, trace, real>>
    BY <1>12, TickAt
  <2> QED
    BY <1>1, <2>1, LoopSame
<1> QED
  BY <1>2, <1>3, <1>4, <1>6, <1>7, <1>8, <1>9, <1>10, <1>11, <1>12, Zenon DEF PlainNext

\* Every step keeps the interval the truth.
LEMMA StepActive ==
  ASSUME ActiveInv, [Next]_vars
  PROVE  ActiveInv' /\ (Plain => SpansFollow)
<1>1. StacksInv' /\ (Plain' => Plain) /\ TypeOK /\ ActiveIsTruth
  BY StepStacks, OddStays DEF ActiveInv, StacksInv, FramesInv, Plain
<1>2. Plain => ActiveIsTruth' /\ SpansFollow
  BY <1>1, StepFollows, FollowingIsEnough
<1>3. ~ Plain => ActiveIsTruth'
  BY <1>1 DEF ActiveIsTruth
<1> QED
  BY <1>1, <1>2, <1>3 DEF ActiveInv

\* No interval is open at first.
LEMMA InitActive == Init => ActiveInv
<1> SUFFICES ASSUME Init PROVE ActiveInv
  OBVIOUS
<1>1. run = None /\ active = None
  BY DEF Init
<1>2. ActiveIsTruth
  BY <1>1, Numbers DEF ActiveIsTruth, LoopTop
<1> QED
  BY <1>2, InitStacks DEF ActiveInv

\* ActiveIsTruth (monitor.py:122-150): in a plain program the open interval is
\* that of the frame holding the loop, from when it got control.
THEOREM ActiveIsTruthAlways == Spec => []ActiveIsTruth
<1>1. ActiveInv => ActiveIsTruth
  BY DEF ActiveInv
<1>2. ActiveInv /\ [Next]_vars => ActiveInv'
  BY StepActive
<1> QED
  BY <1>1, <1>2, InitActive, PTL DEF Spec

\* SpansAreHolds (monitor.py:291-338): in a plain program a step reports a
\* blocking span exactly when the frame holding the loop loses it after at
\* least slow_ms, with the bounds of that hold.
THEOREM SpansAreHoldsAlways == Spec => SpansAreHolds
<1>1. ActiveInv /\ [Next]_vars => ActiveInv'
  BY StepActive
<1>2. ActiveInv /\ [Next]_vars => [Plain => SpansFollow]_vars
  BY StepActive
<1> QED
  BY <1>1, <1>2, InitActive, PTL DEF Spec, SpansAreHolds

-----------------------------------------------------------------------------
(* Plain programs: the call tree is that of the program *)

\* The tokens of c's stack lead from each frame to the one below, and from the
\* outermost one to the frame the context was made from; they are all of one
\* request; and the context variable names the innermost frame.
LinksAt(c) ==
  /\ \A i \in 1 .. Len(vstack[c]) :
       /\ vstack[c][i].own
       /\ vstack[c][i].old = IF i = 1 THEN inherited[c] ELSE vstack[c][i - 1].node
       /\ nodes[vstack[c][i].node].trace = trace[c]
  /\ Traced(c) /\ inherited[c] # None =>
       inherited[c] \in 1 .. Len(nodes) /\ nodes[inherited[c]].trace = trace[c]
  /\ c # Main /\ Traced(c) /\ mode[c] \in {"parked", "running", "busy"} => cur[c] = TrueTop(c)

LinksInv == \A c \in Contexts : LinksAt(c)

\* A parent was recorded before its child.
ParentsCome == \A i \in 1 .. Len(nodes) : nodes[i].parent # None => nodes[i].parent \in 1 .. Len(nodes)

CallersInv == StacksInv /\ (Plain => LinksInv /\ ParentsCome /\ ParentIsCaller)

\* Whatever is recorded stays.
NodesGrow == Len(nodes) <= Len(nodes') /\ \A i \in 1 .. Len(nodes) : nodes'[i] = nodes[i]

\* The links of a context where nothing happens hold.
LEMMA SameStaysLinked ==
  ASSUME TypeOK, HeldInv, NodesGrow, NEW c \in Contexts, LinksAt(c), SameAt(c), Len(nodes') \in Nat
  PROVE  LinksAt(c)'
<1>1. /\ real'[c] = real[c] /\ vstack'[c] = vstack[c] /\ trace'[c] = trace[c]
      /\ cur'[c] = cur[c] /\ inherited'[c] = inherited[c]
      /\ (c # Main => mode'[c] = mode[c])
      /\ TrueTop(c)' = TrueTop(c)
  BY DEF SameAt, TrueTop
<1>2. Len(nodes) \in Nat
  BY ContextTyped
<1>3. \A i \in 1 .. Len(nodes) : i \in 1 .. Len(nodes') /\ nodes'[i] = nodes[i]
  BY <1>2 DEF NodesGrow
<1>4. \A i \in 1 .. Len(vstack[c]) : vstack[c][i].node \in 1 .. Len(nodes)
  BY DEF HeldInv
<1>5. \A i \in 1 .. Len(vstack'[c]) :
        /\ vstack'[c][i].own
        /\ vstack'[c][i].old = IF i = 1 THEN inherited'[c] ELSE vstack'[c][i - 1].node
        /\ nodes'[vstack'[c][i].node].trace = trace'[c]
  BY <1>1, <1>3, <1>4 DEF LinksAt
<1>6. trace'[c] # None /\ inherited'[c] # None =>
        inherited'[c] \in 1 .. Len(nodes') /\ nodes'[inherited'[c]].trace = trace'[c]
  BY <1>1, <1>3 DEF LinksAt, Traced
<1> QED
  BY <1>1, <1>5, <1>6 DEF LinksAt, Traced

\* The innermost frame of a traced context is recorded, for its request.
LEMMA TopOfTrace ==
  ASSUME TypeOK, HeldInv, MirrorInv, LinksInv, NEW c \in Contexts, Traced(c), TrueTop(c) # None
  PROVE  TrueTop(c) \in 1 .. Len(nodes) /\ nodes[TrueTop(c)].trace = trace[c]
<1>1. CASE real[c] = <<>>
  BY <1>1 DEF TrueTop, LinksInv, LinksAt
<1>2. CASE real[c] # <<>>
  <2>1. /\ Len(vstack[c]) \in 1 .. Len(vstack[c]) /\ Entered(c) = vstack[c][Len(vstack[c])]
        /\ Entered(c).node = Top(real[c]).node
    BY <1>2, Mirrored
  <2>2. TrueTop(c) = vstack[c][Len(vstack[c])].node
    BY <1>2, <2>1 DEF TrueTop
  <2> QED
    BY <2>1, <2>2 DEF HeldInv, LinksInv, LinksAt
<1> QED
  BY <1>1, <1>2

\* The links of a context that is entered by a copy of c's: a child task's, or
\* a worker's.
LEMMA CopyLinks ==
  ASSUME TypeOK, HeldInv, QuietInv, MirrorInv, LinksInv,
         NEW c \in Contexts, c # Main, mode[c] = "running",
         NEW d \in Contexts, real'[d] = <<>>, Len(vstack'[d]) = 0, nodes' = nodes,
         trace'[d] = trace[c], cur'[d] = cur[c], inherited'[d] = TrueTop(c)
  PROVE  LinksAt(d)'
<1>1. ASSUME Traced(c)
      PROVE  cur[c] = TrueTop(c)
  BY <1>1 DEF LinksInv, LinksAt
<1>2. TrueTop(d)' = TrueTop(c)
  BY DEF TrueTop
<1>3. trace'[d] # None /\ inherited'[d] # None =>
        inherited'[d] \in 1 .. Len(nodes') /\ nodes'[inherited'[d]].trace = trace'[d]
  BY TopOfTrace DEF Traced
<1>4. trace'[d] # None => cur'[d] = TrueTop(d)'
  BY <1>1, <1>2 DEF Traced
<1>5. \A i \in 1 .. Len(vstack'[d]) : FALSE
  OBVIOUS
<1> QED
  BY <1>3, <1>4, <1>5 DEF LinksAt, Traced

\* A call.
LEMMA CallKeepsLinks ==
  ASSUME TypeOK, HeldInv, QuietInv, MirrorInv, LinksInv, ParentsCome, ParentIsCaller,
         NEW c \in Contexts, NEW kind \in Kinds, Call(c, kind)
  PROVE  LinksInv' /\ ParentsCome' /\ ParentIsCaller'
<1> DEFINE f == [node |-> Len(nodes) + 1, kind |-> kind]
<1>1. /\ Executing(c) /\ OnStart(c) /\ real' = [real EXCEPT ![c] = Append(real[c], f)]
      /\ UNCHANGED <<run, mode, inherited, trace>>
  BY DEF Call
<1>2. Len(nodes) < MaxNodes /\ Len(nodes) \in Nat
  <2>1. Len(nodes) \in Nat /\ (Len(nodes) < MaxNodes \/ Len(nodes) < OddNodes)
    BY ContextTyped DEF Call
  <2> QED
    BY <2>1, Numbers
<1>3. /\ f \in Frame /\ f.node = Len(nodes) + 1
      /\ real \in [Contexts -> Seq(Frame)] /\ vstack \in [Contexts -> Seq(Entry)]
  <2>1. Len(nodes) + 1 \in Nodes
    BY <1>2, Numbers DEF Nodes
  <2> QED
    BY <2>1 DEF TypeOK, Frame
<1> HIDE DEF f
<1>4. PICK x \in Entrance :
        /\ x.ctx = c /\ x.trace = trace[c] /\ x.caller = TrueTop(c)
        /\ x.first = (real[c] = <<>>)
        /\ x.parent = IF trace[c] = None THEN None ELSE ParentOf(c)
        /\ Len(nodes') = Len(nodes) + 1 /\ nodes'[Len(nodes) + 1] = x
        /\ \A i \in 1 .. Len(nodes) : nodes'[i] = nodes[i]
  BY <1>1, <1>2, StartRecords
<1>5. NodesGrow /\ Len(nodes') \in Nat
  BY <1>2, <1>4 DEF NodesGrow
<1>6. c # Main /\ (c \in Tasks => mode[c] = "running") /\ (c \notin Tasks => mode[c] = "busy")
  BY <1>1, WhoExecutes
<1>7. LinksAt(c) /\ (Traced(c) => cur[c] = TrueTop(c))
  BY <1>6 DEF LinksInv, LinksAt
<1>8. /\ real'[c] # <<>> /\ Len(real'[c]) = Len(real[c]) + 1 /\ real'[c][Len(real[c]) + 1] = f
  BY <1>1, <1>3, PushPlaces
<1>9. TrueTop(c)' = Len(nodes) + 1
  BY <1>3, <1>8 DEF TrueTop, Top
<1>10. ASSUME trace[c] = None
       PROVE  LinksAt(c)'
  <2>1. vstack' = vstack
    BY <1>1, <1>10 DEF OnStart
  <2>2. Len(vstack[c]) = 0
    BY <1>10 DEF MirrorInv, MirrorAt, Traced
  <2>3. \A i \in 1 .. Len(vstack'[c]) : FALSE
    BY <2>1, <2>2
  <2> QED
    BY <1>1, <1>10, <2>3 DEF LinksAt, Traced
<1>11. ASSUME trace[c] # None
       PROVE  LinksAt(c)'
  <2>1. PICK e \in Entry :
          /\ e.node = Len(nodes) + 1 /\ e.old = cur[c] /\ e.own
          /\ vstack' = [vstack EXCEPT ![c] = Append(vstack[c], e)]
          /\ cur' = [cur EXCEPT ![c] = e.node]
    BY <1>1, <1>2, <1>11, StartPushes
  <2>2. /\ Len(vstack[c]) \in Nat
        /\ Len(vstack'[c]) = Len(vstack[c]) + 1
        /\ vstack'[c][Len(vstack[c]) + 1] = e
        /\ \A i \in 1 .. Len(vstack[c]) : vstack'[c][i] = vstack[c][i]
    BY <1>3, <2>1, PushPlaces
  <2>3. cur'[c] = Len(nodes) + 1
    BY <2>1 DEF TypeOK
  <2>4. e.old = IF Len(vstack[c]) = 0 THEN inherited[c] ELSE vstack[c][Len(vstack[c])].node
    <3>1. e.old = TrueTop(c)
      BY <1>7, <1>11, <2>1 DEF Traced
    <3>2. CASE Len(vstack[c]) = 0
      <4>1. real[c] = <<>>
        BY <1>11, <3>2, Mirrored DEF MirrorInv, MirrorAt, Traced
      <4> QED
        BY <3>1, <3>2, <4>1 DEF TrueTop
    <3>3. CASE Len(vstack[c]) # 0
      <4>1. real[c] # <<>>
        BY <1>11, <3>3, Mirrored DEF MirrorInv, MirrorAt, Traced
      <4>2. vstack[c][Len(vstack[c])].node = Top(real[c]).node
        BY <1>11, <4>1, Mirrored DEF Traced
      <4> QED
        BY <3>1, <3>3, <4>1, <4>2 DEF TrueTop
    <3> QED
      BY <3>2, <3>3
  <2>5. ASSUME NEW i \in 1 .. Len(vstack'[c])
        PROVE  /\ vstack'[c][i].own
               /\ vstack'[c][i].old = IF i = 1 THEN inherited'[c] ELSE vstack'[c][i - 1].node
               /\ nodes'[vstack'[c][i].node].trace = trace'[c]
    <3>1. CASE i = Len(vstack[c]) + 1
      <4>1. vstack'[c][i] = e
        BY <2>2, <3>1
      <4>2. i = 1 \/ (i # 1 /\ Len(vstack[c]) # 0 /\ i - 1 \in 1 .. Len(vstack[c]) /\ i - 1 = Len(vstack[c]))
        BY <2>2, <3>1
      <4>3. e.old = IF i = 1 THEN inherited'[c] ELSE vstack'[c][i - 1].node
        <5>1. CASE i = 1
          BY <1>1, <2>2, <2>4, <3>1, <5>1
        <5>2. CASE i # 1
          <6>1. vstack'[c][i - 1] = vstack[c][Len(vstack[c])] /\ Len(vstack[c]) # 0
            BY <2>2, <4>2, <5>2
          <6> QED
            BY <2>4, <5>2, <6>1
        <5> QED
          BY <5>1, <5>2
      <4> QED
        BY <1>1, <1>4, <2>1, <4>1, <4>3
    <3>2. CASE i \in 1 .. Len(vstack[c])
      <4>1. i # 1 => i - 1 \in 1 .. Len(vstack[c])
        BY <2>2, <3>2
      <4>2. vstack'[c][i] = vstack[c][i]
        BY <2>2, <3>2
      <4>3. i # 1 => vstack'[c][i - 1] = vstack[c][i - 1]
        BY <2>2, <4>1
      <4>4. /\ vstack[c][i].own
            /\ vstack[c][i].old = IF i = 1 THEN inherited[c] ELSE vstack[c][i - 1].node
            /\ nodes[vstack[c][i].node].trace = trace[c]
        BY <1>7, <3>2 DEF LinksAt
      <4>5. vstack[c][i].node \in 1 .. Len(nodes)
        BY <3>2 DEF HeldInv
      <4>6. nodes'[vstack[c][i].node] = nodes[vstack[c][i].node]
        BY <1>4, <4>5
      <4> QED
        BY <1>1, <4>2, <4>3, <4>4, <4>6
    <3>3. i = Len(vstack[c]) + 1 \/ i \in 1 .. Len(vstack[c])
      BY <2>2
    <3> QED
      BY <3>1, <3>2, <3>3
  <2>6. trace'[c] # None /\ inherited'[c] # None =>
          inherited'[c] \in 1 .. Len(nodes') /\ nodes'[inherited'[c]].trace = trace'[c]
    BY <1>1, <1>2, <1>4, <1>7, <1>11 DEF LinksAt, Traced
  <2> QED
    BY <1>9, <2>3, <2>5, <2>6 DEF LinksAt, Traced
<1>12. \A d \in Contexts : d # c => SameAt(d)
  BY FrameStepsElsewhere
<1>13. LinksInv'
  BY <1>5, <1>10, <1>11, <1>12, SameStaysLinked DEF LinksInv
\* The frame's own place in the tree.
<1>14. ASSUME trace[c] # None, ~ (c \in Tasks /\ real[c] = <<>>)
       PROVE  x.parent = TrueTop(c)
  <2>1. Silent(c) <=> real[c] = <<>>
    BY <1>14, Mirrored DEF Traced
  <2>2. CASE real[c] # <<>>
    <3>1. vstack[c] # <<>> /\ Entered(c).node = Top(real[c]).node
      BY <2>1, <2>2, Mirrored DEF Silent
    <3> QED
      BY <1>4, <1>14, <2>2, <3>1 DEF ParentOf, TrueTop
  <2>3. CASE real[c] = <<>>
    <3>1. vstack[c] = <<>> /\ c \notin Tasks
      BY <1>14, <2>1, <2>3 DEF Silent
    <3> QED
      BY <1>4, <1>7, <1>14, <3>1 DEF ParentOf, Traced
  <2> QED
    BY <2>2, <2>3
<1>15. ASSUME trace[c] # None, c \in Tasks, real[c] = <<>>
       PROVE  x.parent = None
  <2>1. vstack[c] = <<>>
    BY <1>15, Mirrored DEF Silent
  <2> QED
    BY <1>4, <1>15, <2>1 DEF ParentOf
<1>16. x.parent # None => /\ x.trace # None /\ x.parent \in 1 .. Len(nodes)
                          /\ nodes[x.parent].trace = x.trace
  BY <1>4, <1>14, <1>15, TopOfTrace DEF Traced
<1>17. ASSUME NEW i \in 1 .. Len(nodes')
       PROVE  (i \in 1 .. Len(nodes) /\ nodes'[i] = nodes[i]) \/ (i = Len(nodes) + 1 /\ nodes'[i] = x)
  BY <1>2, <1>4
<1>18. \A i \in 1 .. Len(nodes) : i \in 1 .. Len(nodes') /\ nodes'[i] = nodes[i]
  BY <1>2, <1>4
<1>19. ParentsCome'
  BY <1>16, <1>17, <1>18 DEF ParentsCome
<1>20. ASSUME NEW i \in 1 .. Len(nodes')
       PROVE  CASE nodes'[i].trace = None -> nodes'[i].parent = None
                [] nodes'[i].trace # None /\ nodes'[i].ctx \in Tasks /\ nodes'[i].first -> nodes'[i].parent = None
                [] OTHER -> /\ nodes'[i].parent = nodes'[i].caller
                            /\ nodes'[i].parent # None => nodes'[nodes'[i].parent].trace = nodes'[i].trace
  <2>1. CASE i = Len(nodes) + 1 /\ nodes'[i] = x
    <3>1. CASE trace[c] = None
      BY <1>4, <2>1, <3>1
    <3>2. CASE trace[c] # None /\ c \in Tasks /\ real[c] = <<>>
      <4>1. x.trace # None /\ x.ctx \in Tasks /\ x.first /\ x.parent = None
        BY <1>4, <1>15, <3>2
      <4> QED
        BY <2>1, <4>1
    <3>3. CASE trace[c] # None /\ ~ (c \in Tasks /\ real[c] = <<>>)
      <4>1. /\ x.trace # None /\ ~ (x.ctx \in Tasks /\ x.first) /\ x.parent = x.caller
            /\ x.parent # None => nodes'[x.parent].trace = x.trace
        BY <1>4, <1>14, <1>16, <1>18, <3>3
      <4> QED
        BY <2>1, <4>1
    <3> QED
      BY <3>1, <3>2, <3>3
  <2>2. CASE i \in 1 .. Len(nodes) /\ nodes'[i] = nodes[i]
    <3>1. nodes[i].parent # None => nodes'[nodes[i].parent] = nodes[nodes[i].parent]
      BY <1>18, <2>2 DEF ParentsCome
    <3> QED
      BY <2>2, <3>1 DEF ParentIsCaller
  <2> QED
    BY <1>17, <2>1, <2>2
<1>21. ParentIsCaller'
  BY <1>20, Zenon DEF ParentIsCaller
<1> QED
  BY <1>13, <1>19, <1>21

\* A return.
LEMMA ReturnKeepsLinks ==
  ASSUME TypeOK, HeldInv, QuietInv, MirrorInv, LinksInv, NEW c \in Contexts, Return(c)
  PROVE  LinksInv'
<1>1. /\ Executing(c) /\ OnExit(c) /\ real[c] # <<>> /\ real' = [real EXCEPT ![c] = Pop(real[c])]
      /\ UNCHANGED <<run, mode, inherited, trace, nodes>>
  BY DEF Return
<1>2. /\ Len(real[c]) \in Nat /\ Len(real[c]) > 0 /\ Len(real'[c]) = Len(real[c]) - 1
      /\ \A i \in 1 .. Len(real[c]) - 1 : real'[c][i] = real[c][i]
  BY <1>1, RealPops
<1>3. LinksAt(c) /\ Len(nodes) \in Nat
  BY ContextTyped DEF LinksInv
<1>4. NodesGrow
  BY <1>1, <1>3 DEF NodesGrow
<1>5. \A d \in Contexts : d # c => SameAt(d)
  BY FrameStepsElsewhere
<1>6. ASSUME trace[c] = None
      PROVE  LinksAt(c)'
  <2>1. vstack' = vstack
    BY <1>1, <1>6 DEF OnExit, Silent
  <2>2. Len(vstack[c]) = 0
    BY <1>6 DEF MirrorInv, MirrorAt, Traced
  <2>3. \A i \in 1 .. Len(vstack'[c]) : FALSE
    BY <2>1, <2>2
  <2> QED
    BY <1>1, <1>6, <2>3 DEF LinksAt, Traced
<1>7. ASSUME trace[c] # None
      PROVE  LinksAt(c)'
  <2> DEFINE k == Len(real[c])
  <2>1. /\ ~ Silent(c) /\ Len(vstack[c]) = k /\ k \in 1 .. k
        /\ \A i \in 1 .. k : vstack[c][i].node = real[c][i].node
    BY <1>1, <1>7, Mirrored DEF Traced
  <2>2. /\ vstack[c] # <<>> /\ vstack' = [vstack EXCEPT ![c] = Pop(vstack[c])]
        /\ cur' = [cur EXCEPT ![c] = IF vstack[c][k].own THEN vstack[c][k].old ELSE cur[c]]
    BY <1>1, <2>1, ExitPops
  <2>3. /\ Len(vstack'[c]) = k - 1 /\ \A i \in 1 .. k - 1 : vstack'[c][i] = vstack[c][i]
    BY <2>1, <2>2, StackPops
  <2>4. cur'[c] = IF k = 1 THEN inherited[c] ELSE vstack[c][k - 1].node
    <3>1. vstack[c][k].own /\ vstack[c][k].old = IF k = 1 THEN inherited[c] ELSE vstack[c][k - 1].node
      BY <1>3, <2>1 DEF LinksAt
    <3> HIDE DEF k
    <3> QED
      BY <2>2, <3>1 DEF TypeOK
  <2>5. k \in Nat /\ k > 0
    BY <1>2
  <2>6. TrueTop(c)' = IF k = 1 THEN inherited[c] ELSE real[c][k - 1].node
    <3> DEFINE r == real'[c]
    <3>1. real' \in [Contexts -> Seq(Frame)]
      BY <1>1, RealTyped
    <3>2. r \in Seq(Frame) /\ Len(r) = k - 1
      BY <1>2, <3>1
    <3>3. r = <<>> <=> k = 1
      <4> HIDE DEF r, k
      <4> QED
        BY <2>5, <3>2, EmptySeq
    <3>4. CASE k = 1
      BY <1>1, <3>3, <3>4 DEF TrueTop
    <3>5. CASE k # 1
      <4>1. k - 1 \in 1 .. k - 1
        <5> HIDE DEF k
        <5> QED
          BY <2>5, <3>5
      <4>2. Top(real'[c]) = real[c][k - 1]
        BY <1>2, <4>1 DEF Top
      <4> QED
        BY <3>3, <3>5, <4>2 DEF TrueTop
    <3> QED
      BY <3>4, <3>5
  <2>7. cur'[c] = TrueTop(c)'
    <3>1. k # 1 => k - 1 \in 1 .. k
      <4> HIDE DEF k
      <4> QED
        BY <2>5
    <3> QED
      BY <2>1, <2>4, <2>6, <3>1
  <2>8. ASSUME NEW i \in 1 .. Len(vstack'[c])
        PROVE  /\ vstack'[c][i].own
               /\ vstack'[c][i].old = IF i = 1 THEN inherited'[c] ELSE vstack'[c][i - 1].node
               /\ nodes'[vstack'[c][i].node].trace = trace'[c]
    <3>1. i \in 1 .. k - 1 /\ i \in 1 .. k /\ (i # 1 => i - 1 \in 1 .. k - 1)
      <4> HIDE DEF k
      <4> QED
        BY <2>3, <2>5
    <3>2. vstack'[c][i] = vstack[c][i] /\ (i # 1 => vstack'[c][i - 1] = vstack[c][i - 1])
      BY <2>3, <3>1
    <3>3. i \in 1 .. Len(vstack[c])
      BY <2>1, <3>1
    <3>4. /\ vstack[c][i].own
          /\ vstack[c][i].old = IF i = 1 THEN inherited[c] ELSE vstack[c][i - 1].node
          /\ nodes[vstack[c][i].node].trace = trace[c]
      BY <1>3, <3>3 DEF LinksAt
    <3> QED
      BY <1>1, <3>2, <3>4
  <2>9. trace'[c] # None /\ inherited'[c] # None =>
          inherited'[c] \in 1 .. Len(nodes') /\ nodes'[inherited'[c]].trace = trace'[c]
    BY <1>1, <1>3 DEF LinksAt, Traced
  <2> QED
    BY <2>7, <2>8, <2>9 DEF LinksAt, Traced
<1> QED
  BY <1>1, <1>3, <1>4, <1>5, <1>6, <1>7, SameStaysLinked DEF LinksInv

\* A context that is entered anew is entered by a copy; the others stay.
LEMMA RestKeepsLinks ==
  ASSUME TypeOK, HeldInv, QuietInv, MirrorInv, LinksInv,
         \/ \E c \in Tasks :
              \/ \E id \in {c, None} : Begin(c, id)
              \/ \E d \in Tasks : Spawn(c, d)
              \/ Await(c)
              \/ \E w \in Workers : Offload(c, w)
              \/ Resume(c)
              \/ Finish(c)
         \/ \E w \in Workers : JobEnds(w)
         \/ Tick
         \/ UNCHANGED vars
  PROVE  LinksInv' /\ nodes' = nodes
<1>0. \A c \in Contexts : /\ LinksAt(c) /\ QuietAt(c) /\ Len(vstack[c]) \in Nat
                          /\ real[c] = <<>> => Len(vstack[c]) = 0
  <2>1. \A c \in Contexts : MirrorAt(c) /\ (real[c] = <<>> => Len(real[c]) = 0)
    BY Mirrored DEF MirrorInv
  <2> QED
    BY <2>1, ContextTyped DEF LinksInv, QuietInv, MirrorAt
<1>1. ASSUME nodes' = nodes
      PROVE  \A c \in Contexts : SameAt(c) => LinksAt(c)'
  <2>1. NodesGrow /\ Len(nodes') \in Nat
    <3>1. Main \in Contexts
      BY DEF Contexts
    <3>2. Len(nodes) \in Nat
      BY <3>1, ContextTyped
    <3> QED
      BY <1>1, <3>2 DEF NodesGrow
  <2> QED
    BY <1>0, <2>1, SameStaysLinked
<1>2. ASSUME NEW c \in Tasks, run = c
      PROVE  c \in Contexts /\ c # Main /\ mode[c] = "running"
  BY <1>2, Numbers DEF QuietInv, Contexts
<1>3. ASSUME NEW c \in Tasks, NEW id \in {c, None}, Begin(c, id)
      PROVE  LinksInv' /\ nodes' = nodes
  <2>1. /\ c \in Contexts /\ mode[c] = "new"
        /\ UNCHANGED <<real, inherited, vstack, cur, nodes>>
        /\ \A d \in Contexts : d # c => SameAt(d)
    BY <1>3, BeginAt
  <2>2. real[c] = <<>> /\ Len(vstack[c]) = 0 /\ cur[c] = None /\ inherited[c] = None
    BY <1>0, <2>1 DEF QuietAt
  <2>3. \A i \in 1 .. Len(vstack'[c]) : FALSE
    BY <2>1, <2>2
  <2>4. cur'[c] = TrueTop(c)'
    BY <2>1, <2>2 DEF TrueTop
  <2>5. LinksAt(c)'
    BY <2>1, <2>2, <2>3, <2>4 DEF LinksAt
  <2> QED
    BY <1>1, <2>1, <2>5 DEF LinksInv
<1>4. ASSUME NEW c \in Tasks, NEW d \in Tasks, Spawn(c, d)
      PROVE  LinksInv' /\ nodes' = nodes
  <2>1. /\ c \in Contexts /\ d \in Contexts /\ run = c /\ mode[d] = "new"
        /\ trace'[d] = trace[c] /\ cur'[d] = cur[c] /\ inherited'[d] = TrueTop(c)
        /\ UNCHANGED <<real, vstack, nodes>>
        /\ \A b \in Contexts : b # d => SameAt(b)
    BY <1>4, SpawnAt
  <2>2. real'[d] = <<>> /\ Len(vstack'[d]) = 0
    BY <1>0, <2>1 DEF QuietAt
  <2>3. LinksAt(d)'
    BY <1>2, <2>1, <2>2, CopyLinks
  <2> QED
    BY <1>1, <2>1, <2>3 DEF LinksInv
<1>5. ASSUME NEW c \in Tasks, Await(c) \/ Finish(c) \/ Resume(c)
      PROVE  LinksInv' /\ nodes' = nodes
  <2>1. /\ c \in Contexts
        /\ run = c \/ (run = None /\ mode[c] = "parked")
        /\ UNCHANGED <<real, inherited, trace, vstack, cur, nodes>>
        /\ \A b \in Contexts : b # c => SameAt(b)
    BY <1>5, LoopAt
  <2>2. c # Main /\ mode[c] \in {"parked", "running"}
    BY <1>2, <2>1, Numbers
  <2>3. TrueTop(c)' = TrueTop(c)
    BY <2>1 DEF TrueTop
  <2>4. LinksAt(c)'
    BY <1>0, <2>1, <2>2, <2>3 DEF LinksAt, Traced
  <2> QED
    BY <1>1, <2>1, <2>4 DEF LinksInv
<1>6. ASSUME NEW c \in Tasks, NEW w \in Workers, Offload(c, w)
      PROVE  LinksInv' /\ nodes' = nodes
  <2>1. /\ c \in Contexts /\ w \in Contexts /\ c # w /\ run = c /\ mode[w] = "idle"
        /\ trace'[w] = trace[c] /\ cur'[w] = cur[c] /\ inherited'[w] = TrueTop(c)
        /\ vstack'[w] = Stale(vstack[w]) /\ vstack'[c] = vstack[c] /\ trace'[c] = trace[c]
        /\ cur'[c] = cur[c] /\ inherited'[c] = inherited[c]
        /\ UNCHANGED <<real, nodes>>
        /\ \A b \in Contexts : b # c /\ b # w => SameAt(b)
    BY <1>6, OffloadAt
  <2>2. real'[w] = <<>> /\ Len(vstack[w]) = 0
    BY <1>0, <2>1 DEF QuietAt
  <2>3. Len(vstack'[w]) = 0
    BY <2>1, <2>2, ContextTyped, Spoiling
  <2>4. LinksAt(w)'
    BY <1>2, <2>1, <2>2, <2>3, CopyLinks
  <2>5. LinksAt(c)'
    <3>1. TrueTop(c)' = TrueTop(c) /\ mode[c] = "running" /\ c # Main
      BY <1>2, <2>1 DEF TrueTop
    <3> QED
      BY <1>0, <2>1, <3>1 DEF LinksAt, Traced
  <2> QED
    BY <1>1, <2>1, <2>4, <2>5 DEF LinksInv
<1>7. ASSUME NEW w \in Workers, JobEnds(w)
      PROVE  LinksInv' /\ nodes' = nodes
  <2>1. /\ w \in Contexts /\ real[w] = <<>> /\ trace'[w] = None
        /\ UNCHANGED <<vstack, nodes>>
        /\ \A b \in Contexts : b # w => SameAt(b)
    BY <1>7, JobEndsAt
  <2>2. \A i \in 1 .. Len(vstack'[w]) : FALSE
    BY <1>0, <2>1
  <2>3. LinksAt(w)'
    BY <2>1, <2>2 DEF LinksAt, Traced
  <2> QED
    BY <1>1, <2>1, <2>3 DEF LinksInv
<1>8. CASE Tick \/ UNCHANGED vars
  <2>1. nodes' = nodes /\ \A b \in Contexts : SameAt(b)
    BY <1>8, TickAt
  <2> QED
    BY <1>1, <2>1 DEF LinksInv
<1> QED
  BY <1>3, <1>4, <1>5, <1>6, <1>7, <1>8

\* Every step keeps the links and the tree.
LEMMA StepCallers ==
  ASSUME CallersInv, [Next]_vars
  PROVE  CallersInv'
<1>1. StacksInv' /\ (Plain' => Plain)
  BY StepStacks, OddStays DEF CallersInv, Plain
<1>2. ASSUME Plain
      PROVE  LinksInv' /\ ParentsCome' /\ ParentIsCaller'
  <2>1. TypeOK /\ HeldInv /\ QuietInv /\ MirrorInv /\ LinksInv /\ ParentsCome /\ ParentIsCaller
    BY <1>2 DEF CallersInv, StacksInv, FramesInv
  <2>2. PlainNext
    BY <1>2, <2>1, PlainSteps
  <2>3. \A c \in Contexts : \A kind \in {"coro", "func"} :
          Call(c, kind) => LinksInv' /\ ParentsCome' /\ ParentIsCaller'
    BY <2>1, CallKeepsLinks DEF Kinds
  <2>4. ASSUME nodes' = nodes
        PROVE  ParentsCome' /\ ParentIsCaller'
    BY <2>1, <2>4 DEF ParentsCome, ParentIsCaller
  <2>5. \A c \in Contexts : Return(c) => LinksInv' /\ nodes' = nodes
    BY <2>1, ReturnKeepsLinks DEF Return
  <2> QED
    BY <2>1, <2>2, <2>3, <2>4, <2>5, RestKeepsLinks, Zenon DEF PlainNext
<1> QED
  BY <1>1, <1>2 DEF CallersInv

\* There is no tree at first.
LEMMA InitCallers == Init => CallersInv
<1> SUFFICES ASSUME Init PROVE CallersInv
  OBVIOUS
<1>1. Len(<<>>) = 0
  OBVIOUS
<1>2. LinksInv
  BY <1>1 DEF Init, LinksInv, LinksAt, Traced
<1>3. ParentsCome /\ ParentIsCaller
  BY <1>1 DEF Init, ParentsCome, ParentIsCaller
<1> QED
  BY <1>2, <1>3, InitStacks DEF CallersInv

\* CallersAreNamed (monitor.py:111-117, 374-381): in a plain program the context
\* variable names the innermost frame, and every frame hangs under the frame
\* that called it or offloaded it.
THEOREM CallersAreNamedAlways == Spec => []CallersAreNamed
<1>1. CallersInv => CallersAreNamed
  <2>1. \A c \in Tasks \cup Workers : c \in Contexts /\ c # Main
    BY Numbers DEF Contexts
  <2> QED
    BY <2>1 DEF CallersInv, CallersAreNamed, ContextNames, LinksInv, LinksAt
<1>2. CallersInv /\ [Next]_vars => CallersInv'
  BY StepCallers
<1> QED
  BY <1>1, <1>2, InitCallers, PTL DEF Spec

-----------------------------------------------------------------------------
(* Plain programs: every suspend is answered *)

\* c is parked in a chain of frames of which n is the innermost.
ParkedIn(c, n) == mode[c] = "parked" /\ Traced(c) /\ real[c] # <<>> /\ Top(real[c]).node = n

AnsweredAt(n) ==
  \/ \E c \in Tasks : ParkedIn(c, n) /\ waits[n] = Len(real[c])
  \/ waits[n] = 0 /\ \A c \in Tasks : ~ ParkedIn(c, n)

AnsweredInv == StacksInv /\ (Plain => \A n \in Nodes : AnsweredAt(n))

\* No frame is the innermost of two contexts.
LEMMA OneTop ==
  ASSUME TypeOK, HeldInv, MirrorInv, NEW c \in Contexts, NEW d \in Contexts,
         Traced(c), Traced(d), real[c] # <<>>, real[d] # <<>>, Top(real[c]).node = Top(real[d]).node
  PROVE  c = d
<1>1. /\ Len(vstack[c]) \in 1 .. Len(vstack[c]) /\ Entered(c) = vstack[c][Len(vstack[c])]
      /\ Entered(c).node = Top(real[c]).node
  BY Mirrored
<1>2. /\ Len(vstack[d]) \in 1 .. Len(vstack[d]) /\ Entered(d) = vstack[d][Len(vstack[d])]
      /\ Entered(d).node = Top(real[d]).node
  BY Mirrored
<1> QED
  BY <1>1, <1>2 DEF HeldInv

\* A step that parks or resumes nobody with a frame answers nothing.
LEMMA OthersKeepAnswered ==
  ASSUME \A n \in Nodes : AnsweredAt(n), waits' = waits,
         \A d \in Tasks :
           \/ real'[d] = real[d] /\ trace'[d] = trace[d] /\ mode'[d] = mode[d]
           \/ mode[d] # "parked" /\ (mode'[d] # "parked" \/ real'[d] = <<>>)
  PROVE  \A n \in Nodes : AnsweredAt(n)'
<1>1. ASSUME NEW d \in Tasks, NEW n \in Nodes
      PROVE  /\ ParkedIn(d, n)' <=> ParkedIn(d, n)
             /\ ParkedIn(d, n) => real'[d] = real[d]
  BY DEF ParkedIn, Traced
<1>2. ASSUME NEW n \in Nodes
      PROVE  AnsweredAt(n)'
  <2>1. CASE \E c \in Tasks : ParkedIn(c, n) /\ waits[n] = Len(real[c])
    <3>1. PICK c \in Tasks : ParkedIn(c, n) /\ waits[n] = Len(real[c])
      BY <2>1
    <3>2. ParkedIn(c, n)' /\ waits'[n] = Len(real'[c])
      BY <1>1, <3>1
    <3> QED
      BY <3>2 DEF AnsweredAt
  <2>2. CASE waits[n] = 0 /\ \A c \in Tasks : ~ ParkedIn(c, n)
    <3>1. waits'[n] = 0 /\ \A c \in Tasks : ~ ParkedIn(c, n)'
      BY <1>1, <2>2
    <3> QED
      BY <3>1 DEF AnsweredAt
  <2> QED
    BY <2>1, <2>2 DEF AnsweredAt
<1> QED
  BY <1>2

\* A task that parks: one suspend for each frame, all on the innermost.
LEMMA ParkAnswers ==
  ASSUME TypeOK, HeldInv, QuietInv, MirrorInv, \A n \in Nodes : AnsweredAt(n),
         NEW c \in Tasks, Park(c), real' = real, mode'[c] = "parked",
         \A d \in Tasks : trace'[d] = trace[d] /\ (d # c => mode'[d] = mode[d])
  PROVE  \A n \in Nodes : AnsweredAt(n)'
<1>1. /\ c \in Contexts /\ run = c /\ OnYield(c, Len(real[c])) /\ mode[c] = "running"
      /\ Len(real[c]) \in Nat
  BY ContextTyped DEF Park, QuietInv, Contexts
<1>2. \A d \in Tasks : d \in Contexts
  BY DEF Contexts
<1>3. ASSUME NEW d \in Tasks, NEW n \in Nodes, d # c
      PROVE  ParkedIn(d, n)' <=> ParkedIn(d, n)
  BY <1>3 DEF ParkedIn, Traced
<1>4. \A n \in Nodes : ~ ParkedIn(c, n)
  BY <1>1 DEF ParkedIn
<1>5. CASE Silent(c)
  <2>1. waits' = waits
    BY <1>1, <1>5 DEF OnYield
  <2>2. \A n \in Nodes : ~ ParkedIn(c, n)'
    <3>1. ~ Traced(c) \/ real[c] = <<>>
      BY <1>1, <1>5, Mirrored
    <3> QED
      BY <3>1 DEF ParkedIn, Traced
  <2>3. ASSUME NEW n \in Nodes
        PROVE  AnsweredAt(n)'
    <3>1. CASE \E d \in Tasks : ParkedIn(d, n) /\ waits[n] = Len(real[d])
      <4>1. PICK d \in Tasks : ParkedIn(d, n) /\ waits[n] = Len(real[d])
        BY <3>1
      <4>2. ParkedIn(d, n)' /\ waits'[n] = Len(real'[d])
        BY <1>3, <1>4, <2>1, <4>1
      <4> QED
        BY <4>2 DEF AnsweredAt
    <3>2. CASE waits[n] = 0 /\ \A d \in Tasks : ~ ParkedIn(d, n)
      <4>1. waits'[n] = 0 /\ \A d \in Tasks : ~ ParkedIn(d, n)'
        BY <1>3, <2>1, <2>2, <3>2
      <4> QED
        BY <4>1 DEF AnsweredAt
    <3> QED
      BY <3>1, <3>2 DEF AnsweredAt
  <2> QED
    BY <2>3
<1>6. CASE ~ Silent(c)
  <2>0. PICK t \in Nodes : t = Entered(c).node
    BY <1>1, <1>6, Mirrored
  <2>1. /\ Traced(c) /\ real[c] # <<>> /\ Len(real[c]) # 0 /\ t = Top(real[c]).node
    BY <1>1, <1>6, <2>0, Mirrored
  <2>2. waits' = [waits EXCEPT ![t] = @ + Len(real[c])]
    BY <1>1, <1>6, <2>0, <2>1 DEF OnYield
  <2>3. \A d \in Tasks : d # c => ~ ParkedIn(d, t)
    BY <1>1, <1>2, <2>1, OneTop DEF ParkedIn
  <2>4. waits[t] = 0
    BY <1>4, <2>1, <2>3 DEF AnsweredAt
  <2>5. waits'[t] = Len(real[c]) /\ \A n \in Nodes : n # t => waits'[n] = waits[n]
    BY <1>1, <2>1, <2>2, <2>4 DEF TypeOK
  <2>6. ParkedIn(c, t)' /\ \A n \in Nodes : n # t => ~ ParkedIn(c, n)'
    BY <2>1 DEF ParkedIn, Traced
  <2>7. AnsweredAt(t)'
    BY <2>5, <2>6 DEF AnsweredAt
  <2>8. ASSUME NEW n \in Nodes, n # t
        PROVE  AnsweredAt(n)'
    <3>1. CASE \E d \in Tasks : ParkedIn(d, n) /\ waits[n] = Len(real[d])
      <4>1. PICK d \in Tasks : ParkedIn(d, n) /\ waits[n] = Len(real[d])
        BY <3>1
      <4>2. ParkedIn(d, n)' /\ waits'[n] = Len(real'[d])
        BY <1>3, <1>4, <2>5, <2>8, <4>1
      <4> QED
        BY <4>2 DEF AnsweredAt
    <3>2. CASE waits[n] = 0 /\ \A d \in Tasks : ~ ParkedIn(d, n)
      <4>1. waits'[n] = 0 /\ \A d \in Tasks : ~ ParkedIn(d, n)'
        BY <1>3, <2>5, <2>6, <2>8, <3>2
      <4> QED
        BY <4>1 DEF AnsweredAt
    <3> QED
      BY <3>1, <3>2 DEF AnsweredAt
  <2> QED
    BY <2>7, <2>8
<1> QED
  BY <1>5, <1>6

\* A task that is resumed: one resume for each of them.
LEMMA ResumeAnswers ==
  ASSUME TypeOK, HeldInv, MirrorInv, \A n \in Nodes : AnsweredAt(n), NEW c \in Tasks, Resume(c)
  PROVE  \A n \in Nodes : AnsweredAt(n)'
<1>1. /\ c \in Contexts /\ mode[c] = "parked" /\ OnResume(c, Len(real[c])) /\ UNCHANGED <<real, trace>>
      /\ Len(real[c]) \in Nat
  BY ContextTyped DEF Resume, Contexts
<1>2. /\ mode'[c] = "running" /\ \A d \in Tasks : d \in Contexts
      /\ \A d \in Tasks : d # c => mode'[d] = mode[d]
  BY DEF Resume, TypeOK, Contexts
<1>3. ASSUME NEW d \in Tasks, NEW n \in Nodes, d # c
      PROVE  ParkedIn(d, n)' <=> ParkedIn(d, n)
  BY <1>1, <1>2, <1>3 DEF ParkedIn, Traced
<1>4. \A n \in Nodes : ~ ParkedIn(c, n)'
  BY <1>2 DEF ParkedIn
<1>5. CASE Silent(c)
  <2>1. waits' = waits
    BY <1>1, <1>5 DEF OnResume
  <2>2. \A n \in Nodes : ~ ParkedIn(c, n)
    BY <1>1, <1>5, Mirrored DEF ParkedIn
  <2>3. ASSUME NEW n \in Nodes
        PROVE  AnsweredAt(n)'
    <3>1. CASE \E d \in Tasks : ParkedIn(d, n) /\ waits[n] = Len(real[d])
      <4>1. PICK d \in Tasks : ParkedIn(d, n) /\ waits[n] = Len(real[d])
        BY <3>1
      <4>2. ParkedIn(d, n)' /\ waits'[n] = Len(real'[d])
        BY <1>1, <1>3, <2>1, <2>2, <4>1
      <4> QED
        BY <4>2 DEF AnsweredAt
    <3>2. CASE waits[n] = 0 /\ \A d \in Tasks : ~ ParkedIn(d, n)
      <4>1. waits'[n] = 0 /\ \A d \in Tasks : ~ ParkedIn(d, n)'
        BY <1>3, <1>4, <2>1, <3>2
      <4> QED
        BY <4>1 DEF AnsweredAt
    <3> QED
      BY <3>1, <3>2 DEF AnsweredAt
  <2> QED
    BY <2>3
<1>6. CASE ~ Silent(c)
  <2>0. PICK t \in Nodes : t = Entered(c).node
    BY <1>1, <1>6, Mirrored
  <2>1. /\ Traced(c) /\ real[c] # <<>> /\ Len(real[c]) # 0 /\ t = Top(real[c]).node
    BY <1>1, <1>6, <2>0, Mirrored
  <2>2. waits' = [waits EXCEPT ![t] = @ - Len(real[c])]
    BY <1>1, <1>6, <2>0, <2>1 DEF OnResume
  <2>3. \A d \in Tasks : d # c => ~ ParkedIn(d, t)
    BY <1>1, <1>2, <2>1, OneTop DEF ParkedIn
  <2>4. ParkedIn(c, t) /\ \A n \in Nodes : n # t => ~ ParkedIn(c, n)
    BY <1>1, <2>1 DEF ParkedIn
  <2>5. waits[t] = Len(real[c])
    BY <2>1, <2>3, <2>4 DEF AnsweredAt
  <2>6. waits'[t] = 0 /\ \A n \in Nodes : n # t => waits'[n] = waits[n]
    BY <1>1, <2>1, <2>2, <2>5 DEF TypeOK
  <2>7. AnsweredAt(t)'
    BY <1>3, <1>4, <2>1, <2>3, <2>6 DEF AnsweredAt
  <2>8. ASSUME NEW n \in Nodes, n # t
        PROVE  AnsweredAt(n)'
    <3>1. CASE \E d \in Tasks : ParkedIn(d, n) /\ waits[n] = Len(real[d])
      <4>1. PICK d \in Tasks : ParkedIn(d, n) /\ waits[n] = Len(real[d])
        BY <3>1
      <4>2. ParkedIn(d, n)' /\ waits'[n] = Len(real'[d])
        BY <1>1, <1>3, <2>4, <2>6, <2>8, <4>1
      <4> QED
        BY <4>2 DEF AnsweredAt
    <3>2. CASE waits[n] = 0 /\ \A d \in Tasks : ~ ParkedIn(d, n)
      <4>1. waits'[n] = 0 /\ \A d \in Tasks : ~ ParkedIn(d, n)'
        BY <1>3, <1>4, <2>6, <2>8, <3>2
      <4> QED
        BY <4>1 DEF AnsweredAt
    <3> QED
      BY <3>1, <3>2 DEF AnsweredAt
  <2> QED
    BY <2>7, <2>8
<1> QED
  BY <1>5, <1>6

\* Every step keeps the suspends answered.
LEMMA StepAnswered ==
  ASSUME AnsweredInv, [Next]_vars
  PROVE  AnsweredInv'
<1>1. StacksInv' /\ (Plain' => Plain)
  BY StepStacks, OddStays DEF AnsweredInv, Plain
<1> DEFINE Answered == \A n \in Nodes : AnsweredAt(n)'
<1>2. ASSUME Plain
      PROVE  Answered
  <2>1. TypeOK /\ HeldInv /\ QuietInv /\ MirrorInv /\ \A n \in Nodes : AnsweredAt(n)
    BY <1>2 DEF AnsweredInv, StacksInv, FramesInv
  <2>2. PlainNext
    BY <1>2, <2>1, PlainSteps
  <2>3. \A d \in Tasks : d \in Contexts /\ d # Main /\ d \notin Workers
    BY Numbers DEF Contexts
  <2>4. \A d \in Tasks : SameAt(d) => real'[d] = real[d] /\ trace'[d] = trace[d] /\ mode'[d] = mode[d]
    BY <2>3 DEF SameAt
  <2>5. ASSUME NEW c \in Contexts, (\E kind \in {"coro", "func"} : Call(c, kind)) \/ Return(c)
        PROVE  Answered
    <3>1. waits' = waits /\ mode' = mode /\ Executing(c)
      BY <2>5 DEF Call, Return
    <3>2. \A d \in Contexts : d # c => SameAt(d)
      BY <2>1, <2>5, FrameStepsElsewhere DEF Kinds
    <3>3. c \in Tasks => mode[c] = "running" /\ mode'[c] = "running"
      BY <2>1, <3>1, WhoExecutes
    <3>4. \A d \in Tasks :
            \/ real'[d] = real[d] /\ trace'[d] = trace[d] /\ mode'[d] = mode[d]
            \/ mode[d] # "parked" /\ (mode'[d] # "parked" \/ real'[d] = <<>>)
      BY <2>3, <2>4, <3>2, <3>3
    <3> QED
      BY <2>1, <3>1, <3>4, OthersKeepAnswered
  <2>6. ASSUME NEW c \in Tasks, NEW id \in {c, None}, Begin(c, id)
        PROVE  Answered
    <3>1. /\ mode[c] = "new" /\ mode'[c] = "running" /\ waits' = waits
          /\ \A d \in Contexts : d # c => SameAt(d)
      BY <2>1, <2>6, BeginAt
    <3>2. \A d \in Tasks :
            \/ real'[d] = real[d] /\ trace'[d] = trace[d] /\ mode'[d] = mode[d]
            \/ mode[d] # "parked" /\ (mode'[d] # "parked" \/ real'[d] = <<>>)
      BY <2>3, <2>4, <3>1
    <3> QED
      BY <2>1, <3>1, <3>2, OthersKeepAnswered
  <2>7. ASSUME NEW c \in Tasks, NEW e \in Tasks, Spawn(c, e)
        PROVE  Answered
    <3>1. /\ mode[e] = "new" /\ waits' = waits /\ real' = real /\ e \in Contexts
          /\ \A d \in Contexts : d # e => SameAt(d)
      BY <2>1, <2>7, SpawnAt
    <3>2. real'[e] = <<>>
      BY <2>1, <3>1 DEF QuietInv, QuietAt
    <3>3. \A d \in Tasks :
            \/ real'[d] = real[d] /\ trace'[d] = trace[d] /\ mode'[d] = mode[d]
            \/ mode[d] # "parked" /\ (mode'[d] # "parked" \/ real'[d] = <<>>)
      BY <2>3, <2>4, <3>1, <3>2
    <3> QED
      BY <2>1, <3>1, <3>3, OthersKeepAnswered
  <2>8. ASSUME NEW c \in Tasks, Await(c)
        PROVE  Answered
    <3>1. /\ Park(c) /\ real' = real /\ trace' = trace /\ mode'[c] = "parked"
          /\ \A d \in Contexts : d # c => SameAt(d)
      BY <2>1, <2>8, LoopAt DEF Await
    <3> QED
      BY <2>1, <2>3, <2>4, <3>1, ParkAnswers
  <2>9. ASSUME NEW c \in Tasks, NEW w \in Workers, Offload(c, w)
        PROVE  Answered
    <3>1. /\ Park(c) /\ real' = real /\ mode'[c] = "parked" /\ trace'[c] = trace[c]
          /\ \A d \in Contexts : d # c /\ d # w => SameAt(d)
      BY <2>1, <2>9, OffloadAt DEF Offload
    <3>2. \A d \in Tasks : trace'[d] = trace[d] /\ (d # c => mode'[d] = mode[d])
      BY <2>3, <2>4, <3>1
    <3> QED
      BY <2>1, <3>1, <3>2, ParkAnswers
  <2>10. \A c \in Tasks : Resume(c) => Answered
    BY <2>1, ResumeAnswers
  <2>11. ASSUME NEW c \in Tasks, Finish(c)
         PROVE  Answered
    <3>1. /\ run = c /\ mode'[c] = "done" /\ waits' = waits
          /\ \A d \in Contexts : d # c => SameAt(d)
      BY <2>1, <2>11, LoopAt DEF Finish, emitted
    <3>2. mode[c] = "running"
      BY <2>1, <3>1 DEF QuietInv
    <3>3. \A d \in Tasks :
            \/ real'[d] = real[d] /\ trace'[d] = trace[d] /\ mode'[d] = mode[d]
            \/ mode[d] # "parked" /\ (mode'[d] # "parked" \/ real'[d] = <<>>)
      BY <2>3, <2>4, <3>1, <3>2
    <3> QED
      BY <2>1, <3>1, <3>3, OthersKeepAnswered
  <2>12. ASSUME NEW w \in Workers, JobEnds(w)
         PROVE  Answered
    <3>1. waits' = waits /\ \A d \in Contexts : d # w => SameAt(d)
      BY <2>1, <2>12, JobEndsAt
    <3>2. \A d \in Tasks : real'[d] = real[d] /\ trace'[d] = trace[d] /\ mode'[d] = mode[d]
      BY <2>3, <2>4, <3>1
    <3> QED
      BY <2>1, <3>1, <3>2, OthersKeepAnswered
  <2>13. CASE Tick \/ UNCHANGED vars
    <3>1. UNCHANGED <<waits, real, trace, mode>>
      BY <2>13, TickAt
    <3> QED
      BY <2>1, <3>1, OthersKeepAnswered
  <2> HIDE DEF Answered
  <2> QED
    BY <2>2, <2>5, <2>6, <2>7, <2>8, <2>9, <2>10, <2>11, <2>12, <2>13, Zenon DEF PlainNext
<1> QED
  BY <1>1, <1>2 DEF AnsweredInv

\* Nothing is suspended at first.
LEMMA InitAnswered == Init => AnsweredInv
<1> SUFFICES ASSUME Init PROVE AnsweredInv
  OBVIOUS
<1>1. \A n \in Nodes : AnsweredAt(n)
  BY DEF Init, AnsweredAt, ParkedIn, Traced
<1> QED
  BY <1>1, InitStacks DEF AnsweredInv

\* SuspendsAnswered (monitor.py:473-520): in a plain program a frame has
\* suspends without a resume only while a task is parked in it, one for each
\* frame of the chain.
THEOREM SuspendsAnsweredAlways == Spec => []SuspendsAnswered
<1>1. ASSUME AnsweredInv
      PROVE  SuspendsAnswered
  <2> DEFINE parked == {c \in Tasks : mode[c] = "parked" /\ Traced(c) /\ real[c] # <<>>}
             chain(n) == {c \in parked : Top(real[c]).node = n}
  <2>1. ASSUME Plain, NEW n \in Nodes
        PROVE  IF chain(n) = {} THEN waits[n] = 0 ELSE \E c \in chain(n) : waits[n] = Len(real[c])
    <3>1. AnsweredAt(n)
      BY <1>1, <2>1 DEF AnsweredInv
    <3>2. \A c \in Tasks : c \in chain(n) <=> ParkedIn(c, n)
      BY DEF ParkedIn
    <3>3. CASE \E c \in Tasks : ParkedIn(c, n) /\ waits[n] = Len(real[c])
      BY <3>2, <3>3
    <3>4. CASE waits[n] = 0 /\ \A c \in Tasks : ~ ParkedIn(c, n)
      BY <3>2, <3>4
    <3> QED
      BY <3>1, <3>3, <3>4 DEF AnsweredAt
  <2> QED
    BY <2>1 DEF SuspendsAnswered
<1>2. AnsweredInv /\ [Next]_vars => AnsweredInv'
  BY StepAnswered
<1>3. AnsweredInv => SuspendsAnswered
  BY <1>1
<1> QED
  BY <1>2, <1>3, InitAnswered, PTL DEF Spec

=============================================================================
