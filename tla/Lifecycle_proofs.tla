--------------------------- MODULE Lifecycle_proofs ---------------------------
(***************************************************************************)
(* For any number of applications, startups and tool ids: what an          *)
(* application put in place is there while it is up, and its tool id is    *)
(* given back, or lost to a shutdown that was cut short.                   *)
(*                                                                         *)
(* That child tasks inherit the trace while an application is up depends   *)
(* on what the loop has saved: the factory of some other application as    *)
(* soon as two are up at once (SavedInv).  That the host keeps its factory *)
(* needs the same of what is saved (HostInv).                              *)
(*                                                                         *)
(* How many tool ids an application has lost is counted one ahead while    *)
(* its shutdown is cut short: the next startup takes another (LostInv).    *)
(*                                                                         *)
(* What it leaves behind is in RestInv: while only one application has     *)
(* been up, what is saved is what it found, and a shutdown has silenced    *)
(* the listener and the watchdog before its await, the poller after it.    *)
(***************************************************************************)
EXTENDS Lifecycle, SequenceTheorems, FiniteSetTheorems, TLAPS

\* Every application that runs is in the factory or under it, and what
\* was saved last wraps another one if there are two.
SavedInv ==
  /\ \A a \in Running : saved # <<>> /\ Len(factory) > 1
  /\ \A a, b \in Running : a # b => Len(saved) > 1

HostInv ==
  /\ HostKeepsItsFactory
  /\ saved # <<>> => Head(saved) = Host

\* The id of an application cut short is as good as lost.
LostInv == \A a \in Apps : phase[a] = "cut" => Cardinality(Held(a) \ {tool[a]}) < cuts[a]

IInv == TypeOK /\ SavedInv /\ HostInv /\ ToolsAreReturned /\ LostInv

\* The application that is up alone has what it found to restore.
AloneInv ==
  alone => /\ Running = {} => factory = base
           /\ Running # {} => saved = base
           /\ \A a, b \in Running : a = b

\* Where a shutdown has come to, there is nothing left of what it has stopped.
QuietInv ==
  \A a \in Apps :
    /\ phase[a] # "up" => ~ listening[a] /\ ~ watching[a]
    /\ phase[a] \in {"down", "cut"} => poller[a] # "asleep"

RestInv == AloneInv /\ QuietInv

USE LifecycleAssumption

-----------------------------------------------------------------------------

\* Nothing is up at first, and the loop has the factory of its host.
LEMMA InitIInv == Init => IInv
<1> SUFFICES ASSUME Init PROVE IInv
  OBVIOUS
<1>1. <<Host>> \in Chains /\ <<>> \in Chains /\ Len(<<Host>>) = 1 /\ Head(<<Host>>) = Host
      /\ <<Host>> # <<>>
  BY DEF Chains
<1>2. TypeOK
  BY <1>1 DEF Init, TypeOK
<1>3. SavedInv
  BY DEF Init, SavedInv, Running
<1>4. HostInv
  BY <1>1 DEF Init, HostInv, HostKeepsItsFactory
<1>5. ToolsAreReturned /\ LostInv
  <2>1. \A a \in Apps : /\ Held(a) \ {tool[a]} = {}
                       /\ tool[a] = None /\ ~ enabled[a] /\ phase[a] = "down" /\ cuts[a] = 0
    BY DEF Init, Held
  <2>2. \A a \in Apps : Cardinality(Held(a) \ {tool[a]}) = 0
    BY <2>1, FS_EmptySet
  <2> QED
    BY <2>1, <2>2 DEF ToolsAreReturned, LostInv
<1> QED
  BY <1>2, <1>3, <1>4, <1>5 DEF IInv

\* Installing wraps the factory that is there.
LEMMA Wrapped ==
  ASSUME IInv, NEW a \in Apps, InstallFactory(a)
  PROVE  /\ factory' \in Chains \ {<<>>} /\ saved' \in Chains \ {<<>>}
         /\ Len(factory') > 1
         /\ Head(factory') = Host /\ Head(saved') = Host
         /\ Len(saved') = Len(factory)
<1>1. factory \in Seq(Apps \cup {Host}) /\ factory # <<>> /\ Head(factory) = Host
  BY DEF IInv, TypeOK, HostInv, HostKeepsItsFactory, Chains
<1>2. factory' = Append(factory, a) /\ saved' = factory
  BY DEF InstallFactory
<1> QED
  BY <1>1, <1>2, AppendProperties DEF Chains

\* The ids are finitely many.
LEMMA HeldFinite ==
  ASSUME NEW S \in SUBSET Ids
  PROVE  IsFiniteSet(S) /\ Cardinality(S) \in Nat
BY FS_Subset, FS_CardinalityType

\* An application that may start has no more ids than it has lost or is about to.
LEMMA HeldBound ==
  ASSUME IInv, NEW a \in Apps, phase[a] \in {"down", "cut"}
  PROVE  Cardinality(Held(a)) <= cuts[a]
<1>0. Held(a) \in SUBSET Ids /\ Held(a) \ {tool[a]} \in SUBSET Ids
  BY DEF Held
<1>1. IsFiniteSet(Held(a)) /\ IsFiniteSet(Held(a) \ {tool[a]})
      /\ Cardinality(Held(a)) \in Nat /\ Cardinality(Held(a) \ {tool[a]}) \in Nat
  BY <1>0, HeldFinite
<1>2. cuts[a] \in Nat
  BY DEF IInv, TypeOK
<1>3. CASE phase[a] = "down"
  <2>1. tool[a] = None
    BY <1>3 DEF IInv, ToolsAreReturned
  <2>2. Held(a) \ {tool[a]} = Held(a)
    BY <2>1 DEF Held
  <2> QED
    BY <2>2 DEF IInv, ToolsAreReturned
<1>4. CASE phase[a] = "cut"
  <2>1. Cardinality(Held(a) \ {tool[a]}) < cuts[a]
    BY <1>4 DEF IInv, LostInv
  <2> DEFINE Lost == Held(a) \ {tool[a]}
  <2>2. Held(a) = Lost \/ Held(a) = Lost \cup {tool[a]}
    OBVIOUS
  <2>3. IsFiniteSet(Lost) /\ Cardinality(Lost) \in Nat /\ tool[a] \notin Lost
    BY <1>1
  <2> HIDE DEF Lost
  <2>4. Cardinality(Lost \cup {tool[a]}) = Cardinality(Lost) + 1
    BY <2>3, FS_AddElement
  <2>5. Cardinality(Held(a)) <= Cardinality(Lost) + 1
    BY <2>2, <2>3, <2>4
  <2> QED
    BY <1>1, <1>2, <2>1, <2>3, <2>5 DEF Lost
<1> QED
  BY <1>3, <1>4

ToolTypes ==
  /\ tools \in [Ids -> Apps \cup {Host, None}]
  /\ tool \in [Apps -> Ids \cup {None}]
  /\ enabled \in [Apps -> BOOLEAN]

\* What the invariants say of the ids of one application.
ToolOK(b) ==
  /\ tool[b] # None => tool[b] \in Held(b)
  /\ enabled[b] <=> tool[b] # None
  /\ phase[b] = "down" => tool[b] = None
  /\ Cardinality(Held(b) \ {tool[b]}) <= cuts[b]
  /\ phase[b] = "cut" => Cardinality(Held(b) \ {tool[b]}) < cuts[b]

LEMMA ToolOKs == (ToolsAreReturned /\ LostInv) <=> \A b \in Apps : ToolOK(b)
BY DEF ToolsAreReturned, LostInv, ToolOK

\* The tool ids after a monitor was installed.
LEMMA ToolTaken ==
  ASSUME IInv, NEW a \in Apps, NEW works \in BOOLEAN, phase[a] \in {"down", "cut"},
         phase'[a] = "up",
         \A b \in Apps : b # a => phase'[b] = phase[b],
         cuts' = cuts,
         InstallMonitor(a, works)
  PROVE  ToolsAreReturned' /\ LostInv' /\ ToolTypes'
<1>0. ToolTypes /\ \A b \in Apps : ToolOK(b)
  BY ToolOKs DEF IInv, TypeOK, ToolTypes
<1>1. CASE UNCHANGED <<tools, tool, enabled>>
  <2>1. \A b \in Apps : ToolOK(b)'
    BY <1>0, <1>1 DEF ToolOK, Held
  <2> QED
    BY <1>0, <1>1, <2>1, ToolOKs DEF ToolTypes, ToolsAreReturned, LostInv, ToolOK
<1>2. ASSUME NEW i \in Ids,
             tools[i] = None,
             tools' = IF works THEN [tools EXCEPT ![i] = a] ELSE tools,
             tool' = [tool EXCEPT ![a] = IF works THEN i ELSE None],
             enabled' = [enabled EXCEPT ![a] = works]
      PROVE  ToolsAreReturned' /\ LostInv' /\ ToolTypes'
  <2>1. ToolTypes'
    <3>1. tools' \in [Ids -> Apps \cup {Host, None}] /\ tool' \in [Apps -> Ids \cup {None}]
      BY <1>0, <1>2 DEF ToolTypes
    <3>2. enabled' \in [Apps -> BOOLEAN]
      BY <1>0, <1>2 DEF ToolTypes
    <3> QED
      BY <3>1, <3>2 DEF ToolTypes
  <2>2. ASSUME NEW b \in Apps, b # a PROVE ToolOK(b)'
    <3>1. tool'[b] = tool[b] /\ enabled'[b] = enabled[b] /\ phase'[b] = phase[b]
      BY <1>0, <1>2, <2>2 DEF ToolTypes
    <3>2. Held(b)' = Held(b)
      BY <1>0, <1>2, <2>2 DEF ToolTypes, Held
    <3> QED
      BY <1>0, <3>1, <3>2 DEF ToolOK
  <2>3. ToolOK(a)'
    <3>1. tool'[a] = (IF works THEN i ELSE None) /\ enabled'[a] = works
      BY <1>0, <1>2 DEF ToolTypes
    <3>2. /\ works => Held(a)' = Held(a) \cup {i}
          /\ ~ works => Held(a)' = Held(a)
          /\ i \notin Held(a) /\ None \notin Held(a)
      BY <1>0, <1>2 DEF ToolTypes, Held
    <3>3. Held(a)' \ {tool'[a]} = Held(a)
      BY <3>1, <3>2
    <3>4. /\ tool'[a] # None => tool'[a] \in Held(a)'
          /\ enabled'[a] <=> tool'[a] # None
      BY <3>1, <3>2, <1>2
    <3> QED
      BY <3>3, <3>4, HeldBound DEF ToolOK
  <2>4. \A b \in Apps : ToolOK(b)'
    BY <2>2, <2>3
  <2> QED
    BY <2>1, <2>4 DEF ToolsAreReturned, LostInv, ToolOK
<1> QED
  BY <1>1, <1>2 DEF InstallMonitor, IsFirstFree, Free

\* And after one was uninstalled.
LEMMA ToolGiven ==
  ASSUME IInv, NEW a \in Apps,
         phase'[a] = "down",
         \A b \in Apps : b # a => phase'[b] = phase[b],
         cuts' = cuts,
         UninstallMonitor(a)
  PROVE  ToolsAreReturned' /\ LostInv' /\ ToolTypes'
<1>0. ToolTypes /\ \A b \in Apps : ToolOK(b)
  BY ToolOKs DEF IInv, TypeOK, ToolTypes
<1>1. ToolTypes'
  BY <1>0 DEF UninstallMonitor, ToolTypes
<1>2. \A j \in Ids : tools'[j] = IF tool[a] = j THEN None ELSE tools[j]
  BY DEF UninstallMonitor
<1>3. ASSUME NEW b \in Apps, b # a PROVE ToolOK(b)'
  <2>1. tool'[b] = tool[b] /\ enabled'[b] = enabled[b] /\ phase'[b] = phase[b]
    BY <1>0, <1>3 DEF UninstallMonitor, ToolTypes
  <2>2. tool[a] # None => tool[a] \in Held(a)
    BY <1>0 DEF ToolOK
  <2>3. Held(b)' = Held(b)
    BY <1>2, <1>3, <2>2 DEF Held
  <2> QED
    BY <1>0, <2>1, <2>3 DEF ToolOK
<1>4. ToolOK(a)'
  <2>1. tool'[a] = None /\ enabled'[a] = FALSE
    BY <1>0 DEF UninstallMonitor, ToolTypes
  <2>2. Held(a)' \ {tool'[a]} = Held(a) \ {tool[a]}
    BY <1>2, <2>1 DEF Held
  <2> QED
    BY <1>0, <2>1, <2>2 DEF ToolOK
<1>5. \A b \in Apps : ToolOK(b)'
  BY <1>3, <1>4
<1> QED
  BY <1>1, <1>5 DEF ToolsAreReturned, LostInv, ToolOK

-----------------------------------------------------------------------------

\* A startup, whichever of its steps fail, keeps the invariant.
LEMMA StartKeeps ==
  ASSUME IInv, NEW a \in Apps, NEW failed \in SUBSET Steps, Start(a, failed)
  PROVE  IInv'
<1>1. InstallFactory(a) /\ InstallMonitor(a, "monitor" \notin failed) /\ StartPoller(a)
      /\ phase[a] \in {"down", "cut"} /\ phase' = [phase EXCEPT ![a] = "up"] /\ cuts' = cuts
  BY DEF Start
<1>2. /\ factory' \in Chains \ {<<>>} /\ saved' \in Chains \ {<<>>}
      /\ Len(factory') > 1 /\ Head(factory') = Host /\ Head(saved') = Host
      /\ Len(saved') = Len(factory)
  BY <1>1, Wrapped
<1>3. /\ phase' \in [Apps -> {"down", "up", "stopping", "cut"}]
      /\ phase'[a] = "up" /\ \A b \in Apps : b # a => phase'[b] = phase[b]
  BY <1>1 DEF IInv, TypeOK
<1>5. ToolsAreReturned' /\ LostInv' /\ ToolTypes'
  BY <1>1, <1>3, ToolTaken
<1>6. TypeOK'
  <2>1. /\ listening' \in [Apps -> BOOLEAN] /\ watching' \in [Apps -> BOOLEAN]
        /\ poller' \in [Apps -> {"none", "asleep", "done"}]
        /\ stopEvent' \in [Apps -> BOOLEAN]
        /\ last' \in [Apps -> Levels \cup {None}]
    BY DEF Start, StartPoller, IInv, TypeOK
  <2>2. pool' \in Levels /\ starts' \in 0 .. MaxStarts /\ alone' \in BOOLEAN
    BY DEF Start, IInv, TypeOK
  <2>3. base' \in Chains
    BY DEF Start, IInv, TypeOK
  <2> QED
    BY <1>1, <1>2, <1>3, <1>5, <2>1, <2>2, <2>3 DEF IInv, TypeOK, ToolTypes
<1>7. SavedInv'
  <2>1. Running' = Running \cup {a}
    BY <1>3 DEF Running
  <2>2. ASSUME NEW b \in Running PROVE Len(saved') > 1
    BY <1>2 DEF IInv, SavedInv
  <2> QED
    BY <1>2, <2>1, <2>2 DEF SavedInv
<1>8. HostInv'
  BY <1>2 DEF HostInv, HostKeepsItsFactory
<1> QED
  BY <1>5, <1>6, <1>7, <1>8 DEF IInv

\* Restoring what was saved is safe for whoever else is up.
LEMMA FinishKeeps ==
  ASSUME IInv, NEW a \in Apps, phase[a] = "stopping", Finish(a),
         poller' \in [Apps -> {"none", "asleep", "done"}]
  PROVE  IInv'
<1>1. /\ phase' = [phase EXCEPT ![a] = "down"] /\ UninstallMonitor(a)
      /\ factory' = saved /\ saved' = saved
      /\ UNCHANGED <<listening, watching, stopEvent, last, pool, history>>
  BY DEF Finish, UninstallFactory
<1>2. /\ phase' \in [Apps -> {"down", "up", "stopping", "cut"}]
      /\ phase'[a] = "down" /\ \A b \in Apps : b # a => phase'[b] = phase[b]
  BY <1>1 DEF IInv, TypeOK
<1>3. ToolsAreReturned' /\ LostInv' /\ ToolTypes'
  BY <1>1, <1>2, ToolGiven DEF history
<1>4. a \in Running /\ Running' = Running \ {a}
  BY <1>2 DEF Running
<1>5. saved # <<>>
  BY <1>4 DEF IInv, SavedInv
<1>6. TypeOK'
  BY <1>1, <1>2, <1>3, <1>5 DEF IInv, TypeOK, ToolTypes, history
<1>7. SavedInv'
  <2>1. ASSUME NEW b \in Running' PROVE Len(saved) > 1
    BY <1>4 DEF IInv, SavedInv
  <2> QED
    BY <1>1, <1>4, <1>5, <2>1 DEF IInv, SavedInv
<1>8. HostInv'
  BY <1>1, <1>5 DEF IInv, HostInv, HostKeepsItsFactory
<1> QED
  BY <1>3, <1>6, <1>7, <1>8 DEF IInv

\* A step that neither starts nor finishes nor cuts anything short.
LEMMA OtherKeeps ==
  ASSUME IInv, TypeOK', UNCHANGED <<factory, saved, tools, tool, enabled, cuts>>,
         \A a \in Apps : /\ phase'[a] = "down" <=> phase[a] = "down"
                         /\ phase'[a] = "cut" <=> phase[a] = "cut"
  PROVE  IInv'
<1>0. Running' = Running
  BY DEF Running, IInv, TypeOK
<1>1. SavedInv'
  BY <1>0 DEF IInv, SavedInv
<1>2. HostInv'
  BY DEF IInv, HostInv, HostKeepsItsFactory
<1>3. ToolsAreReturned' /\ LostInv'
  BY DEF IInv, ToolsAreReturned, LostInv, Held
<1> QED
  BY <1>1, <1>2, <1>3 DEF IInv

\* Whoever is cut short keeps its id, and owes it.
LEMMA CutKeeps ==
  ASSUME IInv, NEW a \in Apps, CutShort(a)
  PROVE  IInv'
<1>1. /\ phase[a] = "stopping" /\ phase' = [phase EXCEPT ![a] = "cut"]
      /\ poller' = [poller EXCEPT ![a] = "done"]
      /\ cuts' = [cuts EXCEPT ![a] = @ + 1] /\ alone' = FALSE
      /\ UNCHANGED <<factory, saved, tools, tool, enabled, listening, watching, stopEvent, last, pool,
                    starts, base>>
  BY DEF CutShort, instruments
<1>2. TypeOK'
  <2>1. /\ phase' \in [Apps -> {"down", "up", "stopping", "cut"}]
        /\ poller' \in [Apps -> {"none", "asleep", "done"}]
        /\ cuts' \in [Apps -> Nat]
    BY <1>1 DEF IInv, TypeOK
  <2>2. alone' \in BOOLEAN
    BY <1>1, Zenon
  <2> QED
    BY <1>1, <2>1, <2>2 DEF IInv, TypeOK
<1>3. SavedInv'
  <2>1. Running' \subseteq Running
    BY <1>1 DEF Running, IInv, TypeOK
  <2> QED
    BY <1>1, <2>1 DEF IInv, SavedInv
<1>4. HostInv'
  BY <1>1 DEF IInv, HostInv, HostKeepsItsFactory
<1>5. ToolsAreReturned' /\ LostInv'
  <2>1. ASSUME NEW b \in Apps PROVE ToolOK(b)'
    <3>1. ToolOK(b) /\ Held(b)' = Held(b) /\ tool'[b] = tool[b] /\ enabled'[b] = enabled[b]
      BY <1>1, ToolOKs DEF IInv, Held
    <3>2. Held(b) \ {tool[b]} \in SUBSET Ids
      BY DEF Held
    <3>3. cuts[b] \in Nat /\ Cardinality(Held(b) \ {tool[b]}) \in Nat
      BY <3>2, HeldFinite DEF IInv, TypeOK
    <3>4. CASE b = a
      <4>1. cuts'[b] = cuts[b] + 1 /\ phase'[b] = "cut"
        BY <1>1, <3>4 DEF IInv, TypeOK
      <4> QED
        BY <3>1, <3>3, <4>1 DEF ToolOK
    <3>5. CASE b # a
      <4>1. cuts'[b] = cuts[b] /\ phase'[b] = phase[b]
        BY <1>1, <3>5 DEF IInv, TypeOK
      <4> QED
        BY <3>1, <4>1 DEF ToolOK
    <3> QED
      BY <3>4, <3>5
  <2> QED
    BY <2>1 DEF ToolsAreReturned, LostInv, ToolOK
<1> QED
  BY <1>2, <1>3, <1>4, <1>5 DEF IInv

\* Every step keeps the invariant.
LEMMA NextIInv == IInv /\ [Next]_vars => IInv'
<1> SUFFICES ASSUME IInv, [Next]_vars PROVE IInv'
  OBVIOUS
<1>1. ASSUME NEW a \in Apps, NEW failed \in SUBSET Steps, Start(a, failed) PROVE IInv'
  BY <1>1, StartKeeps
<1>2. ASSUME NEW a \in Apps, BeginStop(a) PROVE IInv'
  <2>1. TypeOK'
    BY <1>2 DEF BeginStop, IInv, TypeOK, polling, history
  <2> QED
    BY <1>2, <2>1, OtherKeeps DEF BeginStop, history, IInv, TypeOK
<1>3. ASSUME NEW a \in Apps, Stopped(a) PROVE IInv'
  BY <1>3, FinishKeeps DEF Stopped, IInv, TypeOK
<1>4. ASSUME NEW a \in Apps, TimedOut(a) PROVE IInv'
  BY <1>4, FinishKeeps DEF TimedOut, IInv, TypeOK
<1>5. ASSUME NEW a \in Apps, CutShort(a) PROVE IInv'
  BY <1>5, CutKeeps
<1>6. ASSUME NEW a \in Apps, Poll(a) PROVE IInv'
  <2>0. poller' \in [Apps -> {"none", "asleep", "done"}] /\ last' \in [Apps -> Levels \cup {None}]
    <3>1. \/ poller' = [poller EXCEPT ![a] = "done"] /\ last' = last
          \/ poller' = poller /\ last' = [last EXCEPT ![a] = pool]
      BY <1>6, Zenon DEF Poll
    <3>2. /\ poller \in [Apps -> {"none", "asleep", "done"}]
          /\ last \in [Apps -> Levels \cup {None}] /\ pool \in Levels
      BY DEF IInv, TypeOK
    <3> QED
      BY <3>1, <3>2
  <2>2. UNCHANGED <<phase, instruments, stopEvent, pool, history>>
    BY <1>6 DEF Poll
  <2>1. TypeOK'
    BY <2>0, <2>2 DEF IInv, TypeOK, instruments, history
  <2> QED
    BY <1>6, <2>1, OtherKeeps DEF Poll, instruments, history
<1>7. CASE UNCHANGED vars
  <2>1. TypeOK'
    BY <1>7 DEF IInv, TypeOK, vars, instruments, polling, history
  <2> QED
    BY <1>7, <2>1, OtherKeeps DEF vars, instruments, history
<1>8. ASSUME NEW a \in Apps, PollFails(a) PROVE IInv'
  BY <1>7, <1>8 DEF PollFails
<1>9. CASE PoolChanges
  <2>1. TypeOK'
    BY <1>9 DEF PoolChanges, IInv, TypeOK, instruments, polling, history
  <2> QED
    BY <1>9, <2>1, OtherKeeps DEF PoolChanges, instruments, history
<1> QED
  BY <1>1, <1>2, <1>3, <1>4, <1>5, <1>6, <1>7, <1>8, <1>9 DEF Next

-----------------------------------------------------------------------------

\* The strengthening is an invariant.
THEOREM LifecycleInductive == Spec => []IInv
BY InitIInv, NextIInv, PTL DEF Spec

\* Every variable stays in its type, whatever fails.
THEOREM LifecycleTypeCorrect == Spec => []TypeOK
<1>1. IInv => TypeOK
  BY DEF IInv
<1> QED
  BY <1>1, LifecycleInductive, PTL

\* However many applications start, stop, fail, are cut short and restart, in any
\* order: an application has lost no more tool ids than its shutdowns were cut
\* short, and besides those it has one exactly while its monitor traces
\* (monitor.py:165-222).
THEOREM ToolsCorrect == Spec => []ToolsAreReturned
<1>1. IInv => ToolsAreReturned
  BY DEF IInv
<1> QED
  BY <1>1, LifecycleInductive, PTL

\* No order of starts and stops takes the inheritance of traces from an
\* application that is up, nor the host's factory from the loop
\* (identity.py:163-204).
THEOREM FactoryCorrect == Spec => [](InheritsWhileUp /\ HostKeepsItsFactory)
<1>1. IInv => InheritsWhileUp /\ HostKeepsItsFactory
  BY DEF IInv, SavedInv, HostInv, Running, InheritsWhileUp
<1> QED
  BY <1>1, LifecycleInductive, PTL

-----------------------------------------------------------------------------
(* What is left behind *)

\* Nothing is up at first, and nothing to restore.
LEMMA InitRest == Init => RestInv
BY DEF Init, RestInv, AloneInv, QuietInv, Running

\* A startup that finds nobody remembers what it found; any other is not alone.
LEMMA StartRests ==
  ASSUME IInv, RestInv, NEW a \in Apps, NEW failed \in SUBSET Steps, Start(a, failed)
  PROVE  RestInv'
<1>1. /\ phase[a] \in {"down", "cut"} /\ phase' = [phase EXCEPT ![a] = "up"]
      /\ saved' = factory
      /\ poller' = [poller EXCEPT ![a] = "asleep"]
      /\ listening' = [listening EXCEPT ![a] = "listener" \notin failed]
      /\ watching' = [watching EXCEPT ![a] = "watchdog" \notin failed]
      /\ base' = IF Running = {} THEN factory ELSE base
      /\ alone' = (Running = {})
  BY DEF Start, InstallFactory, StartPoller
<1>2. Running' = Running \cup {a}
  BY <1>1 DEF Running, IInv, TypeOK
<1>3. AloneInv'
  BY <1>1, <1>2 DEF AloneInv
<1>4. QuietInv'
  BY <1>1 DEF RestInv, QuietInv, IInv, TypeOK
<1> QED
  BY <1>3, <1>4 DEF RestInv

\* The end of a shutdown restores what was saved, with the poller over.
LEMMA FinishRests ==
  ASSUME IInv, RestInv, NEW a \in Apps, phase[a] = "stopping", Finish(a),
         poller'[a] # "asleep", \A b \in Apps : b # a => poller'[b] = poller[b]
  PROVE  RestInv'
<1>1. /\ phase' = [phase EXCEPT ![a] = "down"]
      /\ factory' = saved /\ saved' = saved
      /\ UNCHANGED <<listening, watching, base, alone>>
  BY DEF Finish, UninstallFactory, history
<1>2. a \in Running /\ Running' = Running \ {a}
  BY <1>1 DEF Running, IInv, TypeOK
<1>3. AloneInv'
  BY <1>1, <1>2 DEF RestInv, AloneInv
<1>4. QuietInv'
  BY <1>1 DEF RestInv, QuietInv, IInv, TypeOK
<1> QED
  BY <1>3, <1>4 DEF RestInv

\* A step that neither starts nor finishes anything leaves what is to be restored.
LEMMA OthersRest ==
  ASSUME RestInv, QuietInv', UNCHANGED <<factory, saved, base, alone>>, Running' = Running
  PROVE  RestInv'
<1>1. Running' = Running
  OBVIOUS
<1> QED
  BY <1>1 DEF RestInv, AloneInv

\* No step leaves anything behind.
LEMMA NextRest == IInv /\ RestInv /\ [Next]_vars => RestInv'
<1> SUFFICES ASSUME IInv, RestInv, [Next]_vars PROVE RestInv'
  OBVIOUS
<1>1. ASSUME NEW a \in Apps, NEW failed \in SUBSET Steps, Start(a, failed) PROVE RestInv'
  BY <1>1, StartRests
<1>2. ASSUME NEW a \in Apps, BeginStop(a) PROVE RestInv'
  <2>1. QuietInv'
    BY <1>2 DEF BeginStop, RestInv, QuietInv, IInv, TypeOK
  <2> QED
    BY <1>2, <2>1, OthersRest DEF BeginStop, history, IInv, TypeOK, Running
<1>3. ASSUME NEW a \in Apps, Stopped(a) PROVE RestInv'
  BY <1>3, FinishRests DEF Stopped
<1>4. ASSUME NEW a \in Apps, TimedOut(a) PROVE RestInv'
  <2>1. poller'[a] # "asleep" /\ \A b \in Apps : b # a => poller'[b] = poller[b]
    BY <1>4 DEF TimedOut, IInv, TypeOK
  <2> QED
    BY <1>4, <2>1, FinishRests DEF TimedOut
<1>5. ASSUME NEW a \in Apps, CutShort(a) PROVE RestInv'
  <2>1. QuietInv'
    BY <1>5 DEF CutShort, instruments, RestInv, QuietInv, IInv, TypeOK
  <2> QED
    BY <1>5, <2>1 DEF CutShort, RestInv, AloneInv
<1>6. ASSUME NEW a \in Apps, Poll(a) PROVE RestInv'
  <2>1. QuietInv'
    BY <1>6 DEF Poll, instruments, RestInv, QuietInv, IInv, TypeOK
  <2> QED
    BY <1>6, <2>1, OthersRest DEF Poll, instruments, history, Running
<1>7. CASE UNCHANGED vars
  BY <1>7, OthersRest DEF vars, instruments, polling, history, RestInv, QuietInv, Running
<1>8. ASSUME NEW a \in Apps, PollFails(a) PROVE RestInv'
  BY <1>7, <1>8 DEF PollFails
<1>9. CASE PoolChanges
  BY <1>9, OthersRest DEF PoolChanges, instruments, polling, history, RestInv, QuietInv, Running
<1> QED
  BY <1>1, <1>2, <1>3, <1>4, <1>5, <1>6, <1>7, <1>8, <1>9 DEF Next

\* However often an application starts and stops, and whichever of its steps fail:
\* after a shutdown listener, watchdog and poller are over; unless it was cut
\* short the monitor is too, and no tool id is kept if none ever was; and if no
\* other was up meanwhile the loop has the factory it had
\* (app.py:346-378, identity.py:163-204).
THEOREM LeavesNoTraceAlways == Spec => []LeavesNoTrace
<1>1. IInv /\ RestInv => LeavesNoTrace
  <2> SUFFICES ASSUME IInv, RestInv PROVE LeavesNoTrace
    OBVIOUS
  <2>1. AloneRestores
    BY DEF RestInv, AloneInv, AloneRestores
  <2>2. ASSUME NEW a \in Apps, phase[a] = "down" PROVE ~ enabled[a]
    BY <2>2 DEF IInv, ToolsAreReturned
  <2>3. ASSUME NEW a \in Apps, phase[a] = "down", cuts[a] = 0 PROVE Held(a) = {}
    <3>1. Held(a) \in SUBSET Ids
      BY DEF Held
    <3>2. IsFiniteSet(Held(a)) /\ Cardinality(Held(a)) \in Nat /\ Cardinality(Held(a)) <= 0
      BY <2>3, <3>1, HeldFinite, HeldBound
    <3> QED
      BY <3>2, FS_EmptySet
  <2>4. NothingRunsWhenDown
    BY <2>2, <2>3 DEF RestInv, QuietInv, NothingRunsWhenDown
  <2> QED
    BY <2>1, <2>4 DEF LeavesNoTrace
<1> QED
  BY <1>1, InitRest, NextRest, LifecycleInductive, PTL DEF Spec

=============================================================================
