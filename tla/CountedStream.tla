---------------------------- MODULE CountedStream ----------------------------
(***************************************************************************)
(* What the live stream promises a dashboard tab, without the threads, the *)
(* queues and the sockets that carry it: numbered events are emitted, a    *)
(* connected tab hears some of them in increasing order, and it counts     *)
(* every number it passes over once it has heard a first one.              *)
(***************************************************************************)
EXTENDS Integers, FiniteSets, FiniteSetsExt

VARIABLES
  emitted,    \* how many events the application has emitted
  connected,  \* the tab has a connection
  heard,      \* the numbers it has heard on the latest one
  lost        \* how many it has counted as dropped, over all connections

vars == <<emitted, connected, heard, lost>>

Init ==
  /\ emitted = 0
  /\ connected = FALSE
  /\ heard = {}
  /\ lost = 0

Emit ==
  /\ emitted' = emitted + 1
  /\ UNCHANGED <<connected, heard, lost>>

\* A new connection starts listening anywhere, so nothing before counts.
Connect ==
  /\ ~ connected
  /\ connected' = TRUE
  /\ heard' = {}
  /\ UNCHANGED <<emitted, lost>>

Disconnect ==
  /\ connected
  /\ connected' = FALSE
  /\ UNCHANGED <<emitted, heard, lost>>

\* The numbers between the oldest and the newest of S that S does not have.
Holes(S) == IF S = {} THEN {} ELSE (Min(S) .. Max(S)) \ S

\* The tab hears the events of one frame, all newer than any before.
Hear(frame) ==
  /\ connected
  /\ \A n \in frame, h \in heard : h < n
  /\ heard' = heard \cup frame
  /\ lost' = lost + Cardinality(Holes(heard')) - Cardinality(Holes(heard))
  /\ UNCHANGED <<emitted, connected>>

Next ==
  \/ Emit
  \/ Connect
  \/ Disconnect
  \/ \E frame \in SUBSET (1 .. emitted) : Hear(frame)

Spec == Init /\ [][Next]_vars

=============================================================================
