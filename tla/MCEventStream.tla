---------------------------- MODULE MCEventStream ----------------------------
(* EventStream on a small instance: the loop and a worker push, one tab      *)
(* connects and reconnects.                                                  *)
EXTENDS EventStream

CONSTANTS w1, q1, q2

\* A tab that reconnects uses the connections one after the other, and which
\* comes first does not matter.
Symmetric == Permutations({q1, q2})

=============================================================================
