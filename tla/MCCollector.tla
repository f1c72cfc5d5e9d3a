----------------------------- MODULE MCCollector -----------------------------
(* Collector on a small instance: the loop thread, two workers, two queues. *)
EXTENDS Collector, TLC

CONSTANTS w1, w2, q1, q2

\* Workers run the same code, and so do subscribers.
Symmetric == Permutations({w1, w2}) \cup Permutations({q1, q2})

=============================================================================
