----------------------------- MODULE MCLifecycle -----------------------------
(* Lifecycle on a small instance: two applications, two tool ids.            *)
EXTENDS Lifecycle

CONSTANTS a1, a2, idle, full

=============================================================================
