--------------------------- MODULE MCBlockingCalls ---------------------------
(* BlockingCalls on a small instance: two applications, which may share a    *)
(* loop, and any thread may make calls.                                      *)
EXTENDS BlockingCalls, TLC

CONSTANTS d1, d2, t1, t2, r1, x1, x2

\* Nothing tells two detectors, two threads or two details apart.
Symmetric == Permutations({d1, d2}) \cup Permutations({t1, t2}) \cup Permutations({x1, x2})

=============================================================================
