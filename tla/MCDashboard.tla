----------------------------- MODULE MCDashboard -----------------------------
(* Dashboard on small instances: a few requests, more than there are rows.   *)
EXTENDS Dashboard, TLC

CONSTANTS r1, r2, r3

\* Requests differ in nothing but their trace.
Symmetric == Permutations({r1, r2, r3})

World(harm, stalls, t, n, h) ==
  [harm |-> harm, stalls |-> stalls, traces |-> t, nodes |-> n, holds |-> h]

\* Requests are deeper without the watchdog, and losses longer.
Calm == {World({}, FALSE, 2, 3, 2), World({}, TRUE, 3, 2, 1), World({}, TRUE, 2, 2, 2)}
Rough == {World({"loss", "clear"}, FALSE, 2, 2, 1), World({"loss", "clear", "cap"}, TRUE, 2, 1, 1)}
CalmAndRough == Calm \cup Rough

\* For one question at a time.
Small == {World({}, FALSE, 2, 2, 1)}
TwoHolds == {World({}, TRUE, 2, 2, 2)}
Lowered == {World({"cap"}, FALSE, 2, 1, 1)}

=============================================================================
