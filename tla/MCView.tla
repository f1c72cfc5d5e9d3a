------------------------------- MODULE MCView -------------------------------
(* View on small instances: a few requests, a few sizes and heights, and one *)
(* kind of session at a time.                                                *)
EXTENDS View

CONSTANTS r1, r2, r3

Size(w, h) == [w |-> w * Px, h |-> h * Px]
Window == Size(800, 300)

Session(does, harm, traces, nodes, sizes) ==
  [does |-> does, sizes |-> sizes, harm |-> harm, stalls |-> FALSE, traces |-> traces, nodes |-> nodes, holds |-> 0]

Mixed ==
  {Session({"click"}, {}, 1, 4, {Window}),
   Session({"wheel"}, {}, 3, 0, {Window}),
   Session({"click"}, {}, 3, 0, {Window}),
   Session({"click", "wheel", "offload"}, {}, 2, 1, {Window}),
   Session({"offload", "filter", "await"}, {"cap"}, 2, 2, {Window}),
   Session({"click", "tab", "await"}, {"clear"}, 2, 1, {Window}),
   Session({"divide", "offload"}, {}, 1, 1, {Window}),
   Session({"divide", "resize"}, {}, 2, 0, {Window, Size(800, 200)}),
   Session({"wheel", "resize"}, {}, 2, 0, {Window, Size(800, 400)})}

Heights == {y * Px : y \in {30, 110, 220}}
FromTheEdge == {DividerGrab}
Turns == {-120 * Px, 120 * Px}

Term(key, val) == [key |-> key, val |-> val]
TwoFilters == {<<Term("zone", "loop")>>, <<Term("slow", "true"), Term("path", {r1})>>}

=============================================================================
