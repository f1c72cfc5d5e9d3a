------------------------------- MODULE Layout -------------------------------
(***************************************************************************)
(* Where the dashboard draws what (dashboard.js, viz/geometry.js,          *)
(* viz/primitives.js): pure functions of the rows that ingest() keeps and  *)
(* of the size of the canvas.                                              *)
(*                                                                         *)
(* Lengths are in tenths of a pixel, rounded down.  Scales and fractions   *)
(* are in thousandths.                                                     *)
(***************************************************************************)
EXTENDS Ingest

Px == 10
Unit == 1000

NodeW == 140 * Px
NodeH == 32 * Px
NodeSpacingX == 184 * Px
SiblingGap == 58 * Px
Margin == 20 * Px
SpineX == 70 * Px
RootX == SpineX + 90 * Px
RowBandFill == 800
MinScale == 350

RowCollapsedH == 64 * Px
RowExpandedMin == 180 * Px
RowExpandedMaxFrac == 600
RowGap == 8 * Px
WorkRowH == 52 * Px

ZoneTop == 8 * Px
ZoneBottomMargin == 8 * Px
ZoneHeaderH == 46 * Px
ZoneDivGap == 7 * Px
ZoneMinFrac == 260
ZoneMaxFrac == 740
ZoneMinPx == ZoneHeaderH + RowCollapsedH + 8 * Px
DividerGrab == 7 * Px

Larger(a, b) == IF a > b THEN a ELSE b
Smaller(a, b) == IF a < b THEN a ELSE b
Within(lo, hi, x) == Larger(lo, Smaller(hi, x))
Point(x, y) == [x |-> x, y |-> y]

-----------------------------------------------------------------------------
(* The call tree of a row *)

\* rootNode, the request itself.
Root == 0

Tree(row) == DOMAIN row.nodes \cup {Root}
Above(row, n) == IF row.nodes[n].parent = None THEN Root ELSE row.nodes[n].parent
Below(row, n) == {m \in DOMAIN row.nodes : Above(row, m) = n}

\* depthOf, and the depth that assignPositions stamps.
Depths(row) ==
  LET depth[n \in Tree(row)] == IF n = Root THEN 0 ELSE depth[Above(row, n)] + 1
  IN depth

\* Slots are in sixteenths, so that the middle of a middle is exact.
Slot == 16

Middle(xs) == (Min(xs) + Max(xs)) \div 2

Leaves(row) == {n \in Tree(row) : Below(row, n) = {}}

\* assignPositions, a walk from the oldest child to the youngest: a leaf takes the
\* next free slot, any other node the middle of its children's.
Slots(row) ==
  LET wide[n \in Tree(row)] ==
        IF n \in Leaves(row) THEN 1 ELSE MapThenSumSet(LAMBDA k : wide[k], Below(row, n))
      free[n \in Tree(row)] ==
        IF n = Root THEN 0
        ELSE free[Above(row, n)]
             + MapThenSumSet(LAMBDA k : wide[k], {k \in Below(row, Above(row, n)) : k < n})
      slot[n \in Tree(row)] ==
        IF n \in Leaves(row) THEN free[n] * Slot ELSE Middle({slot[k] : k \in Below(row, n)})
  IN slot

\* expandedMetrics
Metrics(row) ==
  [slots |-> Slots(row), leaves |-> Cardinality(Leaves(row)),
   depth |-> Max({Depths(row)[n] : n \in Tree(row)})]

\* collapsedShape: the request and its active path; those at the same depth are
\* stacked in the order of the stack.
CollapsedShape(row) ==
  LET depth == Depths(row)
      picked == <<Root>> \o SelectSeq(row.stack, LAMBDA n : n \in DOMAIN row.nodes)
      level(k) == SelectSeq(picked, LAMBDA n : depth[n] = k)
      seat(n) == CHOOSE i \in DOMAIN level(depth[n]) : level(depth[n])[i] = n
  IN [n \in ToSet(picked) |->
        [depth |-> depth[n], slot |-> seat(n) - 1, of |-> Len(level(depth[n]))]]

\* How far the width forces a tree of that depth to shrink.
ScaleX(depth, w) ==
  IF depth = 0 THEN Unit
  ELSE Smaller(Unit, ((w - RootX - Margin) * Unit) \div (depth * NodeSpacingX))

ColumnX(depth, scale) == RootX + (depth * NodeSpacingX * scale) \div Unit

\* drawBranchCollapsed
DrawCollapsed(row, y, w) ==
  LET shape == CollapsedShape(row)
      deepest == Max({shape[n].depth : n \in DOMAIN shape})
      scale == Larger(MinScale, ScaleX(deepest, w))
      lift(n) == ((2 * shape[n].slot - (shape[n].of - 1)) * SiblingGap * scale) \div (2 * Unit)
  IN [scale |-> scale,
      at |-> [n \in DOMAIN shape |-> Point(ColumnX(shape[n].depth, scale), y + lift(n))]]

\* Mutant: only the width is looked at.
ExpandedScale_NoHeight(m, h, w) == Larger(MinScale, ScaleX(m.depth, w))

\* Shrunk as far as the width and the height of the row need it.
ExpandedScale(m, h, w) ==
  LET scaleY == (h * RowBandFill) \div (m.leaves * SiblingGap)
  IN Larger(MinScale, Smaller(ScaleX(m.depth, w), scaleY))

\* drawBranchExpanded
DrawExpanded(row, y, h, w) ==
  LET m == Metrics(row)
      scale == ExpandedScale(m, h, w)
      lift(n) == ((2 * m.slots[n] - (m.leaves - 1) * Slot) * SiblingGap * scale)
                   \div (2 * Slot * Unit)
  IN [scale |-> scale,
      at |-> [n \in Tree(row) |-> Point(ColumnX(Depths(row)[n], scale), y + lift(n))]]

Drawn(row, open, y, h, w) ==
  IF open THEN DrawExpanded(row, y, h, w) ELSE DrawCollapsed(row, y, w)

-----------------------------------------------------------------------------
(* Edges *)

\* clipToBox: where the segment from p towards q first crosses the border of the
\* box around c, or q.
ClipToBox(p, q, c, hw, hh) ==
  LET dx == q.x - p.x
      dy == q.y - p.y
      part(k) == Point(p.x + (dx * k) \div Unit, p.y + (dy * k) \div Unit)
      sides == {((x - p.x) * Unit) \div dx : x \in {z \in {c.x - hw, c.x + hw} : dx # 0}}
      lids == {((y - p.y) * Unit) \div dy : y \in {z \in {c.y - hh, c.y + hh} : dy # 0}}
      hits == {k \in sides : part(k).y - c.y \in -(hh + 5) .. hh + 5}
                \cup {k \in lids : part(k).x - c.x \in -(hw + 5) .. hw + 5}
  IN part(Min({Unit} \cup (hits \cap 1 .. Unit)))

\* drawNodeEdge: from border to border of two boxes in full size.
Edge(p, c) ==
  [tail |-> ClipToBox(p, c, p, NodeW \div 2, NodeH \div 2),
   head |-> ClipToBox(c, p, c, NodeW \div 2, NodeH \div 2)]

\* The edges of a drawn tree; a node whose caller is not drawn hangs under the
\* request.
Edges(row, tree) ==
  {[to |-> n, line |-> Edge(tree.at[IF Above(row, n) \in DOMAIN tree.at THEN Above(row, n) ELSE Root],
                            tree.at[n])] : n \in DOMAIN tree.at \ {Root}}

-----------------------------------------------------------------------------
(* Rows and zones *)

RowHeight(row, open, h) ==
  IF ~ open THEN RowCollapsedH
  ELSE Larger(RowExpandedMin,
              Smaller((RowExpandedMaxFrac * h) \div Unit, Metrics(row).leaves * SiblingGap + 40 * Px))

\* The members of S from the smallest key to the largest.
InOrder(S, key) ==
  CHOOSE s \in [1 .. Cardinality(S) -> S] :
    IsInjective(s) /\ \A i, j \in DOMAIN s : i < j => key[s[i]] <= key[s[j]]

\* One below the other.
Place(acc, item) ==
  [rows |-> Append(acc.rows, [trace |-> item.trace, top |-> acc.end, height |-> item.height]),
   end |-> acc.end + item.height + RowGap]

\* layoutRowList: rows in the order of arrival.
LayoutRowList(d, list, open, h) ==
  LET order == InOrder(list, [r \in list |-> d.rows[r].seq])
  IN FoldLeft(Place, [rows |-> <<>>, end |-> 0],
              [i \in DOMAIN order |->
                 [trace |-> order[i], height |-> RowHeight(d.rows[order[i]], order[i] \in open, h)]])

Bottom(item) == item.top + item.height

\* Mutant: the scroll offset is only kept from being negative.
Scrolled_NoEnd(scroll, content, room) == Larger(0, scroll)

\* The offset is kept within what can be scrolled.
Scrolled(scroll, content, room) == Larger(0, Smaller(scroll, Larger(0, content - room)))

\* Whether any of an item is near the rows' part of its zone, or it is culled.
Near(item, top, bottom) ==
  LET centre == item.top + item.height \div 2
  IN centre >= top - item.height /\ centre <= bottom + item.height

\* An item of a zone that is scrolled by `by`.
OnCanvas(item, by, top, bottom) ==
  LET moved == [item EXCEPT !.top = @ + by]
  IN [trace |-> moved.trace, top |-> moved.top, height |-> moved.height,
      drawn |-> Near(moved, top, bottom)]

\* drawZone: the rows in `stack`, and below them the work in `work`, scrolled and
\* clipped to what the header leaves of the band.
DrawZone(band, stack, work, scroll) ==
  LET top == band.top + ZoneHeaderH
      bottom == Larger(top, band.bottom)
      content == stack.end + Len(work) * (WorkRowH + RowGap)
      s == Scrolled(scroll, content, bottom - top)
      worked == [i \in DOMAIN work |->
                   [trace |-> work[i], top |-> stack.end + (i - 1) * (WorkRowH + RowGap),
                    height |-> WorkRowH]]
      shown(items) == [i \in DOMAIN items |-> OnCanvas(items[i], top - s, top, bottom)]
  IN [top |-> top, bottom |-> bottom, scroll |-> s, content |-> content,
      rows |-> shown(stack.rows), work |-> shown(worked)]

-----------------------------------------------------------------------------
(* The divider *)

Avail(h) == Larger(40 * Px, h - ZoneBottomMargin - ZoneTop)

\* Mutant: only the upper zone has a floor.
ClampDividerY_Top(h, y) ==
  IF Avail(h) < 2 * ZoneMinPx THEN ZoneTop + Avail(h) \div 2 ELSE Larger(ZoneTop + ZoneMinPx, y)

\* clampDividerY: neither zone gets less than its floor, or they share evenly.
ClampDividerY(h, y) ==
  IF Avail(h) < 2 * ZoneMinPx
  THEN ZoneTop + Avail(h) \div 2
  ELSE Within(ZoneTop + ZoneMinPx, h - ZoneBottomMargin - ZoneMinPx, y)

\* fracFromY
FracFromY(h, y) == ((ClampDividerY(h, y) - ZoneTop) * Unit) \div Avail(h)

\* The divider of a frame: where the user pinned it, or by the number of rows.
DividerY(h, split, above, all) ==
  LET share == IF all = 0 THEN 500 ELSE Within(ZoneMinFrac, ZoneMaxFrac, (above * Unit) \div all)
      frac == IF split = None THEN share ELSE split
  IN ClampDividerY(h, ZoneTop + (frac * Avail(h)) \div Unit)

=============================================================================
