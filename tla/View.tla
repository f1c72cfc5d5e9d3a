-------------------------------- MODULE View --------------------------------
(***************************************************************************)
(* What the dashboard shows and how it answers the user (dashboard.js,     *)
(* viz/filter.js): render() paints a frame once in a while, and the        *)
(* handlers of clicks, wheel and divider work on the frame painted last,   *)
(* while the server of Dashboard goes on and its events change the rows.   *)
(***************************************************************************)
EXTENDS Dashboard, Layout

CONSTANTS
  Ys,         \* where the pointer may be
  Grabs,      \* how far from the line the divider may be taken
  Wheels,     \* deltaY of a turn of the wheel
  Filters,    \* what may be typed into the filter box, as terms
  Slows,      \* requests that take longer than "slow req (ms)"
  MaxBetween  \* bound: how much happens between two frames

Doings == {"click", "tab", "wheel", "divide", "resize", "filter", "offload", "await"}

\* A world says two things more: what the user and the program do in it, `does`,
\* and which sizes the window has, `sizes`.  A term is [key, val]: the requests whose text contains
\* the word for "path" and "", the requests with that status for "status", a string
\* for the others.
ASSUME ViewAssumption ==
  /\ MaxBetween \in Nat
  /\ \A w \in Worlds : w.does \subseteq Doings
  /\ \A w \in Worlds : \A z \in w.sizes : {z.w, z.h} \subseteq Nat
  /\ None \notin Ys /\ Ys \subseteq Int /\ Wheels \subseteq Int
  /\ Grabs \subseteq -DividerGrab .. DividerGrab

VARIABLES
  open,     \* rows with branch.expanded
  selected, \* selectedTrace
  tab,      \* of the panel
  filter,   \* filterTerms
  scroll,   \* scrollLoop, scrollPool
  split,    \* splitFrac; None for null
  drag,     \* dividerDrag: where the pointer is, None for false
  size,     \* VW, VH
  frame,    \* what was painted last; hit-tests use it
  shown,    \* what the inspector shows
  due,      \* its last repaint is more than 200 ms ago
  since     \* how much has happened since the last frame

panel == <<selected, tab, shown, due>>
canvas == <<filter, scroll, split, drag, size>>
view == <<open, panel, canvas, frame, since>>

-----------------------------------------------------------------------------
(* The row filter *)

IsSlow(row, r) == row.done /\ r \in Slows

MatchesTerm(d, r, t) ==
  LET row == d.rows[r] IN
  CASE t.key \in {"path", ""} -> r \in t.val
    [] t.key = "status" -> row.done /\ r \in t.val
    [] t.key = "slow" -> IsSlow(row, r) = (t.val # "false")
    [] t.key = "zone" -> Zone(row) = (IF t.val = "loop" THEN "loop" ELSE "pool")
    [] OTHER -> TRUE

Matches(d, r, terms) == \A t \in ToSet(terms) : MatchesTerm(d, r, t)

-----------------------------------------------------------------------------
(* render() *)

Listed(d, terms, zone) ==
  {r \in DOMAIN d.rows : Matches(d, r, terms) /\ Zone(d.rows[r]) = zone}

\* The offloads of the rows that pass the filter, in the order of their start.
PoolWork(d, terms) ==
  LET items == {w \in d.workers : Has(d, w[1]) /\ Matches(d, w[1], terms)}
  IN InOrder(items, [w \in items |-> w[2]])

\* The glow on the spine, beside the row of whoever holds the loop.
Marker(d, zone) ==
  LET at == {i \in DOMAIN zone.rows : zone.rows[i].trace = d.holder}
      y(i) == zone.rows[i].top + zone.rows[i].height \div 2
  IN IF d.stalled # None THEN {}
     ELSE {[trace |-> d.holder, y |-> y(i)] :
             i \in {j \in at : y(j) >= zone.top - 10 * Px /\ y(j) <= zone.bottom + 10 * Px}}

\* The frame, with the offsets `at` before they are clamped.
Render(at) ==
  LET onLoop == Listed(dash, filter, "loop")
      inPool == Listed(dash, filter, "pool")
      work == PoolWork(dash, filter)
      all == Cardinality(onLoop) + Cardinality(inPool) + Len(work)
      divider == DividerY(size.h, split, Cardinality(onLoop), all)
      loop == DrawZone([top |-> ZoneTop, bottom |-> divider - ZoneDivGap],
                       LayoutRowList(dash, onLoop, open, size.h), <<>>, at.loop)
      pool == DrawZone([top |-> divider + ZoneDivGap, bottom |-> size.h - ZoneBottomMargin],
                       LayoutRowList(dash, inPool, open, size.h), work, at.pool)
  IN [divider |-> divider, loop |-> loop, pool |-> pool]

\* renderInspector: everything it shows is read off the row; nothing, if there is
\* none.
Detail(d, r) == IF r # None /\ Has(d, r) THEN {[row |-> d.rows[r], state |-> BranchState(d, r)]} ELSE {}

\* Mutant: only while the request is running.
Late_RunningOnly == selected # None /\ due /\ (Has(dash, selected) => ~ dash.rows[selected].done)

\* The inspector is repainted with a frame, at most every 200 ms.
Late == selected # None /\ due

\* A frame that would change nothing is left out.
Paint ==
  /\ since > 0 \/ Late
  /\ frame' = Render(scroll)
  /\ scroll' = [loop |-> frame'.loop.scroll, pool |-> frame'.pool.scroll]
  /\ since' = 0
  /\ shown' = IF Late THEN Detail(dash, selected) ELSE shown
  /\ due' = (due /\ ~ Late)
  /\ UNCHANGED <<vars, open, selected, tab, filter, split, drag, size>>

Pass ==
  /\ ~ due
  /\ due' = TRUE
  /\ UNCHANGED <<vars, open, selected, tab, canvas, frame, shown, since>>

(* Events arrive.  A row that is gone takes its flag with it. *)

Busy == since < MaxBetween /\ since' = since + 1

\* Bound: which sessions have workers, and frames that await.
Allowed ==
  \A n \in DOMAIN frames' :
    /\ frames'[n].where = "pool" => "offload" \in world.does
    /\ frames'[n].state = "park" => "await" \in world.does

Feed ==
  /\ Busy
  /\ Serve \/ \E n \in Caps : SetCap(n)
  /\ Allowed
  /\ open' = open \cap DOMAIN dash'.rows
  /\ UNCHANGED <<panel, canvas, frame>>

-----------------------------------------------------------------------------
(* The user *)

Does(gesture) == gesture \in world.does /\ Busy

CurrentRows == frame.loop.rows \o frame.pool.rows
Hits(y) == {i \in DOMAIN CurrentRows : y >= CurrentRows[i].top /\ y <= Bottom(CurrentRows[i])}
OverDivider(y) == y - frame.divider \in -DividerGrab .. DividerGrab

\* Mutant: the rows of the lower zone are looked at first.
Hit_PoolFirst(y) == {CurrentRows[i].trace : i \in {j \in Hits(y) : \A k \in Hits(y) : k <= j}}

\* The first row at that height, on whatever part of it.
Hit(y) == {CurrentRows[i].trace : i \in {j \in Hits(y) : \A k \in Hits(y) : j <= k}}

\* The click handler.  A row that is gone by now is selected all the same.
Press(y) ==
  IF OverDivider(y)
  THEN UNCHANGED <<open, panel>>
  ELSE
    /\ open' = (open \ Hit(y)) \cup ((Hit(y) \cap DOMAIN dash.rows) \ open)
    /\ selected' = IF Hit(y) = {} THEN None ELSE CHOOSE r \in Hit(y) : TRUE
    /\ tab' = IF Hit(y) = {} THEN "guide" ELSE "request"
    /\ shown' = Detail(dash, selected')
    /\ due' = FALSE

Click(y) ==
  /\ Does("click")
  /\ drag = None
  /\ Press(y)
  /\ UNCHANGED <<vars, canvas, frame>>

Tab(which) ==
  /\ Does("tab")
  /\ tab # which
  /\ tab' = which
  /\ UNCHANGED <<vars, open, selected, shown, due, canvas, frame>>

Wheel(y, dy) ==
  /\ Does("wheel")
  /\ scroll' = IF y > frame.divider THEN [scroll EXCEPT !.pool = @ + dy]
               ELSE [scroll EXCEPT !.loop = @ + dy]
  /\ UNCHANGED <<vars, open, panel, filter, split, drag, size, frame>>

\* pointerdown, on the line or at most 7 px from it
Grab(by) ==
  /\ Does("divide")
  /\ drag = None
  /\ drag' = frame.divider + by
  /\ split' = FracFromY(size.h, frame.divider + by)
  /\ UNCHANGED <<vars, open, panel, filter, scroll, size, frame>>

Move(y) ==
  /\ Does("divide")
  /\ drag # None
  /\ drag' = y
  /\ split' = FracFromY(size.h, y)
  /\ UNCHANGED <<vars, open, panel, filter, scroll, size, frame>>

\* pointerup, and the click that follows it
Release ==
  /\ Does("divide")
  /\ drag # None
  /\ drag' = None
  /\ Press(drag)
  /\ UNCHANGED <<vars, filter, scroll, split, size, frame>>

\* pointercancel
Cancel ==
  /\ Does("divide")
  /\ drag # None
  /\ drag' = None
  /\ UNCHANGED <<vars, open, panel, filter, scroll, split, size, frame>>

\* dblclick, on the line
Unpin ==
  /\ Does("divide")
  /\ drag = None
  /\ split' = None
  /\ UNCHANGED <<vars, open, panel, filter, scroll, drag, size, frame>>

Resize(s) ==
  /\ Does("resize")
  /\ size # s
  /\ size' = s
  /\ UNCHANGED <<vars, open, panel, filter, scroll, split, drag, frame>>

ApplyFilter(terms) ==
  /\ Does("filter")
  /\ filter # terms
  /\ filter' = terms
  /\ UNCHANGED <<vars, open, panel, scroll, split, drag, size, frame>>

ClearAll ==
  /\ Busy
  /\ Clear
  /\ open' = {}
  /\ selected' = None
  /\ scroll' = [loop |-> 0, pool |-> 0]
  /\ shown' = {}
  /\ due' = FALSE
  /\ UNCHANGED <<tab, filter, split, drag, size, frame>>

-----------------------------------------------------------------------------

VInit ==
  /\ Init
  /\ open = {}
  /\ selected = None /\ tab = "guide" /\ shown = {} /\ due = TRUE
  /\ filter = <<>>
  /\ scroll = [loop |-> 0, pool |-> 0]
  /\ split = None /\ drag = None
  /\ size \in world.sizes
  /\ frame = Render(scroll)
  /\ since = 0

VNext ==
  \/ Feed
  \/ Paint
  \/ Pass
  \/ \E y \in Ys : Click(y) \/ Move(y) \/ \E dy \in Wheels : Wheel(y, dy)
  \/ \E which \in {"guide", "request"} : Tab(which)
  \/ \E by \in Grabs : Grab(by)
  \/ Release
  \/ Cancel
  \/ Unpin
  \/ \E s \in world.sizes : Resize(s)
  \/ \E terms \in Filters : ApplyFilter(terms)
  \/ ClearAll

\* WF_<<vars, view>>(Paint), with its ENABLED written out.
PaintIsFair == []<>(since = 0 /\ ~ Late) \/ []<><<Paint>>_<<vars, view>>

\* The browser goes on painting, and time passes.
VSpec == VInit /\ [][VNext]_<<vars, view>> /\ PaintIsFair /\ WF_<<vars, view>>(Pass)

-----------------------------------------------------------------------------
(* Properties.  A frame is fresh until something else happens. *)

Fresh == since = 0
Zones == {"loop", "pool"}
Room(zone) == zone.bottom - zone.top
Items(zone) == zone.rows \o zone.work

\* Wherever the divider was dragged or pinned and whatever became of the window
\* since, both zones hold a row and stay clear of each other's header; if the
\* window is too short for that, neither starves (dashboard.js:80-84, 1014-1023, 2248-2250).
BandsAreKept ==
  Fresh =>
    IF Avail(size.h) >= 2 * ZoneMinPx
    THEN /\ \A z \in Zones : Room(frame[z]) >= RowCollapsedH
         /\ frame.loop.bottom < frame.divider
         /\ frame.divider < frame.pool.top - ZoneHeaderH
         /\ frame.pool.bottom <= size.h
    ELSE Room(frame.loop) - Room(frame.pool) \in -1 .. 1

Visible(item, zone) == item.top < zone.bottom /\ Bottom(item) > zone.top

\* However rows came, went, grew and were scrolled: each zone shows the rows that
\* pass the filter, in the order of arrival, and below them the work of its
\* workers, nothing over anything else; no scroll leaves the zone blank, and what
\* is in sight is never culled (dashboard.js:994-999, 1169-1182, 2293-2299).
RowsAreStacked ==
  Fresh => \A z \in Zones :
    LET zone == frame[z]
        items == Items(zone)
        seq(i) == dash.rows[zone.rows[i].trace].seq
    IN /\ {zone.rows[i].trace : i \in DOMAIN zone.rows} = Listed(dash, filter, z)
       /\ \A i, j \in DOMAIN zone.rows : i < j => seq(i) < seq(j)
       /\ \A i, j \in DOMAIN items : i < j => Bottom(items[i]) < items[j].top
       /\ \A i \in DOMAIN items : Visible(items[i], zone) => items[i].drawn
       /\ items # <<>> =>
            /\ items[1].top <= zone.top
            /\ items[1].top < zone.top => Bottom(Last(items)) + RowGap >= zone.bottom

\* The canvas is in order (dashboard.js:994-999, 1014-1023, 2242-2250).
CanvasIsOrderly == BandsAreKept /\ RowsAreStacked

\* The tree of the i-th row of a zone.
TreeAt(zone, i) ==
  LET item == zone.rows[i]
  IN Drawn(dash.rows[item.trace], item.trace \in open, item.top + item.height \div 2,
           item.height, size.w)

Apart(p, q, scale) ==
  \/ (p.x - q.x) * Unit \notin -(NodeW * scale - Unit) .. NodeW * scale - Unit
  \/ (p.y - q.y) * Unit \notin -(NodeH * scale - Unit) .. NodeH * scale - Unit

\* An open row shows every call of its request: no box over another, all of them
\* inside the row unless the scale is at its floor, and each caller level with the
\* middle of its calls (dashboard.js:928-932, 2065-2079).
TreeFits(row, item, tree) ==
  /\ DOMAIN tree.at = Tree(row)
  /\ \A n, m \in DOMAIN tree.at : n # m => Apart(tree.at[n], tree.at[m], tree.scale)
  /\ tree.scale > MinScale => \A n \in DOMAIN tree.at :
       LET half == (NodeH * tree.scale) \div (2 * Unit)
       IN tree.at[n].y - half >= item.top /\ tree.at[n].y + half <= Bottom(item)
  /\ \A n \in DOMAIN tree.at :
       LET ys == {tree.at[m].y : m \in Below(row, n)}
       IN ys # {} => 2 * tree.at[n].y - (Min(ys) + Max(ys)) \in -4 .. 4

\* A closed row shows the request and the calls that are running.
PathIsShown(row, tree) ==
  DOMAIN tree.at = {Root} \cup (Live \cap DOMAIN row.nodes)

\* An arrow runs to the right and ends on the box of the callee
\* (dashboard.js:48-50, viz/primitives.js:56-61), as long as the boxes in full
\* size would be apart.
ArrowsPointRight(row, tree) ==
  \A e \in Edges(row, tree) :
    /\ e.line.tail.x < e.line.head.x
    /\ tree.at[e.to].x - e.line.head.x <= NodeW \div 2 + Px

TreesAreDrawn ==
  Fresh => \A z \in Zones : \A i \in {j \in DOMAIN frame[z].rows : frame[z].rows[j].drawn} :
    LET item == frame[z].rows[i]
        row == dash.rows[item.trace]
        tree == TreeAt(frame[z], i)
    IN /\ IF item.trace \in open THEN TreeFits(row, item, tree) ELSE PathIsShown(row, tree)
       /\ NodeSpacingX * tree.scale > NodeW * Unit => ArrowsPointRight(row, tree)

Under(item, y) == y >= item.top /\ y <= Bottom(item)
InSight(zone, y) == y >= zone.top /\ y <= zone.bottom

\* The rows seen at a height.
SeenAt(y) ==
  UNION {{item.trace : item \in {it \in ToSet(frame[z].rows) : Under(it, y) /\ InSight(frame[z], y)}}
           : z \in Zones}

\* Below the loop's zone rows may be hidden that take the click (known
\* divergences).
Hidden(y) == y > frame.loop.bottom /\ \E item \in ToSet(frame.loop.rows) : Under(item, y)

\* A click on a row that is seen selects that row and toggles no other, though
\* the rows have moved, changed or gone since the frame that the user saw
\* (dashboard.js:1075-1083).
ClickHitsWhatIsSeen ==
  [][\A y \in Ys : Click(y) /\ ~ OverDivider(y) /\ ~ Hidden(y) /\ SeenAt(y) # {} =>
       /\ SeenAt(y) = {selected'}
       /\ tab' = "request"
       /\ selected' \in DOMAIN dash.rows => (selected' \in open') # (selected' \in open)
       /\ open' \ {selected'} = open \ {selected'}
    ]_<<vars, view>>

\* In the end the inspector shows what has become of the request, unless that
\* changes for ever, though it is repainted only now and then, and though the row
\* may be gone (dashboard.js:2403-2407, 2579-2580).
InspectorCatchesUp ==
  \/ <>[](shown = Detail(dash, selected))
  \/ []<><<Detail(dash', selected') # Detail(dash, selected)>>_<<dash, selected>>

-----------------------------------------------------------------------------
(* Not so (README, known divergences) *)

\* "that gesture was a resize, not a row selection" (dashboard.js:1087-1088)
DragIsNoClick == [][Release => open' = open /\ selected' = selected]_<<vars, view>>

\* "that row becomes the inspector's subject" (dashboard.js:1078-1081), in either
\* zone
EveryClickHitsWhatIsSeen ==
  [][\A y \in Ys : Click(y) /\ ~ OverDivider(y) /\ SeenAt(y) # {} => SeenAt(y) = {selected'}]_<<vars, view>>

\* "whichever request currently holds the loop" (dashboard.js:1295-1296)
GlowsForRunning ==
  Fresh => \A m \in Marker(dash, frame.loop) : BranchState(dash, m.trace) = "RUNNING"

\* At any scale (viz/primitives.js:56-61).
AllArrowsPointRight ==
  Fresh => \A z \in Zones : \A i \in DOMAIN frame[z].rows :
    ArrowsPointRight(dash.rows[frame[z].rows[i].trace], TreeAt(frame[z], i))

=============================================================================
