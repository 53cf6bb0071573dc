------------------------------- MODULE Layout -------------------------------
(***************************************************************************)
(* Preferred sizes, their caches, and the layout box                       *)
(* (src/el/elements/layout_box.cc and the layout of src/el/element.cc).    *)
(*                                                                         *)
(* A window holds a layout box by its gravity, which holds leaves and      *)
(* another box of leaves.  A change invalidates caches and layouts, up to  *)
(* the root or only of its target; the next process lays out what is       *)
(* invalid, with what caches are valid.                                    *)
(*                                                                         *)
(* The code writes the layout for the x axis and rotates what goes in and  *)
(* out; here sizes are indexed by the axis.  Shares are rounded down, as   *)
(* (int) of the exact quotient: float may give one less, which is then     *)
(* left for the children that follow.                                      *)
(***************************************************************************)
EXTENDS Integers, Sequences
LOCAL S == INSTANCE SequencesExt

CONSTANTS Outer, Inner,  \* the boxes
          Leaf,          \* the other elements
          Children,      \* of each box, in document order
          Windows,       \* sizes of the window
          Contents,      \* what leaves measure: [min, pref, max: [x, y], area: what wraps, 0 if nothing]
          Measures,      \* of each leaf, at first
          Params,        \* layout parameters along both axes: [min, pref, max], -1 unspecified
          Skins,         \* of each element, for both axes: [padding, min, least: its cut
                         \*  edges, pref, max, intrinsic, spacing], -1 unspecified
          DefaultSpacing,  \* of the skin file
          Gravities,     \* sets of edges
          Settings,      \* initial settings of the boxes: [axis, size, pos, dist, distpos, reversed, spacing,
                         \*  overflow, which nothing reads]
          Changes        \* changes of a setting: <<field, value>>

Box == {Outer, Inner}
Node == Box \cup Leaf
Axes == {"x", "y"}
Infinity == 10000

(* Assumed of the constants where they get their values *)
LayoutAssumption ==
  /\ Outer # Inner /\ Box \cap Leaf = {}
  /\ Children \in [Box -> Seq(Node)]
  /\ S!ToSet(Children[Inner]) \subseteq Leaf /\ S!ToSet(Children[Outer]) \subseteq Leaf \cup {Inner}
  /\ Windows \subseteq [Axes -> Nat] /\ Measures \in [Leaf -> Contents]
  /\ Gravities \subseteq SUBSET {"left", "right", "top", "bottom"}

VARIABLES window,  \* the size of the window
          el,      \* of each element [content, gravity, shown: it is not kGone, params]
          box,     \* of each box its settings
          lay      \* of each element [valid, ps, sc: the cached size and what it was measured for,
                   \*  pos, size: its rect], and of boxes [invalid, overflow, scroll, untold: history,
                   \*  layout_size was set and the box it is in has not been laid out since]

vars == <<window, el, box, lay>>

Least(a, b) == IF a < b THEN a ELSE b
Most(a, b) == IF a < b THEN b ELSE a
(* GetRotatedRect and the like exchange the axes. *)
Cross(a) == IF a = "x" THEN "y" ELSE "x"
Unless(v, default) == IF v = -1 THEN default ELSE v

(* (int) of a quotient: towards zero *)
Quotient(a, b) == IF (a < 0) = (b < 0) THEN (IF a < 0 THEN -a ELSE a) \div (IF b < 0 THEN -b ELSE b)
                  ELSE -((IF a < 0 THEN -a ELSE a) \div (IF b < 0 THEN -b ELSE b))

-----------------------------------------------------------------------------
(* Preferred sizes: [min, pref, max: [x, y], dep: axes that depend on the other] *)

(* ConstrainByPadding and ConstrainByLayoutParams *)
Inside(n, sc) == [a \in Axes |-> IF sc[a] = Infinity THEN Infinity ELSE sc[a] - 2 * Skins[n].padding]
ConstrainByLayoutParams(n, sc) ==
  LET lp == el[n].params
  IN  [a \in Axes |-> IF sc[a] = Infinity THEN Unless(lp.max, Infinity)
                      ELSE LET least == Most(sc[a], Unless(lp.min, sc[a])) IN Least(least, Unless(lp.max, least))]

(* What a leaf measures: text that wraps is as high as its width demands. *)
LeafSize(n, sc) ==
  LET c == el[n].content
      width == Most(1, Inside(n, sc).x)
  IN  [min |-> c.min, max |-> c.max, dep |-> IF c.area = 0 THEN {} ELSE {"y"},
       pref |-> IF c.area = 0 THEN c.pref ELSE [c.pref EXCEPT !.y = (c.area + width - 1) \div width]]

(* OnCalculatePreferredSize: the skin overrides, or adds its padding. *)
Skinned(n, ps) ==
  LET k == Skins[n]
      intrinsic(a) == k.pref # -1 \/ (ps.pref[a] = 0 /\ k.intrinsic # -1)
      pref(a) == IF k.pref # -1 THEN k.pref ELSE IF intrinsic(a) THEN k.intrinsic ELSE ps.pref[a] + 2 * k.padding
      min(a) == IF k.min # -1 THEN k.min ELSE Most(ps.min[a] + (IF intrinsic(a) THEN 0 ELSE 2 * k.padding), k.least)
  IN  [ps EXCEPT !.min = [a \in Axes |-> min(a)], !.pref = [a \in Axes |-> Most(pref(a), min(a))],
                 !.max = [a \in Axes |-> Unless(k.max, ps.max[a] + 2 * k.padding)]]

(* LP_OVERRIDE *)
Overridden(n, ps) ==
  LET lp == el[n].params
      min(a) == Unless(lp.min, ps.min[a])
  IN  IF lp.min = -1 /\ lp.pref = -1 /\ lp.max = -1 THEN ps
      ELSE [ps EXCEPT !.min = [a \in Axes |-> min(a)], !.max = [a \in Axes |-> Most(Unless(lp.max, ps.max[a]), min(a))],
                      !.pref = [a \in Axes |-> Most(Unless(lp.pref, ps.pref[a]), min(a))]]

Measured(l, n, sc, ps) == [l |-> [l EXCEPT ![n].valid = TRUE, ![n].ps = ps, ![n].sc = sc], ps |-> ps]

(* GetPreferredSize: from the cache if it is valid, and was measured for these
   constraints or does not depend on any; what it is else is `content` *)
Cached(l, n, sc, content) ==
  IF l[n].valid /\ (l[n].sc = sc \/ l[n].ps.dep = {}) THEN [l |-> l, ps |-> l[n].ps]
  ELSE Measured(content.l, n, sc, Overridden(n, Skinned(n, content.ps)))

MeasureLeaf(l, n, given) ==
  LET sc == ConstrainByLayoutParams(n, given) IN Cached(l, n, sc, [l |-> l, ps |-> LeafSize(n, sc)])

(* All of a sequence of elements, each with the caches the last one left *)
MeasureAll(l, nodes, sc, Measure(_, _, _)) ==
  LET next(last, one) == [l |-> one.l, ps |-> Append(last.ps, one.ps)]
      all[i \in 0 .. Len(nodes)] ==
        IF i = 0 THEN [l |-> l, ps |-> <<>>]
        ELSE LET last == all[i - 1] IN next(last, Measure(last.l, nodes[i], sc))
  IN  all[Len(nodes)]

-----------------------------------------------------------------------------
(* The layout box *)

(* GetFirstInLayoutOrder, GetNextInLayoutOrder *)
Ordered(n) == IF box[n].reversed THEN S!Reverse(Children[n]) ELSE Children[n]

(* GetNextNonCollapsedElement *)
InOrder(n) == SelectSeq(Ordered(n), LAMBDA c : el[c].shown)

CalculateSpacing(n) == Unless(Unless(box[n].spacing, Skins[n].spacing), DefaultSpacing)

Start(a) == IF a = "x" THEN "left" ELSE "top"
End(a) == IF a = "x" THEN "right" ELSE "bottom"
Stretches(n, a) == {Start(a), End(a)} \subseteq el[n].gravity

QualifyForExpansion(n, child) ==
  box[n].dist = "available" \/ (box[n].dist = "gravity" /\ Stretches(child, box[n].axis))

GetWantedHeight(n, child, ps, available) ==
  LET b == Cross(box[n].axis)
      height == CASE box[n].size = "available" -> available
                  [] box[n].size = "gravity" /\ Stretches(child, b) -> available
                  [] OTHER -> Least(available, ps.pref[b])
  IN  Least(height, ps.max[b])

Sum(f) == S!FoldLeft(LAMBDA s, v : s + v, 0, f)
Highest(f) == S!FoldLeft(Most, 0, f)
Gaps(n, nodes) == Most(0, Len(nodes) - 1) * CalculateSpacing(n)

(* ValidateLayout with calculate_ps: what the box prefers for its children *)
BoxSize(n, measured) ==
  LET a == box[n].axis
      b == Cross(a)
      nodes == InOrder(n)
      ps == measured.ps
      along(f) == Sum([i \in DOMAIN ps |-> ps[i][f][a]]) + Gaps(n, nodes)
      across(f) == Highest([i \in DOMAIN ps |-> ps[i][f][b]])
      highest == Highest([i \in DOMAIN ps |-> GetWantedHeight(n, nodes[i], ps[i], ps[i].max[b])])
      size(f) == [c \in Axes |-> IF c = a THEN along(f) ELSE IF f = "max" THEN highest ELSE across(f)]
  IN  [l |-> measured.l,
       ps |-> [min |-> size("min"), pref |-> size("pref"), max |-> size("max"),
               dep |-> UNION {ps[i].dep : i \in DOMAIN ps}]]

MeasureBox(l, n, given) ==
  LET sc == ConstrainByLayoutParams(n, given)
  IN  Cached(l, n, sc, BoxSize(n, MeasureAll(l, InOrder(n), Inside(n, sc), MeasureLeaf)))
GetPreferredSize(l, n, sc) == IF n \in Leaf THEN MeasureLeaf(l, n, sc) ELSE MeasureBox(l, n, sc)

(* What is missing is taken from each child by what it has above its minimum. *)
ShareMissing(s, diff) ==
  LET removed == Least(Quotient(s.missing * diff, s.diff), diff)
  IN  [s EXCEPT !.last = -removed, !.diff = @ - diff, !.missing = @ - removed]

ShareExtra(s, diff) ==
  LET added == Least(Quotient(s.extra * diff, s.room), diff)
  IN  [s EXCEPT !.last = added, !.room = @ - diff, !.extra = @ - added]

LayoutSize(l, n, a) == l[n].size[a] - 2 * Skins[n].padding
PrefDiff(p, a) == p.pref[a] - p.min[a]
RoomOf(l, n, p) == Least(LayoutSize(l, n, box[n].axis), p.max[box[n].axis]) - p.pref[box[n].axis]

(* The room the expansion of the children may use *)
TotalRoom(l, n, nodes, ps) ==
  Sum([i \in DOMAIN nodes |-> IF QualifyForExpansion(n, nodes[i]) THEN RoomOf(l, n, ps[i]) ELSE 0])

(* A child with what it prefers, and what it takes or gives of s *)
Share(l, n, child, p, s) ==
  LET given == [s EXCEPT !.last = 0]
      taken(t) == [t EXCEPT !.all = Append(@, p.pref[box[n].axis] + t.last)]
  IN  taken(IF s.missing # 0 /\ s.diff # 0 THEN ShareMissing(given, PrefDiff(p, box[n].axis))
            ELSE IF s.extra # 0 /\ s.room # 0 /\ QualifyForExpansion(n, child)
                 THEN ShareExtra(given, RoomOf(l, n, p)) ELSE given)

Spare(l, n, nodes, ps) ==
  LayoutSize(l, n, box[n].axis) - Sum([i \in DOMAIN ps |-> ps[i].pref[box[n].axis]]) - Gaps(n, nodes)

(* How wide the children get, in order *)
Widths(l, n, nodes, ps, spare) ==
  LET share[i \in 0 .. Len(nodes)] ==
        IF i = 0
        THEN [missing |-> Most(-spare, 0), extra |-> Most(spare, 0), last |-> 0, all |-> <<>>,
              diff |-> Sum([k \in DOMAIN ps |-> PrefDiff(ps[k], box[n].axis)]), room |-> TotalRoom(l, n, nodes, ps)]
        ELSE Share(l, n, nodes[i], ps[i], share[i - 1])
  IN  share[Len(nodes)].all

(* Where the first one begins: the space they will not use is predicted. *)
Offset(l, n, nodes, ps, spare) ==
  LET unused == spare - (IF box[n].dist = "preferred" THEN 0 ELSE Least(spare, TotalRoom(l, n, nodes, ps)))
  IN  Skins[n].padding + (CASE spare <= 0 \/ box[n].distpos = "left-top" -> 0
                            [] box[n].distpos = "center" -> Quotient(unused, 2)
                            [] OTHER -> unused)

(* Across the axis *)
Position(n, child, available, height) ==
  LET b == Cross(box[n].axis)
      right == End(b) \in el[child].gravity
  IN  Skins[n].padding +
      (CASE box[n].pos = "center" \/ (box[n].pos = "gravity" /\ Stretches(child, b)) -> Quotient(available - height, 2)
         [] box[n].pos = "right-bottom" \/ (box[n].pos = "gravity" /\ right) -> available - height
         [] OTHER -> 0)

set_overflow_scroll(k, to) == [k EXCEPT !.scroll = Most(Least(to, k.overflow), 0)]

(* The rectangles of the children *)
Rects(n, nodes, ps, widths, offset, available) ==
  LET a == box[n].axis
      height(i) == GetWantedHeight(n, nodes[i], ps[i], available)
      along(i) == offset + Sum(SubSeq(widths, 1, i - 1)) + (i - 1) * CalculateSpacing(n)
  IN  [i \in DOMAIN nodes |->
         [node |-> nodes[i],
          pos |-> [c \in Axes |-> IF c = a THEN along(i) ELSE Position(n, nodes[i], available, height(i))],
          size |-> [c \in Axes |-> IF c = a THEN widths[i] ELSE height(i)]]]

(* A box before its children are set into their rectangles, with these, none if its layout is valid *)
Arrange(l, n, nodes, ps, spare) ==
  [l |-> [l EXCEPT ![n].invalid = FALSE],
   rects |-> Rects(n, nodes, ps, Widths(l, n, nodes, ps, spare), Offset(l, n, nodes, ps, spare),
                   LayoutSize(l, n, Cross(box[n].axis)))]
ValidateLayout(l, n) ==
  LET nodes == InOrder(n)
      arrange(measured) == Arrange(measured.l, n, nodes, measured.ps, Spare(l, n, nodes, measured.ps))
  IN  IF ~l[n].invalid THEN [l |-> l, rects |-> <<>>]
      ELSE arrange(MeasureAll(l, nodes, Inside(n, l[n].size), GetPreferredSize))

(* The end of ValidateLayout: what sticks out can be scrolled. *)
Overflow(l, n, rects) ==
  LET used == Sum([i \in DOMAIN rects |-> rects[i].size[box[n].axis]]) + Gaps(n, rects)
  IN  [l EXCEPT ![n] = set_overflow_scroll([@ EXCEPT !.overflow = Most(0, used - LayoutSize(l, n, box[n].axis))], @.scroll)]

InvalidateTarget(l, n) == [l EXCEPT ![n].valid = FALSE, ![n].invalid = n \in Box]

(* set_rect: a box that is resized is laid out again at once, and sets its
   children, `set` on [node, pos, size], into their rectangles. *)
SetLeafRect(l, set) == [l EXCEPT ![set.node].pos = set.pos, ![set.node].size = set.size]
ResizedBox(l, set) == InvalidateTarget(SetLeafRect(l, set), set.node)

ValidateInner(l) ==
  LET begun == ValidateLayout(l, Inner)
  IN  IF l[Inner].invalid THEN Overflow(S!FoldLeft(SetLeafRect, begun.l, begun.rects), Inner, begun.rects) ELSE l
SetInnerRect(l, set) ==
  IF set.node \in Leaf \/ l[set.node].size = set.size THEN SetLeafRect(l, set) ELSE ValidateInner(ResizedBox(l, set))

ValidateOuter(l) ==
  LET begun == ValidateLayout(l, Outer)
  IN  IF l[Outer].invalid
      THEN [Overflow(S!FoldLeft(SetInnerRect, begun.l, begun.rects), Outer, begun.rects) EXCEPT ![Inner].untold = FALSE]
      ELSE l
SetOuterRect(l, set) == IF l[Outer].size = set.size THEN SetLeafRect(l, set) ELSE ValidateOuter(ResizedBox(l, set))

(* InvokeProcess: the outer box first *)
Processed(l) == ValidateInner(ValidateOuter(l))

-----------------------------------------------------------------------------
(* What is invalidated by changes *)

Parent(n) == CHOOSE p \in Box : n \in S!ToSet(Children[p])

(* InvalidateLayout, recursive: an element that is gone tells no parent. *)
InvalidateLayout(l, n) ==
  LET up(k, m) == IF m # Outer /\ el[m].shown THEN InvalidateTarget(k, Parent(m)) ELSE k
      one == up(InvalidateTarget(l, n), n)
  IN  IF n # Outer /\ el[n].shown THEN up(one, Parent(n)) ELSE one

SetContent(n, content) ==
  /\ el' = [el EXCEPT ![n].content = content] /\ el' # el
  /\ lay' = InvalidateLayout(lay, n) /\ UNCHANGED <<window, box>>

SetGravity(n, gravity) ==
  /\ el' = [el EXCEPT ![n].gravity = gravity] /\ el' # el
  /\ lay' = InvalidateLayout(lay, n) /\ UNCHANGED <<window, box>>

SetLayoutParams(n, params) ==
  /\ el' = [el EXCEPT ![n].params = params]
  /\ lay' = InvalidateLayout(lay, n) /\ UNCHANGED <<window, box>>

(* Mutant: only when the element goes *)
ShowTarget(n) == lay' = InvalidateTarget(lay, n)

(* While it is gone the element has no parent to invalidate. *)
Show(n) == lay' = IF n = Outer THEN InvalidateTarget(lay, n)
                  ELSE InvalidateTarget(InvalidateLayout(lay, Parent(n)), n)
Hide(n) == lay' = InvalidateLayout(lay, n)

set_visibility(n) ==
  /\ el' = [el EXCEPT ![n].shown = ~@] /\ (IF el[n].shown THEN Hide(n) ELSE Show(n))
  /\ UNCHANGED <<window, box>>

Set(n, change) == box' = [box EXCEPT ![n][change[1]] = change[2]] /\ box' # box /\ UNCHANGED <<window, el>>

(* set_axis and set_spacing are told to the parents. *)
SetAxis(n, change) == change[1] \in {"axis", "spacing"} /\ Set(n, change) /\ lay' = InvalidateLayout(lay, n)

(* set_layout_size, set_layout_position, set_layout_overflow, set_layout_distribution,
   set_layout_distribution_position and set_layout_order are not, although the first
   changes what the box prefers. *)
SetLayout(n, change) ==
  /\ change[1] \notin {"axis", "spacing"} /\ Set(n, change)
  /\ lay' = [InvalidateTarget(lay, n) EXCEPT ![n].untold = @ \/ (n = Inner /\ change[1] = "size")]

(* Element::OnResized of the window's root *)
Gravitate(l, d) ==
  SetOuterRect(l, [node |-> Outer,
    pos |-> [a \in Axes |-> l[Outer].pos[a] + (IF End(a) \in el[Outer].gravity /\ ~Stretches(Outer, a) THEN d[a] ELSE 0)],
    size |-> [a \in Axes |-> l[Outer].size[a] + (IF Stretches(Outer, a) THEN d[a] ELSE 0)]])

Resize(size) ==
  /\ window' = size /\ size # window
  /\ lay' = IF el[Outer].shown THEN Gravitate(lay, [a \in Axes |-> size[a] - window[a]]) ELSE lay
  /\ UNCHANGED <<el, box>>

InvokeProcess ==
  /\ \E n \in Box : lay[n].invalid
  /\ lay' = Processed(lay) /\ UNCHANGED <<window, el, box>>

ScrollTo(n, to) ==
  /\ lay[n].overflow > 0 /\ lay' = [lay EXCEPT ![n] = set_overflow_scroll(@, to)]
  /\ UNCHANGED <<window, el, box>>

-----------------------------------------------------------------------------
Unknown == [x |-> 0, y |-> 0]
Blank(n, size) ==
  [valid |-> FALSE, ps |-> [min |-> Unknown, pref |-> Unknown, max |-> Unknown, dep |-> {}], sc |-> Unknown,
   pos |-> Unknown, size |-> size, invalid |-> n \in Box, overflow |-> 0, scroll |-> 0,
   untold |-> FALSE]

(* OnInflateChild gives the outer box, that stretches, all of the window. *)
Init ==
  /\ window \in Windows
  /\ \E settings \in Settings, gravity \in Gravities :
       /\ el = [n \in Node |-> [content |-> IF n \in Leaf THEN Measures[n] ELSE CHOOSE c \in Contents : TRUE,
                                gravity |-> IF n \in Leaf THEN gravity ELSE {"left", "right", "top", "bottom"},
                                shown |-> TRUE, params |-> [min |-> -1, pref |-> -1, max |-> -1]]]
       /\ box = [n \in Box |-> settings]
  /\ lay = [n \in Node |-> Blank(n, IF n = Outer THEN window ELSE Unknown)]

Change ==
  \/ \E n \in Leaf, content \in Contents : SetContent(n, content)
  \/ \E n \in Leaf \cup {Outer}, gravity \in Gravities : SetGravity(n, gravity)
  \/ \E n \in Leaf \cup {Inner}, params \in Params : SetLayoutParams(n, params)
  \/ \E n \in Node : set_visibility(n)
  \/ \E n \in Box, change \in Changes : SetAxis(n, change) \/ SetLayout(n, change)
  \/ \E size \in Windows : Resize(size)
  \/ \E n \in Box, to \in 0 .. 1 : ScrollTo(n, to)

Next == Change \/ InvokeProcess

Spec == Init /\ [][Next]_vars

-----------------------------------------------------------------------------
Valid == \A n \in Box : ~lay[n].invalid
Fresh == Processed([n \in Node |-> [lay[n] EXCEPT !.valid = FALSE, !.invalid = n \in Box]])

FreshInside == ValidateInner([n \in Node |-> [lay[n] EXCEPT !.valid = FALSE, !.invalid = n \in Box]])
Placed(n, l) == lay[n].pos = l[n].pos /\ lay[n].size = l[n].size

(* After a process every element that shows is where a layout from nothing would
   put it: no cache is used that a change should have invalidated, however many
   changes, resizes and processes came before (element.cc GetPreferredSize,
   InvalidateLayout, set_visibility; layout_box.cc set_axis, OnResized).  A box whose
   layout_size was set is where it was until the box it is in is laid out for another
   reason (the finding SizeTold); its own children are where they should be in it. *)
LayoutFresh ==
  Valid /\ el[Outer].shown =>
    \A n \in Node \ {Outer} :
      el[n].shown /\ el[Parent(n)].shown =>
        IF lay[Inner].untold THEN Parent(n) = Inner => Placed(n, FreshInside) ELSE Placed(n, Fresh)

(* layout_box.h:87 says of the elements laid out that "Each elements size depend on its preferred
   size (See Element::GetPreferredSize), gravity, and the specified layout settings (See
   set_layout_size": also that of a box in a box, which set_layout_size does not tell. *)
SizeTold ==
  Valid /\ el[Outer].shown =>
    \A n \in Node \ {Outer} : el[n].shown /\ el[Parent(n)].shown => Placed(n, Fresh)

(* What a laid out box has missing is taken from its children exactly, unless
   all are at their minimum, and only then it overflows (layout_box.cc
   ValidateLayout). *)
SpaceShared ==
  \A n \in Box : ~lay[n].invalid /\ el[n].shown /\ (n = Inner => el[Outer].shown) =>
    LET a == box[n].axis
        nodes == InOrder(n)
        used == Sum([i \in DOMAIN nodes |-> lay[nodes[i]].size[a]]) + Gaps(n, nodes)
        room == LayoutSize(lay, n, a)
    IN  /\ \A i \in DOMAIN nodes : lay[nodes[i]].size[a] >= lay[nodes[i]].ps.min[a]
        /\ lay[n].overflow > 0 => \A i \in DOMAIN nodes : lay[nodes[i]].size[a] = lay[nodes[i]].ps.min[a]
        /\ used < room => \A i \in DOMAIN nodes : lay[nodes[i]].size[a] >= lay[nodes[i]].ps.pref[a]

(* A box whose children go to the far end, and that does not overflow, has its
   last child end where the box does: the prediction of the space they will use
   is what the shares add up to (layout_box.cc ValidateLayout). *)
EndsAtEdge ==
  \A n \in Box : ~lay[n].invalid /\ box[n].distpos = "right-bottom" /\ lay[n].overflow = 0 =>
    LET a == box[n].axis
        nodes == InOrder(n)
    IN  nodes # <<>> => LET k == S!Last(nodes)
                        IN  lay[k].pos[a] + lay[k].size[a] = lay[n].size[a] - Skins[n].padding

(* layout_box.h:23 says of the sizes across the axis: "No matter what, it will
   still prioritize minimum and maximum for each element." *)
MinimumKept ==
  \A n \in Box : ~lay[n].invalid /\ el[n].shown =>
    \A i \in DOMAIN InOrder(n) : LET k == InOrder(n)[i]
                                     b == Cross(box[n].axis)
                                 IN  lay[k].size[b] >= lay[k].ps.min[b]
=============================================================================
