------------------------------ MODULE Geometry ------------------------------
(***************************************************************************)
(* Calculations with rectangles: regions (src/el/util/rect_region.cc, with *)
(* src/el/rect.cc), the nine patches of a stretched skin                   *)
(* (Skin::PaintElementStretchBox in src/el/skin.cc) and the place of a     *)
(* pop-up (src/el/elements/popup_form.cc).                                 *)
(*                                                                         *)
(* They share nothing, and each has its own next-state relation.           *)
(***************************************************************************)
EXTENDS Integers, Sequences, FiniteSets
LOCAL S == INSTANCE SequencesExt

CONSTANTS Width, Height, \* of the area that regions are in
          Included,      \* rectangles that are put in a region
          Excluded,      \* and taken out of it
          Cuts,          \* cuts of skins
          Roots,         \* sizes of the root element
          Popups         \* preferred sizes of pop-ups

(* Assumed of the constants where they get their values *)
GeometryAssumption ==
  /\ Width \in Nat /\ Height \in Nat /\ Cuts \subseteq Nat
  /\ Included \cup Excluded \subseteq [x : Nat, y : Nat, w : Nat \ {0}, h : Nat \ {0}]

VARIABLES region, \* [rects; ghosts: points: the area of it, coalesced: rectangles were put together
                  \*  while something was excluded, beyond: an index past the end was used then]
          patched,    \* [rect, flipped: set of axes, cut, patches]
          popup   \* [align, root, target, rect]

vars == <<region, patched, popup>>

At(x, y, w, h) == [x |-> x, y |-> y, w |-> w, h |-> h]
Less(a, b) == IF a < b THEN a ELSE b
More(a, b) == IF a < b THEN b ELSE a

(* The pixels of a rectangle, also of one that is inside out *)
Points(r) ==
  {<<x, y>> \in (Less(r.x, r.x + r.w) .. More(r.x, r.x + r.w) - 1) \X (Less(r.y, r.y + r.h) .. More(r.y, r.y + r.h) - 1) : TRUE}

intersects(a, b) ==
  /\ a.w > 0 /\ a.h > 0 /\ b.w > 0 /\ b.h > 0
  /\ a.x + a.w > b.x /\ a.x < b.x + b.w /\ a.y + a.h > b.y /\ a.y < b.y + b.h

Spanning(left, top, right, bottom) == At(left, top, right - left, bottom - top)
Union(a, b) == Spanning(Less(a.x, b.x), Less(a.y, b.y), More(a.x + a.w, b.x + b.w), More(a.y + a.h, b.y + b.h))
Clip(a, b) == Spanning(More(a.x, b.x), More(a.y, b.y), Less(a.x + a.w, b.x + b.w), Less(a.y + a.h, b.y + b.h))

-----------------------------------------------------------------------------
(* RectRegion *)

RemoveRectFast(rects, i) ==
  LET last == Len(rects) IN SubSeq([rects EXCEPT ![i] = rects[last]], 1, last - 1)

Adjoin(a, b) ==
  \/ a.x = b.x /\ a.w = b.w /\ (a.y = b.y + b.h \/ a.y + a.h = b.y)
  \/ a.y = b.y /\ a.h = b.h /\ (a.x = b.x + b.w \/ a.x + a.w = b.x)

RECURSIVE AddRect(_, _, _)
AddRect(rects, rect, coalesce) ==
  LET near == {i \in DOMAIN rects : coalesce /\ Adjoin(rect, rects[i])}
      i == CHOOSE j \in near : \A k \in near : j >= k
  IN  IF near = {} THEN Append(rects, rect)
      ELSE AddRect(RemoveRectFast(rects, i), Union(rects[i], rect), TRUE)

(* Mutant: what is right of the removed part begins where that does *)
LeftOverWide(rect, exclude) ==
  LET r == Clip(exclude, rect)
  IN  << At(rect.x, rect.y, rect.w, r.y - rect.y), At(rect.x, r.y, r.x - rect.x, r.h),
         At(r.x, r.y, rect.x + rect.w - (r.x + r.w), r.h),
         At(rect.x, r.y + r.h, rect.w, rect.y + rect.h - (r.y + r.h)) >>

(* AddExcludingRects: above, left of, right of and below the removed part *)
LeftOver(rect, exclude) ==
  LET r == Clip(exclude, rect)
  IN  << At(rect.x, rect.y, rect.w, r.y - rect.y), At(rect.x, r.y, r.x - rect.x, r.h),
         At(r.x + r.w, r.y, rect.x + rect.w - (r.x + r.w), r.h),
         At(rect.x, r.y + r.h, rect.w, rect.y + rect.h - (r.y + r.h)) >>

Pieces(rect, exclude) == SelectSeq(LeftOver(rect, exclude), LAMBDA p : p.w > 0 /\ p.h > 0)

RECURSIVE IncludeRect(_, _)
IncludeRect(rects, rect) ==
  LET over == {i \in DOMAIN rects : intersects(rect, rects[i])}
      first == CHOOSE i \in over : \A j \in over : i <= j
  IN  IF over = {} THEN AddRect(rects, rect, TRUE)
      ELSE S!FoldLeft(IncludeRect, rects, Pieces(rect, rects[first]))

(* The rectangles from i on that were there at first are checked, `n` in all.  Those that are put
   together with a piece leave the list, and the last one takes their place. *)
RECURSIVE ExcludeRect(_, _, _, _)
ExcludeRect(g, i, n, exclude) ==
  IF i > n THEN g
  ELSE IF i > Len(g.rects) THEN [g EXCEPT !.beyond = TRUE]
  ELSE LET rect == g.rects[i]
           pieces == Pieces(rect, exclude)
           added == S!FoldLeft(LAMBDA rects, p : AddRect(rects, p, TRUE), S!RemoveAt(g.rects, i), pieces)
       IN  IF ~intersects(rect, exclude) THEN ExcludeRect(g, i + 1, n, exclude)
           ELSE ExcludeRect([g EXCEPT !.rects = added,
                                      !.coalesced = @ \/ Len(added) < Len(g.rects) - 1 + Len(pieces)],
                            i, n - 1, exclude)

Include(rect) ==
  /\ ~region.beyond
  /\ region' = [region EXCEPT !.rects = IncludeRect(@, rect), !.points = @ \cup Points(rect)]

Exclude(rect) ==
  /\ ~region.beyond
  /\ region' = [ExcludeRect(region, 1, Len(region.rects), rect) EXCEPT !.points = @ \ Points(rect)]

RegionNext == (\E r \in Included : Include(r)) \/ (\E r \in Excluded : Exclude(r))

-----------------------------------------------------------------------------
(* PaintElementStretchBox: four corners, the edges between them if there is room, the center *)

CutIn(cut, length) == Less(cut, length \div 2)

Patches(rect, flipped, cut) ==
  LET flipX == "x" \in flipped
      flipY == "y" \in flipped
      w == CutIn(cut, rect.w)
      h == CutIn(cut, rect.h)
      r == At(IF flipX THEN rect.x + rect.w ELSE rect.x, IF flipY THEN rect.y + rect.h ELSE rect.y,
              IF flipX THEN -rect.w ELSE rect.w, IF flipY THEN -rect.h ELSE rect.h)
      cw == IF flipX THEN -w ELSE w
      ch == IF flipY THEN -h ELSE h
      right == r.x + r.w - cw
      bottom == r.y + r.h - ch
      corners == <<At(r.x, r.y, cw, ch), At(right, r.y, cw, ch), At(r.x, bottom, cw, ch), At(right, bottom, cw, ch)>>
      sides == <<At(r.x, r.y + ch, cw, r.h - ch * 2), At(right, r.y + ch, cw, r.h - ch * 2)>>
      ends == <<At(r.x + cw, r.y, r.w - cw * 2, ch), At(r.x + cw, bottom, r.w - cw * 2, ch)>>
      center == <<At(r.x + cw, r.y + ch, r.w - cw * 2, r.h - ch * 2)>>
      tall == rect.h > h * 2
      wide == rect.w > w * 2
  IN  corners \o (IF tall THEN sides ELSE <<>>) \o (IF wide THEN ends ELSE <<>>)
              \o (IF tall /\ wide THEN center ELSE <<>>)

PaintStretchBox(rect, flipped, cut) ==
  patched' = [rect |-> rect, flipped |-> flipped, cut |-> cut, patches |-> Patches(rect, flipped, cut)]

BoxNext == \E w \in 1 .. Width, h \in 1 .. Height, flipped \in SUBSET {"x", "y"}, cut \in Cuts :
             PaintStretchBox(At(1, 2, w, h), flipped, cut)

-----------------------------------------------------------------------------
(* PopupAlignment::GetAlignedRect, relative to the target *)

Limited(align, pref, root, target) ==
  IF align \in {"top", "bottom"} THEN Less(Less(pref.h, root.h), root.h \div 2 - target.h)
                                 ELSE Less(pref.h, root.h)

GetAlignedRect(align, pref, root, target) ==
  LET fits == Less(pref.w, root.w)
      w == IF align \in {"top", "bottom"} THEN More(fits, target.w) ELSE fits
      h == Limited(align, pref, root, target)
  IN  CASE align = "bottom" ->
             At(target.x, IF target.y + target.h + h > root.h THEN target.y - h ELSE target.y + target.h, w, h)
        [] align = "top" -> At(target.x, IF target.y - h < 0 THEN target.y + target.h ELSE target.y - h, w, h)
        [] align = "right" ->
             At(IF target.x + target.w + w > root.w THEN target.x - w ELSE target.x + target.w,
                Less(target.y, root.h - h), w, h)
        [] align = "left" ->
             At(IF target.x - w < 0 THEN target.x + target.w ELSE target.x - w, Less(target.y, root.h - h), w, h)

Show(align, pref, root, target) ==
  popup' = [align |-> align, root |-> root, target |-> target, rect |-> GetAlignedRect(align, pref, root, target)]

PopupNext ==
  \E align \in {"left", "top", "right", "bottom"}, pref \in Popups, root \in Roots :
    \E x \in 0 .. root.w - 1, y \in 0 .. root.h - 1 :
      \E w \in 1 .. root.w - x, h \in 1 .. root.h - y : Show(align, pref, root, At(x, y, w, h))

-----------------------------------------------------------------------------
Init ==
  /\ region = [rects |-> <<>>, points |-> {}, coalesced |-> FALSE, beyond |-> FALSE]
  /\ patched = [rect |-> At(0, 0, 0, 0), flipped |-> {}, cut |-> 0, patches |-> <<>>]
  /\ popup = [align |-> "left", root |-> [w |-> 0, h |-> 0], target |-> At(0, 0, 0, 0), rect |-> At(0, 0, 0, 0)]

Next ==
  \/ RegionNext /\ UNCHANGED <<patched, popup>>
  \/ BoxNext /\ UNCHANGED <<region, popup>>
  \/ PopupNext /\ UNCHANGED <<region, patched>>

Spec == Init /\ [][Next]_vars

-----------------------------------------------------------------------------
(* Properties *)

Tile(rects, points) ==
  /\ UNION {Points(rects[i]) : i \in DOMAIN rects} = points
  /\ \A i, j \in DOMAIN rects : i # j => Points(rects[i]) \cap Points(rects[j]) = {}

(* Whatever was included and excluded, in any order and overlapping in any way, the rectangles of a
   region do not overlap and cover exactly what is in it, which is what the selected text is painted
   with: as long as no exclusion put rectangles together. *)
RegionExact == region.coalesced \/ Tile(region.rects, region.points)

(* And without that exception, as rect_region.h says *)
ExcludesAll == ~region.beyond /\ Tile(region.rects, region.points)

(* The patches of a skin cover the element, each pixel once, flipped or not, also where the corners
   have less room than they need or there is one pixel between them. *)
PatchesTile == Tile(patched.patches, Points(patched.rect))

(* A pop-up next to a target that takes less than half of the root does not cover it, and is in
   view from its top to its bottom. *)
PopupBeside ==
  popup.target.h <= popup.root.h \div 2 =>
    /\ Points(popup.rect) \cap Points(popup.target) = {}
    /\ popup.rect.y >= 0 /\ popup.rect.y + popup.rect.h <= popup.root.h
=============================================================================
