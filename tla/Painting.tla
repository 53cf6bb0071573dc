------------------------------ MODULE Painting ------------------------------
(***************************************************************************)
(* The picture of a tree of elements (src/el/element.cc, skin.cc,          *)
(* graphics/renderer.cc, and the boxes that clip their children:           *)
(* elements/layout_box.cc, elements/scroll_container.cc): what an element  *)
(* paints, where, and over what; what is under a point of it; and which    *)
(* changes have it painted again.                                          *)
(***************************************************************************)
EXTENDS Integers, Sequences, SequencesExt

CONSTANTS Element, Root, None,
          Box,            \* the elements that scroll what is in them: layout boxes, roots of scroll containers
          Fluff,          \* 100: the room left to skins that expand
          Skins,          \* [id -> [opacity: percent; ofs: of the content; fill; kind; size; expand;
                          \*  override, child, overlay: sequences of [state: flags, or {"all"}; when:
                          \*  conditions on states of it or its parent, [target, state, equal]; id]]]
          FocusSkin, FadeSize,             \* "generic_focus", and the size of "Layout.fadeout_*"
          DisabledOpacity,                 \* percent
          Places, Opacities, Backgrounds,  \* what elements are given
          Points                           \* of the root, that are looked at

(* Assumed of the constants where they get their values *)
PaintingAssumption ==
  /\ Root \in Element /\ Box \subseteq Element \ {Root} /\ None \notin Element
  /\ FocusSkin \in DOMAIN Skins /\ FadeSize \in Nat /\ Fluff \in Nat
  /\ Opacities \subseteq 0 .. 100 /\ Backgrounds \subseteq DOMAIN Skins \cup {"none"}

VARIABLES ui,       \* [el: the fields of each element, kids: its children from bottom to top, focus,
                    \*  show_focus_state]
          screen    \* [quads: of the last frame, dirty: the root was told that it is invalid]

vars == <<ui, screen>>

Rect(x, y, w, h) == [x |-> x, y |-> y, w |-> w, h |-> h]
Least(i, j) == IF i < j THEN i ELSE j
Most(i, j) == IF i > j THEN i ELSE j
Empty(r) == r.w <= 0 \/ r.h <= 0
Holds(r, x, y) == x >= r.x /\ y >= r.y /\ x < r.x + r.w /\ y < r.y + r.h
Offset(r, x, y) == [r EXCEPT !.x = @ + x, !.y = @ + y]
Expand(r, left, top, right, bottom) == Rect(r.x - left, r.y - top, r.w + left + right, r.h + top + bottom)
Intersects(r, s) ==
  ~Empty(r) /\ ~Empty(s) /\ r.x + r.w > s.x /\ r.x < s.x + s.w /\ r.y + r.h > s.y /\ r.y < s.y + s.h
Clip(r, s) ==
  IF ~Intersects(r, s) THEN Rect(0, 0, 0, 0)
  ELSE LET x == Most(r.x, s.x)
           y == Most(r.y, s.y)
       IN  Rect(x, y, Least(r.x + r.w, s.x + s.w) - x, Least(r.y + r.h, s.y + s.h) - y)

Parents(u, e) == {p \in Element : \E i \in DOMAIN u.kids[p] : u.kids[p][i] = e}
RECURSIVE Up(_, _)
(* An element and all it is in *)
Up(u, e) == {e} \cup UNION {Up(u, p) : p \in Parents(u, e)}
Shown(u, e) == Root \in Up(u, e)

-----------------------------------------------------------------------------
(* The renderer: [x, y: its translation; clip: in the root; opacity: of 255; painting: the skins with
   is_painting; quads; sound: an assertion held] *)

BeginPaint(u) ==
  [x |-> 0, y |-> 0, clip |-> Rect(0, 0, u.el[Root].rect.w, u.el[Root].rect.h), opacity |-> 255, painting |-> {},
   quads |-> <<>>, sound |-> TRUE]
Translate(p, dx, dy) == [p EXCEPT !.x = @ + dx, !.y = @ + dy]
clip_rect(p) == Offset(p.clip, -p.x, -p.y)

set_clip_rect(p, rect, add) ==
  LET moved == Offset(rect, p.x, p.y) IN [p EXCEPT !.clip = IF add THEN Clip(moved, p.clip) ELSE moved]

Draw(p, e, what, rect) ==
  LET seen == Clip(Offset(rect, p.x, p.y), p.clip)
  IN  IF Empty(seen) THEN p
      ELSE [p EXCEPT !.quads = Append(@, [of |-> e, what |-> what, rect |-> seen, opacity |-> p.opacity])]

-----------------------------------------------------------------------------
(* Skins *)

PaintElementImage(r, skin) ==
  Rect(r.x + (r.w - skin.size.w) \div 2, r.y + (r.h - skin.size.h) \div 2, skin.size.w, skin.size.h)

PaintElement(p, e, rect, id) ==
  LET skin == Skins[id]
      large == Expand(rect, skin.expand, skin.expand, skin.expand, skin.expand)
      filled == IF skin.fill THEN Draw(p, e, id, rect) ELSE p
  IN  CASE skin.kind = "none" -> filled
        [] skin.kind = "image" -> Draw(filled, e, id, PaintElementImage(large, skin))
        [] skin.kind = "tile" -> Draw(filled, e, id, large)
        [] skin.kind = "stretch" -> IF Empty(rect) THEN filled ELSE Draw(filled, e, id, large)

(* computed_state, of the states that this module has *)
State(u, e) ==
  (IF u.el[e].disabled THEN {"disabled"} ELSE {}) \cup (IF u.focus = e /\ u.show_focus_state THEN {"focused"} ELSE {})

(* Conditions ask the state of the element that is painted, c.e, or of its parent; c.of, for whom it is
   painted, is None for the mark of the focus. *)
Met(c, condition) ==
  (\E t \in IF condition.target = "this" THEN {c.e} ELSE Parents(c.u, c.e) : condition.state \in State(c.u, t)) = condition.equal
IsMatch(c, entry, state) ==
  ("all" \in entry.state \/ entry.state \cap state # {}) /\ \A condition \in entry.when : Met(c, condition)
IsExactMatch(c, entry, state) ==
  ("all" \in entry.state \/ entry.state = state) /\ \A condition \in entry.when : Met(c, condition)
(* An entry for exactly this state, or else the first that matches; <<>> if there is none *)
GetStateElement(c, list, state) ==
  SelectSeq(list, LAMBDA entry : IsExactMatch(c, entry, state)) \o SelectSeq(list, LAMBDA entry : IsMatch(c, entry, state))
Narrowed(entry, state) == IF "all" \in entry.state THEN state ELSE entry.state \cap state

RECURSIVE PaintSkin(_, _, _, _, _)
(* One after the other those that match *)
PaintAll(p, c, rect, entries, state) ==
  FoldLeft(LAMBDA q, entry : IF IsMatch(c, entry, state) THEN PaintSkin(q, c, rect, entry.id, Narrowed(entry, state)).p ELSE q,
           p, entries)
Begun(p, id) == [p EXCEPT !.painting = @ \cup {id}]
Done(p, id) == [p EXCEPT !.painting = @ \ {id}]
PaintOverride(p, c, rect, overrides, state) ==
  IF overrides = <<>> THEN [p |-> p, used |-> "none"] ELSE PaintSkin(p, c, rect, overrides[1].id, state)
(* What follows the override, or falls back from it *)
PaintRest(override, c, rect, id, state) ==
  [p |-> Done(PaintAll(IF override.used = "none" THEN PaintElement(override.p, c.of, rect, id) ELSE override.p,
                       c, rect, Skins[id].child, state), id),
   used |-> IF override.used = "none" THEN id ELSE override.used]
(* [p, used: the skin that was painted, its override, or none] *)
PaintSkin(p, c, rect, id, state) ==
  IF id \notin DOMAIN Skins \ p.painting THEN [p |-> p, used |-> "none"]
  ELSE PaintRest(PaintOverride(Begun(p, id), c, rect, GetStateElement(c, Skins[id].override, state), state), c, rect, id, state)

PaintSkinOverlay(p, c, rect, id, state) ==
  IF id \in p.painting THEN p ELSE Done(PaintAll(Begun(p, id), c, rect, Skins[id].overlay, state), id)

-----------------------------------------------------------------------------
(* Elements *)

Context(u, e) == [u |-> u, e |-> e, of |-> e]
SkinOpacity(id) == IF id = "none" THEN 100 ELSE Skins[id].opacity

(* CalculateOpacityInternal, times what it is painted in: of 255, or -1 for none at all *)
Opacity(p, u, e) ==
  LET el == u.el[e]
      parts == p.opacity * el.opacity * SkinOpacity(el.skin) * (IF el.disabled THEN DisabledOpacity ELSE 100)
  IN  IF parts = 0 THEN -1 ELSE parts \div 1000000

padding_rect(u, e) ==
  LET el == u.el[e] IN Expand(Rect(0, 0, el.rect.w, el.rect.h), -el.padding, -el.padding, -el.padding, -el.padding)
GetChildTranslation(u, e) == IF e \in Box THEN -u.el[e].scroll ELSE 0

Overlaid(u, child) == child.visibility = "visible" /\ child.skin # "none"

Faded(p, opacity) == [p EXCEPT !.opacity = opacity]
PaintOverlay(p, u, e, child, opacity) ==
  IF Intersects(clip_rect(p), child.rect) /\ Overlaid(u, child) /\ opacity >= 0
  THEN Faded(PaintSkinOverlay(Faded(p, opacity), Context(u, e), child.rect, child.skin, State(u, e)), p.opacity) ELSE p
PaintOverlays(p, u, e) == FoldLeft(LAMBDA q, child : PaintOverlay(q, u, child, u.el[child], Opacity(q, u, child)), p, u.kids[e])

(* SkinElement::has_state: an entry of any of the three lists for the focus, not for all states *)
HasFocusedSkin(u, e, skin) ==
  \E list \in {skin.override, skin.child, skin.overlay} : \E i \in DOMAIN list :
    "all" \notin list[i].state /\ IsMatch(Context(u, e), list[i], {"focused"})
PaintFocusOf(p, u, e) ==
  IF "focused" \in State(u, e) /\ (u.el[e].skin # "none" => ~HasFocusedSkin(u, e, Skins[u.el[e].skin]))
  THEN PaintSkin(p, [Context(u, e) EXCEPT !.of = None], u.el[e].rect, FocusSkin, State(u, e)).p ELSE p
PaintFocus(p, u, e) == IF u.focus # None /\ e \in Parents(u, u.focus) THEN PaintFocusOf(p, u, u.focus) ELSE p

RECURSIVE InvokePaint(_, _, _)
PaintKids(p, u, e, clip) ==
  FoldLeft(LAMBDA q, child : IF Intersects(clip, u.el[child].rect) THEN InvokePaint(q, u, child) ELSE q, p, u.kids[e])
(* p is translated already. *)
PaintIn(p, u, e) == PaintFocus(PaintOverlays(PaintKids(p, u, e, clip_rect(p)), u, e), u, e)
PaintChildren(p, u, e, dy) == IF u.kids[e] = <<>> THEN p ELSE Translate(PaintIn(Translate(p, 0, dy), u, e), 0, -dy)

(* Skin::DrawEdgeFadeout, of one axis *)
DrawAbove(p, e, r, el) == IF el.scroll > 0 THEN Draw(p, e, "fadeout", [r EXCEPT !.h = FadeSize]) ELSE p
DrawEdgeFadeout(p, e, r, el) ==
  IF el.overflow > el.scroll THEN Draw(DrawAbove(p, e, r, el), e, "fadeout", [r EXCEPT !.y = @ + r.h - FadeSize, !.h = FadeSize])
  ELSE DrawAbove(p, e, r, el)

(* OnPaintChildren of boxes: clipped only where it overflows *)
Clipped(p, r, el) ==
  set_clip_rect(p, Expand(r, Fluff, IF el.scroll = 0 THEN Fluff ELSE 0, Fluff, IF el.scroll = el.overflow THEN Fluff ELSE 0), TRUE)
Unclipped(p, before, clips) == IF clips THEN set_clip_rect(p, clip_rect(before), FALSE) ELSE p
OnPaintChildrenOf(p, u, e, r, clips) ==
  LET painted == PaintChildren(IF clips THEN Clipped(p, r, u.el[e]) ELSE p, u, e, GetChildTranslation(u, e))
  IN  IF e \in Box /\ Empty(r) THEN p
      ELSE Unclipped(IF clips THEN DrawEdgeFadeout(painted, e, r, u.el[e]) ELSE painted, p, clips)
OnPaintChildren(p, u, e) == OnPaintChildrenOf(p, u, e, padding_rect(u, e), e \in Box /\ u.el[e].overflow > 0)

(* The content and the children of an element, after its skin *)
PaintContent(skin, u, e, local, ofs) ==
  [Translate(OnPaintChildren(Translate(Draw(skin.p, e, "content", local), 0, ofs), u, e), 0, -ofs)
     EXCEPT !.sound = @ /\ (skin.used # "none" <=> u.el[e].skin # "none")]
PaintElementOf(p, u, e, local) ==
  LET skin == PaintSkin(p, Context(u, e), local, u.el[e].skin, State(u, e))
  IN  PaintContent(skin, u, e, local, IF skin.used = "none" THEN 0 ELSE Skins[skin.used].ofs)
InvokePaintOf(p, u, e, el, opacity) ==
  IF el.opacity = 0 \/ Empty(el.rect) \/ el.visibility # "visible" \/ opacity < 0 THEN p
  ELSE Faded(Translate(PaintElementOf(Translate(Faded(p, opacity), el.rect.x, el.rect.y), u, e,
                                      Rect(0, 0, el.rect.w, el.rect.h)), -el.rect.x, -el.rect.y), p.opacity)
InvokePaint(p, u, e) == InvokePaintOf(p, u, e, u.el[e], Opacity(p, u, e))

Frame(u) == InvokePaint(BeginPaint(u), u, Root)

-----------------------------------------------------------------------------
(* What is under a point *)

is_interactable(u, e) ==
  LET el == u.el[e] IN ~(el.opacity = 0 \/ el.ignoring \/ el.disabled \/ el.visibility # "visible")
GetHitStatus(u, e, x, y) ==
  is_interactable(u, e) /\ x >= 0 /\ y >= 0 /\ x < u.el[e].rect.w /\ y < u.el[e].rect.h

RECURSIVE GetElementAt(_, _, _, _)
GetElementAt(u, e, x, y) ==
  LET down == y - GetChildTranslation(u, e)
      hit == SelectSeq(u.kids[e], LAMBDA c : GetHitStatus(u, c, x - u.el[c].rect.x, down - u.el[c].rect.y))
      last == Last(hit)
      inside == GetElementAt(u, last, x - u.el[last].rect.x, down - u.el[last].rect.y)
  IN  IF hit = <<>> THEN None ELSE IF inside = None THEN last ELSE inside

-----------------------------------------------------------------------------
(* Changes.  Invalidate reaches the root unless nothing of the element shows. *)

computed_visibility(u, e) == \A p \in Up(u, e) : u.el[p].opacity # 0 /\ u.el[p].visibility = "visible"
Invalidates(u, e) == Shown(u, e) /\ (computed_visibility(u, e) \/ Empty(u.el[e].rect))

Changed(u, invalid) == ui' = u /\ screen' = [screen EXCEPT !.dirty = @ \/ invalid]

SetRect(e, rect) ==
  LET u == [ui EXCEPT !.el[e].rect = rect]
  IN  rect # ui.el[e].rect /\ Changed(u, Invalidates(u, e))

(* Mutant: it is told only afterwards *)
SetOpacityAfter(e, opacity) ==
  LET u == [ui EXCEPT !.el[e].opacity = opacity]
  IN  opacity # ui.el[e].opacity /\ Changed(u, Invalidates(u, e))

SetOpacity(e, opacity) ==
  LET u == [ui EXCEPT !.el[e].opacity = opacity]
  IN  opacity # ui.el[e].opacity /\ Changed(u, (opacity = 0 /\ Invalidates(ui, e)) \/ Invalidates(u, e))

SetVisibility(e, visibility) ==
  LET u == [ui EXCEPT !.el[e].visibility = visibility]
  IN  /\ visibility # ui.el[e].visibility
      /\ Changed(u, (visibility # "visible" /\ Invalidates(ui, e)) \/ Invalidates(u, e))

SetDisabled(e) == LET u == [ui EXCEPT !.el[e].disabled = ~@] IN Changed(u, Invalidates(u, e))
SetIgnoringInput(e) == Changed([ui EXCEPT !.el[e].ignoring = ~@], FALSE)
SetBackgroundSkin(e, id) ==
  LET u == [ui EXCEPT !.el[e].skin = id] IN id # ui.el[e].skin /\ Changed(u, Invalidates(u, e))

(* The one that had it is told, and the one that gets it. *)
SetFocus(e) ==
  LET u == [ui EXCEPT !.focus = e]
  IN  /\ e # ui.focus /\ ~ui.el[e].disabled /\ computed_visibility(ui, e) /\ Shown(ui, e)
      /\ Changed(u, \E f \in {e, ui.focus} \ {None} : Invalidates(u, f))

(* Only the focused element is told. *)
set_auto_focus_state(on) ==
  LET u == [ui EXCEPT !.show_focus_state = on]
  IN  on # ui.show_focus_state /\ Changed(u, ui.focus # None /\ Invalidates(u, ui.focus))

ScrollTo(e, y) ==
  LET u == [ui EXCEPT !.el[e].scroll = Most(Least(y, ui.el[e].overflow), 0)]
  IN  u # ui /\ Changed(u, Invalidates(u, e))

(* The content of a box changes its size; the scrolled way is kept within. *)
SetOverflow(e, overflow) ==
  LET u == [ui EXCEPT !.el[e].overflow = overflow, !.el[e].scroll = Least(@, overflow)]
  IN  overflow # ui.el[e].overflow /\ Changed(u, Invalidates(u, e))

(* set_z: taken out and put back, of which the parent tells *)
SetZ(e, top) ==
  \E p \in Parents(ui, e) :
    LET rest == SelectSeq(ui.kids[p], LAMBDA c : c # e)
        u == [ui EXCEPT !.kids[p] = IF top THEN Append(rest, e) ELSE <<e>> \o rest]
    IN  u # ui /\ Changed(u, Invalidates(u, p))

RemoveChild(e) ==
  \E p \in Parents(ui, e) :
    LET u == [ui EXCEPT !.kids[p] = SelectSeq(@, LAMBDA c : c # e)] IN Changed(u, Invalidates(u, p))
AddChild(e, p) ==
  LET u == [ui EXCEPT !.kids[p] = Append(@, e)]
  IN  Parents(ui, e) = {} /\ e \notin Up(ui, p) /\ Changed(u, Invalidates(u, p))

Repaint == screen' = [quads |-> Frame(ui).quads, dirty |-> FALSE] /\ UNCHANGED ui

(* `Children` and `Fields` are how the tree begins; the focus may be shown since it was somewhere else. *)
InitFrom(Children, Fields) ==
  /\ \E shown \in BOOLEAN : ui = [el |-> Fields, kids |-> Children, focus |-> None, show_focus_state |-> shown]
  /\ screen = [quads |-> Frame(ui).quads, dirty |-> FALSE]

Change ==
  \/ \E e \in Element \ {Root} :
       \/ \E r \in Places : SetRect(e, r)
       \/ \E visibility \in {"visible", "invisible", "gone"} : SetVisibility(e, visibility)
       \/ SetDisabled(e) \/ SetIgnoringInput(e)
       \/ SetFocus(e)
       \/ \E top \in BOOLEAN : SetZ(e, top)
       \/ RemoveChild(e) \/ \E p \in Element : AddChild(e, p)
  \/ \E e \in Element : \/ \E opacity \in Opacities : SetOpacity(e, opacity)
                        \/ \E id \in Backgrounds : SetBackgroundSkin(e, id)
  \/ \E on \in BOOLEAN : set_auto_focus_state(on)
  \/ \E e \in Box, y \in 0 .. 2 : ScrollTo(e, y) \/ SetOverflow(e, y)

-----------------------------------------------------------------------------
(* Properties *)

(* The generic mark of the focus is of None; it stays when its element is
   hidden, and then follows nothing. *)
Marked == ui.focus # None => computed_visibility(ui, ui.focus)
Seen(quads) == IF Marked THEN quads ELSE SelectSeq(quads, LAMBDA q : q.of # None)

(* While the root has not been told that it is invalid, painting would show
   what is on the screen: every change that can be seen is announced, also
   that of an element that is no longer seen after it (Invalidate). *)
FrameFresh == ~screen.dirty => Seen(Frame(ui).quads) = Seen(screen.quads)

(* A frame leaves the renderer as it found it, whichever skins refer to each
   other, and paints nothing of what does not show, other than the generic
   mark of the focus (OnPaintChildren, PaintSkin). *)
FrameClean ==
  LET p == Frame(ui)
  IN  /\ [p EXCEPT !.quads = <<>>] = BeginPaint(ui)
      /\ \A i \in DOMAIN p.quads : p.quads[i].of = None \/ computed_visibility(ui, p.quads[i].of)

(* The rectangles of an element and of what it is in are all under the point. *)
RECURSIVE Origin(_, _)
Origin(u, e) ==
  IF e = Root THEN [x |-> 0, y |-> 0]
  ELSE LET p == CHOOSE p \in Parents(u, e) : TRUE
           o == Origin(u, p)
       IN  [x |-> o.x + u.el[e].rect.x, y |-> o.y + u.el[e].rect.y + GetChildTranslation(u, p)]
Under(u, e, x, y) == \A p \in Up(u, e) : Holds(Offset(u.el[p].rect, Origin(u, p).x - u.el[p].rect.x, Origin(u, p).y - u.el[p].rect.y), x, y)

(* An offset of the content moves what is painted only, the padding of a box
   that overflows is not painted on by its children, and a skin may have no
   opacity: none of these are known to the hit test. *)
Differs(u, e, x, y) ==
  \E p \in Up(u, e) :
    \/ SkinOpacity(u.el[p].skin) = 0
    \/ p # e /\ u.el[p].skin # "none" /\ PaintSkin(BeginPaint(u), Context(u, p), u.el[p].rect, u.el[p].skin, State(u, p)).used
                                            \in {id \in DOMAIN Skins : Skins[id].ofs # 0}
    \/ /\ p \in Box \ {e}
       /\ \/ Empty(padding_rect(u, p))
          \/ u.el[p].overflow > 0 /\ ~Holds(padding_rect(u, p), x - Origin(u, p).x, y - Origin(u, p).y)

(* What is hit at a point is painted there, and over it nothing that could be
   hit, and is itself within all that it is in (GetElementAt, GetHitStatus). *)
Excused(u, e, x, y) ==
  e = Root \/ ~Under(u, e, x, y) \/ (\E p \in Up(u, e) : ~is_interactable(u, p)) \/ Differs(u, e, x, y)
HitAgrees(u, e, covering, x, y) ==
  IF e = None THEN \A i \in DOMAIN covering : Excused(u, covering[i].of, x, y)
  ELSE ~Differs(u, e, x, y) =>
         \E i \in DOMAIN covering : /\ covering[i].of = e
                                   /\ \A j \in i + 1 .. Len(covering) : Excused(u, covering[j].of, x, y)
HitIsPainted ==
  LET quads == SelectSeq(Frame(ui).quads, LAMBDA q : q.what = "content")
  IN  is_interactable(ui, Root) =>
        \A at \in Points :
          HitAgrees(ui, GetElementAt(ui, Root, at[1], at[2]), SelectSeq(quads, LAMBDA q : Holds(q.rect, at[1], at[2])), at[1], at[2])
PictureAgrees == FrameFresh /\ FrameClean /\ HitIsPainted
=============================================================================
