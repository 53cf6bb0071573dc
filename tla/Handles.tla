------------------------------ MODULE Handles -------------------------------
(***************************************************************************)
(* What is dragged by a part of it: a form by its title bar and its corner *)
(* (src/el/elements/form.cc, mover.cc, resizer.cc), sliders and scroll bars*)
(* by their handle (slider.cc, scroll_bar.cc).  The pointer's events come  *)
(* in coordinates of the part that is dragged, which moves with each.      *)
(*                                                                         *)
(* Values are whole numbers of 1 / Unit, so that a pixel is one, whatever  *)
(* the factor between them.                                                *)
(***************************************************************************)
EXTENDS Integers, Sequences

CONSTANTS Parents,      \* sizes of the form's parent
          Settings,     \* sets of FormSettings
          Preferred,    \* the preferred sizes of the form: [min, pref, max], each [w, h]
          TitleHeight, CornerSize, TitlePadding,   \* of the title bar and the resizer
          MinSize,      \* 50: a form is not dragged to less
          Grabs,        \* where in a part the pointer takes it: [x, y]
          Pointers,     \* where the pointer goes: [x, y]
          Unit, Bars,   \* settings of bars and sliders: [kind, axis, length, thickness, handle]
          Limits,       \* [min, max, visible], in units
          Amounts        \* in units

(* Assumed of the constants where they get their values *)
HandlesAssumption ==
  /\ TitleHeight \in Nat /\ CornerSize \in Nat /\ TitlePadding \in Nat /\ MinSize \in Nat
  /\ Grabs \cup Pointers \subseteq [x : Int, y : Int]
  /\ Settings \subseteq SUBSET {"title bar", "resizable", "close button", "design button", "full screen"}
  /\ Unit \in Nat \ {0} /\ Unit % 100 = 0
  /\ \A b \in Bars : /\ b.kind \in {"slider", "scroll bar"} /\ b.axis \in {"x", "y"}
                     /\ b.handle <= b.length /\ \A i \in 1 .. b.length : Unit % i = 0
  /\ \A l \in Limits : l.min % Unit = 0 /\ l.max % Unit = 0 /\ l.min <= l.max /\ l.visible >= 0

VARIABLES form,     \* [rect, settings, parent: its size; mover, resizer, design, close, label:
                    \*  the rects of its decoration; ghost: fitted: by the last call]
          bar,      \* [set: its settings, min, max, visible, value, pos, len: the handle]
          drag      \* the pointer: [what it has captured, down: pointer_down_element, at: where it is;
                    \*  ghost: led: nothing but the pointer has moved what it drags]

vars == <<form, bar, drag>>

Least(i, j) == IF i < j THEN i ELSE j
Most(i, j) == IF i > j THEN i ELSE j
Clamp(i, min, max) == IF i > max THEN max ELSE IF i < min THEN min ELSE i
At(x, y, w, h) == [x |-> x, y |-> y, w |-> w, h |-> h]
Point(x, y) == [x |-> x, y |-> y]

-----------------------------------------------------------------------------
(* The form and its decoration *)

title_bar_height(f) == IF "title bar" \in f.settings THEN TitleHeight ELSE 0

(* Form::OnResized *)
OnResized(f) ==
  LET bar_rect == At(TitlePadding, TitlePadding, f.rect.w - 2 * TitlePadding, title_bar_height(f) - 2 * TitlePadding)
      size == bar_rect.h
      right == bar_rect.x + bar_rect.w
      buttons == (IF "design button" \in f.settings THEN 1 ELSE 0) + (IF "close button" \in f.settings THEN 1 ELSE 0)
  IN  [f EXCEPT !.mover = At(0, 0, f.rect.w, title_bar_height(f)),
                !.resizer = At(f.rect.w - CornerSize, f.rect.h - CornerSize, CornerSize, CornerSize),
                !.design = At(right - 2 * size, bar_rect.y, size, size),
                !.close = At(right - size, bar_rect.y, size, size),
                !.label = [bar_rect EXCEPT !.w = @ - buttons * size]]

set_rect(f, rect) ==
  LET g == [f EXCEPT !.rect = rect, !.fitted = @ /\ rect = f.rect]
  IN  IF rect.w = f.rect.w /\ rect.h = f.rect.h THEN g ELSE OnResized(g)

FitToParent(f) == set_rect(f, At(0, 0, f.parent.w, f.parent.h))

(* The decoration keeps its place until the next resize. *)
set_settings(f, settings) ==
  LET g == [f EXCEPT !.settings = settings]
  IN  IF "full screen" \in settings THEN FitToParent(g) ELSE g

(* Of Rect *)
MoveIn(r, bounds) ==
  LET Into(i, room) == IF i > room THEN Most(room, 0) ELSE Most(i, 0)
  IN  At(Into(r.x, bounds.w - r.w), Into(r.y, bounds.h - r.h), r.w, r.h)
Half(i) == IF i >= 0 THEN i \div 2 ELSE -((-i) \div 2)
CenterIn(r, bounds) == At(Half(bounds.w - r.w), Half(bounds.h - r.h), r.w, r.h)
ClipTo(r, bounds) ==
  LET x == Most(r.x, 0)
      y == Most(r.y, 0)
  IN  At(x, y, Least(r.x + r.w, bounds.w) - x, Least(r.y + r.h, bounds.h) - y)

GetResizeToFitContentRect(f, ps, fit) ==
  LET Fitted(a) == CASE fit = "preferred" -> ps.pref[a]
                     [] fit = "minimal" -> ps.min[a]
                     [] fit = "current or needed" -> Clamp(f.rect[a], ps.min[a], ps.max[a])
  IN  [f.rect EXCEPT !.w = Least(Fitted("w"), f.parent.w), !.h = Least(Fitted("h"), f.parent.h)]

(* Mover::OnEvent: where it was taken stays in the parent. *)
Moved(f, d, down, at) ==
  set_rect(f, [f.rect EXCEPT !.x = Clamp(@ + d.x, -down.x, f.parent.w - down.x),
                             !.y = Clamp(@ + d.y, -down.y, f.parent.h - down.y)])

(* Resizer::OnEvent *)
Resized(f, d) == set_rect(f, [f.rect EXCEPT !.w = Most(@ + d.x, MinSize), !.h = Most(@ + d.y, MinSize)])

(* Resizer::GetHitStatus: not the upper left half, but for three pixels *)
HitsResizer(p) == p.x >= CornerSize - p.y - 3 /\ p.x < CornerSize /\ p.y < CornerSize /\ p.x >= 0 /\ p.y >= 0

Inside(p, r) == p.x >= 0 /\ p.y >= 0 /\ p.x < r.w /\ p.y < r.h
-----------------------------------------------------------------------------
(* The handle of a slider or a scroll bar *)

IsSlider(b) == b.set.kind = "slider"

Handle(b) ==
  IF b.max = b.min \/ (~IsSlider(b) /\ b.visible = 0) THEN 0
  ELSE IF IsSlider(b) THEN b.set.handle
  ELSE Most((b.visible * b.set.length) \div (b.visible + b.max - b.min), b.set.thickness)
Room(b, len) == IF len = 0 THEN 0 ELSE b.set.length - len

UpdateHandle(b) ==
  LET len == Handle(b)
      pixels == IF len = 0 THEN 0
                ELSE ((IF IsSlider(b) THEN b.value - b.min ELSE b.value) * Room(b, len)) \div (b.max - b.min)
  IN  [b EXCEPT !.len = len,
                !.pos = IF IsSlider(b) /\ b.set.axis = "y" /\ len > 0 THEN Room(b, len) - pixels ELSE pixels]

set_double_value(b, v) ==
  LET value == Clamp(v, b.min, b.max) IN IF value = b.value THEN b ELSE UpdateHandle([b EXCEPT !.value = value])

Limited(b, l) == set_double_value([b EXCEPT !.min = l.min, !.max = l.max, !.visible = l.visible], b.value)

(* OnEvent, the handle by so many pixels *)
Dragged(b, d) ==
  IF Room(b, b.len) <= 0 THEN b
  ELSE LET delta == (d * (b.max - b.min)) \div Room(b, b.len)
       IN  set_double_value(b, b.value + (IF IsSlider(b) /\ b.set.axis = "y" THEN -delta ELSE delta))

-----------------------------------------------------------------------------
(* The pointer *)

Along(p) == IF bar.set.axis = "x" THEN p.x ELSE p.y
Captured(what) == drag.what = what

(* Where the part begins that is dragged, in the root *)
Origin ==
  CASE Captured("title bar") -> Point(form.rect.x, form.rect.y)
    [] Captured("resizer") -> Point(form.rect.x + form.resizer.x, form.rect.y + form.resizer.y)
    [] OTHER -> Point(bar.pos, bar.pos)
Delta(p) == Point(p.x - Origin.x - drag.down.x, p.y - Origin.y - drag.down.y)

(* How far the pointer is from where it holds the handle *)
Apart == Along(drag.at) - Along(drag.down) - bar.pos

Takes(what, p, at) ==
  drag' = [what |-> what, down |-> p, at |-> at, led |-> TRUE]

(* A press on a part of the form, or on the handle *)
InvokePointerDown(p) ==
  /\ Captured("nothing")
  /\ \/ /\ "title bar" \in form.settings /\ Inside(p, form.mover)
        /\ ~\E b \in {"close", "design"} : /\ b = "close" => "close button" \in form.settings
                                          /\ b = "design" => "design button" \in form.settings
                                          /\ Inside([x |-> p.x - form[b].x, y |-> p.y - form[b].y], form[b])
        /\ Takes("title bar", p, Point(form.rect.x + p.x, form.rect.y + p.y))
     \/ /\ "resizable" \in form.settings /\ HitsResizer(p)
        /\ Takes("resizer", p, Point(form.rect.x + form.resizer.x + p.x, form.rect.y + form.resizer.y + p.y))
     \/ Along(p) < bar.len /\ Along(p) >= 0 /\ Takes("handle", p, Point(bar.pos + p.x, bar.pos + p.y))
  /\ UNCHANGED <<form, bar>>

(* The part may have been taken away meanwhile. *)
InvokePointerMove(p) ==
  /\ drag.what # "nothing"
  /\ drag' = [drag EXCEPT !.at = p, !.led = TRUE]
  /\ form' = IF Captured("title bar") /\ "title bar" \in form.settings
             THEN Moved(form, Delta(p), drag.down, p)
             ELSE IF Captured("resizer") /\ "resizable" \in form.settings THEN Resized(form, Delta(p)) ELSE form
  /\ bar' = IF Captured("handle") THEN Dragged(bar, Along(Delta(p))) ELSE bar

InvokePointerUp == drag.what # "nothing" /\ drag' = [drag EXCEPT !.what = "nothing"] /\ UNCHANGED <<form, bar>>

(* Something else moves what may be dragged. *)
Unled == drag' = [drag EXCEPT !.led = FALSE] /\ UNCHANGED bar

SetSettings(settings) == form' = set_settings(form, settings) /\ Unled

CenterInParent ==
  LET f == set_rect(form, ClipTo(MoveIn(CenterIn(form.rect, form.parent), form.parent), form.parent))
  IN  form' = [f EXCEPT !.fitted = TRUE] /\ Unled

ResizeToFitContent(ps, fit) == form' = set_rect(form, GetResizeToFitContentRect(form, ps, fit)) /\ Unled

(* The parent's gravity, and a form that is as large as that *)
ParentResized(size) ==
  LET f == [form EXCEPT !.parent = size, !.fitted = FALSE]
  IN  /\ size # form.parent
      /\ form' = IF "full screen" \in form.settings
                 THEN set_rect(f, [form.rect EXCEPT !.w = @ + size.w - form.parent.w, !.h = @ + size.h - form.parent.h])
                 ELSE f
      /\ Unled

(* When a scroll bar that is dragged gets other limits, where the pointer went
   down goes with the handle. *)
Carried(b, after) == IF Captured("handle") /\ ~IsSlider(b) THEN b.pos - after.pos ELSE 0

SetLimits(l) ==
  LET b == Limited(bar, l)
      after == UpdateHandle(b)
      shift == Carried(b, after)
  IN  /\ <<l.min, l.max>> # <<bar.min, bar.max>> \/ (~IsSlider(bar) /\ l.visible # bar.visible)
      /\ bar' = after
      /\ drag' = [drag EXCEPT !.led = @ /\ ~IsSlider(bar) /\ Apart = 0 /\ b.value = bar.value,
                              !.down = [x |-> @.x + (IF bar.set.axis = "x" THEN shift ELSE 0),
                                        y |-> @.y + (IF bar.set.axis = "y" THEN shift ELSE 0)]]
      /\ UNCHANGED form

SetValue(v) ==
  /\ bar' = set_double_value(bar, v)
  /\ drag' = [drag EXCEPT !.led = FALSE] /\ UNCHANGED form

(* A press beside the handle of a scroll bar scrolls by a page. *)
ClickTrack(p) ==
  /\ Captured("nothing") /\ ~IsSlider(bar) /\ ~(Along(p) \in bar.pos .. bar.pos + bar.len - 1)
  /\ bar' = set_double_value(bar, bar.value + (IF Along(p) > bar.pos THEN bar.visible ELSE -bar.visible))
  /\ UNCHANGED <<form, drag>>

(* The wheel and the keys of a slider, by a hundredth of its range *)
Step(up) ==
  /\ IsSlider(bar)
  /\ bar' = set_double_value(bar, bar.value + (IF up THEN 1 ELSE -1) * ((bar.max - bar.min) \div 100))
  /\ drag' = [drag EXCEPT !.led = FALSE] /\ UNCHANGED form

BarResized(length) ==
  /\ length # bar.set.length
  /\ bar' = UpdateHandle([bar EXCEPT !.set.length = length])
  /\ drag' = [drag EXCEPT !.led = FALSE] /\ UNCHANGED form

Empty == At(0, 0, 0, 0)
Init ==
  /\ \E parent \in Parents, settings \in Settings, ps \in Preferred :
       form = OnResized([rect |-> At(0, 0, ps.pref.w, ps.pref.h), settings |-> settings, parent |-> parent,
                         mover |-> Empty, resizer |-> Empty, design |-> Empty, close |-> Empty, label |-> Empty,
                         fitted |-> FALSE])
  /\ \E b \in Bars : bar = UpdateHandle([set |-> b, min |-> 0, max |-> Unit, visible |-> Unit, value |-> 0, pos |-> 0, len |-> 0])
  /\ drag = [what |-> "nothing", down |-> Point(0, 0), at |-> Point(0, 0), led |-> FALSE]

FormNext ==
  \/ \E settings \in Settings : SetSettings(settings)
  \/ CenterInParent
  \/ \E ps \in Preferred, fit \in {"preferred", "minimal", "current or needed"} : ResizeToFitContent(ps, fit)
  \/ \E size \in Parents : ParentResized(size)

BarNext ==
  \/ \E l \in Limits : SetLimits(l)
  \/ \E v \in Amounts : SetValue(v)
  \/ \E p \in Grabs : ClickTrack(p)
  \/ \E up \in BOOLEAN : Step(up)
  \/ \E b \in Bars : BarResized(b.length)

PointerNext ==
  \/ \E p \in Grabs : InvokePointerDown(p)
  \/ \E p \in Pointers : InvokePointerMove(p)
  \/ InvokePointerUp

Next == FormNext \/ BarNext \/ PointerNext

Spec == Init /\ [][Next]_vars

-----------------------------------------------------------------------------
(* Properties *)

(* While it is dragged a form is where the pointer takes it, by the same point
   of it, which stays in the parent; its corner too, down to the least size
   (Mover and Resizer, whose events are relative to what they move). *)
FormFollowsPointer ==
  drag.led =>
    /\ Captured("title bar") /\ "title bar" \in form.settings =>
         /\ form.rect.x + drag.down.x = Clamp(drag.at.x, 0, form.parent.w)
         /\ form.rect.y + drag.down.y = Clamp(drag.at.y, 0, form.parent.h)
    /\ Captured("resizer") /\ "resizable" \in form.settings =>
         /\ \/ drag.at.x = Origin.x + drag.down.x
            \/ drag.at.x < Origin.x + drag.down.x /\ form.rect.w = MinSize
         /\ \/ drag.at.y = Origin.y + drag.down.y
            \/ drag.at.y < Origin.y + drag.down.y /\ form.rect.h = MinSize

(* A centered form is within its parent, in its middle if it is smaller (Rect). *)
FormFits ==
  form.fitted =>
    /\ form.rect.x >= 0 /\ form.rect.x + form.rect.w <= form.parent.w
    /\ form.rect.y >= 0 /\ form.rect.y + form.rect.h <= form.parent.h
    /\ form.parent.w - form.rect.w - 2 * form.rect.x \in {0, 1}
    /\ form.parent.h - form.rect.h - 2 * form.rect.y \in {0, 1}

(* The handle is on its track, and while it is dragged where the pointer takes
   it, by the same point, or at the end beyond which the pointer is, also when
   a scroll bar gets other limits meanwhile that its value is within
   (UpdateHandle, set_limits). *)
HandleFollowsPointer ==
  /\ bar.pos >= 0 /\ bar.pos + bar.len <= bar.set.length
  /\ drag.led /\ Captured("handle") /\ Room(bar, bar.len) > 0 =>
       \/ Apart = 0
       \/ Apart < 0 /\ bar.pos = 0
       \/ Apart > 0 /\ bar.pos + bar.len = bar.set.length
HandlesFollow == FormFollowsPointer /\ FormFits /\ HandleFollowsPointer
=============================================================================
