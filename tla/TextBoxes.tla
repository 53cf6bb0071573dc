----------------------------- MODULE TextBoxes ------------------------------
(***************************************************************************)
(* A text box around its editor (src/el/elements/text_box.cc, and what the *)
(* editor asks of it in src/el/text/text_view.cc and caret.cc): the        *)
(* messages that blink the caret and scroll while text is being selected,  *)
(* the scroll bar, focus and pointer, and the size that follows the text.  *)
(*                                                                         *)
(* The text is a number of lines, each as wide as Wide; what is in them is *)
(* in TextEdit.  Lengths are those along the vertical axis, but for the    *)
(* width that wraps the lines.                                             *)
(***************************************************************************)
EXTENDS Integers

CONSTANTS Rects,        \* the padding rects [w, h] a box may get
          Padding,      \* above the text
          BarWidth, Wide, FontHeight,
          Pointers,     \* where the pointer is, from the top of the box
          MaxLines, Set,   \* how many lines are typed, and set by the program
          TakesFocus    \* whether the box takes the focus

(* Assumed of the constants where they get their values *)
TextBoxesAssumption ==
  /\ Rects \subseteq [w : Int, h : Int] /\ Padding \in Nat
  /\ BarWidth \in Nat /\ Wide \in Nat \ {0} /\ FontHeight \in Nat \ {0}
  /\ Pointers \subseteq Int /\ MaxLines \in Nat /\ Set \subseteq Nat

VARIABLES tb,     \* the box: its flags, lines, caret (a row of the text), select_state, from, to, down: the
                  \*  selection and where the pointer went down, on: the caret is lit, width, height: of the
                  \*  layout, scroll, max, value, shown: of the bar, virtual_width; torn, turned: see below
          world,  \* [focused, captured, touch, pointer, blinks, drags: messages posted, rect, asked: to be laid
                  \*  out, measured: rows when it was, within: the width it had then, dependent: whether that
                  \*  mattered, heard: lines at the last kChanged; stray, hurried, untold, unasked: see below]
          aside   \* auxiliary: what was selected is not what is under the pointer

(* Auxiliary fields say what the code is known to leave as it is:
   torn     the bar of a box of one line was moved, and the view was not
   turned   the bar was shown or hidden since the box got its size
   stray    the blinking was started without the focus
   hurried  the pointer went down before "selscroll" had gone
   untold   an empty text was set since listeners heard of a change
   unasked  that, or set_adapt_to_content_size, since the box was measured *)

textBoxVars == <<tb, world, aside>>

Larger(i, j) == IF i > j THEN i ELSE j
Smaller(i, j) == IF i > j THEN j ELSE i
Between(i, least, most) == Larger(least, Smaller(i, most))

-----------------------------------------------------------------------------
(* The view and the scroll bar, which tell each other *)

RowsIn(b, width) == IF b.lines = 0 THEN 1 ELSE b.lines * (IF b.wrapping /\ width < Wide THEN 2 ELSE 1)
Rows(b) == RowsIn(b, b.width)
ContentHeight(b) == Rows(b) * FontHeight

visible_rect(b, rect) == [rect EXCEPT !.w = @ - (IF b.shown THEN BarWidth ELSE 0)]

(* SetScrollPos of the view, and Scroll of the box that follows it *)
SetScrollPos(b, y) ==
  LET to == IF b.multiline THEN Larger(0, Smaller(y, ContentHeight(b) - b.height)) ELSE 0
  IN  IF to = b.scroll THEN b ELSE [b EXCEPT !.scroll = to, !.value = Between(to, 0, b.max), !.torn = FALSE]

(* set_value of the bar, and kChanged of it *)
SetBar(b, y) ==
  LET to == Between(y, 0, b.max)
  IN  IF to = b.value THEN b ELSE SetScrollPos([b EXCEPT !.value = to, !.torn = ~b.multiline], to)

UpdateScrollbars(b) ==
  LET max == Larger(0, ContentHeight(b) - b.height) IN SetBar([b EXCEPT !.max = max], b.value)

ScrollIfNeeded(b) ==
  LET y == b.caret * FontHeight
  IN  IF b.height <= 0 THEN b
      ELSE SetScrollPos(b, IF y + FontHeight - b.scroll > b.height THEN y + FontHeight - b.height
                           ELSE IF y - b.scroll < 0 THEN y ELSE b.scroll)

(* Lines that wrap are laid out again in another width, which updates the bar. *)
SetLayoutSize(b, width, height) ==
  LET sized == [b EXCEPT !.width = width, !.height = height]
  IN  IF b.wrapping /\ width # b.width THEN UpdateScrollbars(sized) ELSE sized
BoxResized(b, rect) ==
  LET v == visible_rect(b, rect)
      laid == SetLayoutSize(b, v.w, v.h)
      placed == IF v.w = b.width /\ v.h = b.height THEN laid ELSE SetScrollPos(laid, laid.scroll)
  IN  UpdateScrollbars([placed EXCEPT !.turned = FALSE])

UpdateScrollbarVisibility(b, multiline) ==
  LET shown == multiline /\ ~b.adapt IN [b EXCEPT !.shown = shown, !.turned = @ \/ shown # b.shown]

-----------------------------------------------------------------------------
(* Messages *)

CaretBlinkStart(w) == IF w.blinks = 0 THEN [w EXCEPT !.blinks = 1] ELSE w
CaretBlinkStop(w) == IF w.blinks = 0 THEN w ELSE [w EXCEPT !.blinks = @ - 1]
ResetBlink(w) == [CaretBlinkStart(CaretBlinkStop(w)) EXCEPT !.stray = ~w.focused]

Focus(w, focus) ==
  [(IF focus THEN CaretBlinkStart(w) ELSE CaretBlinkStop(w)) EXCEPT !.focused = focus, !.stray = FALSE]

LightUp(b) == [b EXCEPT !.on = TRUE]

(* OnMessageReceived *)
Blink ==
  /\ world.blinks > 0
  /\ tb' = [tb EXCEPT !.on = ~@]
  /\ UNCHANGED <<world, aside>>

(* Selection.Select, from where the pointer went down *)
Select(b, y) == [b EXCEPT !.from = b.down, !.to = y]
(* Mutant: the pointer taken for a place in the text, whatever is scrolled *)
MouseMoveInView(b, y) == IF b.select = 0 THEN b ELSE Select(b, y)
MouseMove(b, y) == IF b.select = 0 THEN b ELSE Select(b, y + b.scroll)

GetSelectionScrollSpeed(y, min, max) ==
  LET d == IF y < min THEN y - min ELSE IF y > max THEN y - max ELSE 0
  IN  IF y < min THEN -((d * d) \div 40) ELSE (d * d) \div 40

(* The pointer is where it is in the box, not in its padding rect. *)
SelScroll ==
  LET top == Padding + 2
      dy == GetSelectionScrollSpeed(world.pointer, top, top + Larger(0, visible_rect(tb, world.rect).h - 4))
      scrolled == SetBar(tb, tb.value + dy)
  IN  /\ world.drags > 0
      /\ IF world.captured
         THEN /\ tb' = IF dy = 0 THEN scrolled ELSE MouseMove(scrolled, world.pointer)
              /\ world' = [world EXCEPT !.drags = IF tb.select # 0 THEN @ ELSE @ - 1]
              /\ aside' = (aside /\ dy = 0)
         ELSE /\ world' = [world EXCEPT !.drags = @ - 1]
              /\ UNCHANGED <<tb, aside>>

-----------------------------------------------------------------------------
(* Focus and pointer *)

FocusBox ==
  /\ TakesFocus /\ ~world.focused
  /\ world' = Focus(world, TRUE) /\ tb' = LightUp(tb)
  /\ UNCHANGED aside
LoseFocus ==
  /\ world.focused
  /\ world' = Focus(world, FALSE) /\ tb' = [tb EXCEPT !.on = FALSE]
  /\ UNCHANGED aside

Press(w, y, touch) ==
  [(IF TakesFocus /\ ~w.focused THEN Focus(w, TRUE) ELSE w)
     EXCEPT !.captured = TRUE, !.touch = touch, !.pointer = y, !.drags = @ + 1, !.hurried = w.drags > 0]

PointerDown(y, touch, clicks) ==
  /\ tb.height > 0 /\ (world.captured \/ y \in 0 .. world.rect.h + Padding - 1)
  /\ world' = LET pressed == Press(world, y, touch) IN IF touch THEN pressed ELSE ResetBlink(pressed)
  /\ LET down == [tb EXCEPT !.down = y - Padding + tb.scroll, !.on = @ \/ world'.focused # world.focused]
     IN  tb' = IF touch THEN down
               ELSE MouseMove([LightUp(down) EXCEPT !.from = 0, !.to = 0, !.select = ((clicks - 1) % 2) + 1],
                              y - Padding)
  /\ aside' = (touch /\ tb.select # 0)

PointerMove(y) ==
  /\ world.captured /\ y # world.pointer
  /\ world' = [world EXCEPT !.pointer = y]
  /\ tb' = MouseMove(tb, y - Padding)
  /\ aside' = FALSE

(* A touch places the caret, unless it was cancelled. *)
PointerUp(row, cancel_click) ==
  /\ world.captured
  /\ world' = LET up == [world EXCEPT !.captured = FALSE]
              IN  IF world.touch /\ ~cancel_click THEN ResetBlink(up) ELSE up
  /\ tb' = LET up == [tb EXCEPT !.select = 0]
           IN  IF world.touch /\ ~cancel_click THEN [LightUp(up) EXCEPT !.from = 0, !.to = 0, !.caret = row] ELSE up
  /\ UNCHANGED aside

Wheel(delta) ==
  /\ tb.height > 0 /\ tb' = SetBar(tb, tb.value + delta) /\ tb' # tb
  /\ aside' = (tb.select # 0)
  /\ UNCHANGED world

-----------------------------------------------------------------------------
(* The text *)

(* OnChange: listeners hear of it, and a box that is as large as its text is
   laid out again. *)
OnChange(w, b) == [w EXCEPT !.heard = b.lines, !.asked = @ \/ b.adapt, !.untold = FALSE]
(* A box of one line takes the first. *)
Taken(n) == IF tb.multiline THEN n ELSE Smaller(n, 1)
(* A block that changes its size updates the bar. *)
WithLines(b, n, row) == UpdateScrollbars([b EXCEPT !.lines = n, !.caret = row, !.from = 0, !.to = 0])

(* TypeLines: not while text is being selected, and no change when the box is
   read-only *)
TypeLines(n, row) ==
  /\ world.focused /\ tb.select = 0 /\ ~tb.read_only
  /\ n = Taken(n) \/ n <= tb.lines
  /\ row < Larger(1, n)
  /\ tb' = ScrollIfNeeded(LightUp(WithLines(tb, n, row)))
  /\ world' = OnChange(ResetBlink(world), tb')
  /\ UNCHANGED aside
KeyMove(row) ==
  /\ world.focused /\ tb.select = 0 /\ row < Rows(tb)
  /\ tb' = ScrollIfNeeded(LightUp([tb EXCEPT !.caret = row, !.from = 0, !.to = 0]))
  /\ world' = ResetBlink(world)
  /\ UNCHANGED aside

(* An empty text is set without telling anybody. *)
SetText(n) ==
  /\ LET cleared == WithLines(tb, Taken(n), 0)
     IN  tb' = IF n = 0 THEN ScrollIfNeeded(cleared) ELSE SetScrollPos(cleared, cleared.scroll)
  /\ world' = IF n = 0 THEN [world EXCEPT !.untold = TRUE, !.unasked = TRUE] ELSE OnChange(world, tb')
  /\ aside' = (tb.select # 0)

-----------------------------------------------------------------------------
(* Its kind and its size *)

InvalidateLayout(w, b) == [w EXCEPT !.asked = @ \/ b.adapt]
(* With another width of the lines the blocks are laid out again. *)
Wrapping(b, wrapping) == IF wrapping = b.wrapping THEN b ELSE UpdateScrollbars([b EXCEPT !.wrapping = wrapping])
Kind(b, w) ==
  /\ tb' = b /\ tb' # tb /\ world' = w
  /\ aside' = (aside \/ tb'.scroll # tb.scroll)
set_multiline(multiline) ==
  LET b == Wrapping([UpdateScrollbarVisibility(tb, multiline) EXCEPT !.multiline = multiline], multiline)
  IN  multiline # tb.multiline
        /\ Kind(b, IF b.wrapping # tb.wrapping THEN InvalidateLayout(world, tb) ELSE world)
set_wrapping(wrapping) == Kind(Wrapping(tb, wrapping), InvalidateLayout(world, tb))
set_adapt_to_content_size(adapt) ==
  Kind(UpdateScrollbarVisibility([tb EXCEPT !.adapt = adapt], tb.multiline), [world EXCEPT !.unasked = TRUE])
set_read_only(read_only) == Kind([tb EXCEPT !.read_only = read_only], world)

set_virtual_width(width) ==
  /\ width # tb.virtual_width
  /\ tb' = [tb EXCEPT !.virtual_width = width]
  /\ world' = IF tb.wrapping THEN InvalidateLayout(world, tb) ELSE world
  /\ UNCHANGED aside

(* A box as large as its text, that wraps, is laid out in the width there is, or
   in its virtual one, to see how high it gets, and then as it was.  The bar
   follows both, and the view the bar.  No width, 0, is no restriction. *)
MeasuredIn(b, within) == IF within = 0 THEN b.virtual_width ELSE within
OnCalculatePreferredContentSize(b, within) ==
  LET there == SetLayoutSize(b, MeasuredIn(b, within), b.height)
  IN  IF b.adapt /\ b.wrapping THEN [rows |-> Rows(there), box |-> SetLayoutSize(there, b.width, b.height)]
      ELSE [rows |-> IF b.adapt THEN Rows(b) ELSE IF b.multiline THEN 5 ELSE 1, box |-> b]

(* What was measured is cached, for all widths unless the height depends on it. *)
Relayout(rect, within) ==
  LET measures == world.asked \/ (world.dependent /\ within # world.within)
      size == OnCalculatePreferredContentSize(tb, within)
      box == IF measures THEN size.box ELSE tb
      seen == IF measures
              THEN [world EXCEPT !.asked = FALSE, !.unasked = FALSE, !.measured = size.rows, !.within = within,
                                 !.dependent = tb.adapt /\ tb.wrapping]
              ELSE world
  IN  /\ measures \/ rect # world.rect
      /\ world' = [seen EXCEPT !.rect = rect]
      /\ tb' = IF rect = world.rect THEN box ELSE BoxResized(box, rect)
      /\ aside' = (tb.select # 0)

InitTextBox ==
  /\ tb = [multiline |-> FALSE, wrapping |-> FALSE, adapt |-> FALSE, read_only |-> FALSE, lines |-> 0, caret |-> 0,
           select |-> 0, from |-> 0, to |-> 0, down |-> 0, on |-> FALSE, width |-> 0, height |-> 0, scroll |-> 0,
           max |-> 0, value |-> 0, shown |-> FALSE, virtual_width |-> Wide, torn |-> FALSE, turned |-> FALSE]
  /\ world = [focused |-> FALSE, captured |-> FALSE, touch |-> FALSE, pointer |-> 0, blinks |-> 0, drags |-> 0,
              rect |-> [w |-> 0, h |-> 0], asked |-> TRUE, measured |-> 1, within |-> 0, dependent |-> FALSE,
              heard |-> 0, stray |-> FALSE, hurried |-> FALSE, untold |-> FALSE, unasked |-> FALSE]
  /\ aside = FALSE

TextBoxNext ==
  \/ Blink \/ SelScroll \/ FocusBox \/ LoseFocus
  \/ \E y \in Pointers : PointerMove(y) \/ \E touch \in BOOLEAN, clicks \in {1, 2} : PointerDown(y, touch, clicks)
  \/ \E row \in 0 .. MaxLines - 1, cancel_click \in BOOLEAN : PointerUp(row, cancel_click)
  \/ \E delta \in {-FontHeight, FontHeight} : Wheel(delta)
  \/ \E n \in 0 .. MaxLines, row \in 0 .. MaxLines - 1 : TypeLines(n, row)
  \/ \E row \in 0 .. MaxLines - 1 : KeyMove(row)
  \/ \E n \in Set : SetText(n)
  \/ \E on \in BOOLEAN : set_multiline(on) \/ set_wrapping(on) \/ set_adapt_to_content_size(on) \/ set_read_only(on)
  \/ \E width \in {Wide - 1, Wide} : set_virtual_width(width)
  \/ \E rect \in Rects, within \in {0, Wide - 1} : Relayout(rect, within)

TextBoxSpec == InitTextBox /\ [][TextBoxNext]_textBoxVars

-----------------------------------------------------------------------------
(* Properties *)

(* One message blinks the caret while the box has the focus, and none else,
   unless it was started without. *)
BlinkAgrees == world.blinks = IF world.focused \/ world.stray THEN 1 ELSE 0

(* The bar is where the view is, unless that has one line only, and goes as far
   as it. *)
BarAgrees ==
  tb.height > 0 => /\ tb.value = tb.scroll \/ tb.torn
                   /\ tb.max = Larger(0, ContentHeight(tb) - tb.height)

(* The text is laid out in what the bar left it. *)
LaidOutBesideBar == tb.height > 0 /\ ~tb.turned => tb.width = visible_rect(tb, world.rect).w

(* A box as large as its text was measured with it, or will be; listeners
   have heard of all its lines. *)
SizeFollowsText ==
  /\ tb.adapt /\ ~world.asked /\ ~world.unasked =>
       world.measured = RowsIn(tb, MeasuredIn(tb, world.within))
  /\ world.heard = tb.lines \/ world.untold

(* Text is selected up to the pointer, also when that scrolls the text, and
   it goes on to scroll until the pointer is lifted. *)
SelectedToPointer ==
  tb.select # 0 => /\ world.captured /\ world.drags > 0
                   /\ world.drags = 1 \/ world.hurried
                   /\ aside \/ tb.to = world.pointer - Padding + tb.scroll

(* What a text box does on its own agrees with what is done to it: its blinks
   with the focus, its bar with the scroll position, its selection with the
   pointer, its size with its text (TextBox::OnMessageReceived, OnEvent,
   OnChange, BoxResized). *)
TextBoxAgrees == BlinkAgrees /\ BarAgrees /\ LaidOutBesideBar /\ SizeFollowsText /\ SelectedToPointer

-----------------------------------------------------------------------------
(* What documentation and comments say and the code does not do: without the
   auxiliary fields.  They do not hold. *)

(* Lines wrap in a box of several only, and the view is where the bar is
   (text_box.h, set_wrapping). *)
ViewAtBar == tb.height > 0 => tb.value = tb.scroll
(* A box is laid out beside its bar and has the size of its text when that is
   asked of it (text_box.h, visible_rect and set_adapt_to_content_size). *)
KindTakesEffect ==
  tb.height > 0 => /\ tb.width = visible_rect(tb, world.rect).w
                   /\ tb.adapt /\ ~world.asked =>
                        world.measured = RowsIn(tb, MeasuredIn(tb, world.within))
(* A box is laid out when its content changes (text_box.cc, OnChange). *)
AllHeard == world.heard = tb.lines
(* To measure does not scroll (text_view.cc, SetLayoutSize). *)
MeasuringKeepsScroll == [][world.asked /\ ~world'.asked /\ world'.rect = world.rect => tb'.scroll = tb.scroll]_textBoxVars
=============================================================================
