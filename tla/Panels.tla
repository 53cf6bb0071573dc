------------------------------- MODULE Panels -------------------------------
(***************************************************************************)
(* Elements that divide their room: a tab container, a split container, a  *)
(* group box with its toggle container, and a spin box with its text box   *)
(* (src/el/elements/tab_container.cc, split_container.cc, group_box.cc,    *)
(* toggle_container.cc, spin_box.cc and set_value of button.cc).           *)
(*                                                                         *)
(* They share nothing, and each has its own next-state relation.  Indices  *)
(* of pages count from 1, and the skins take no room.                      *)
(***************************************************************************)
EXTENDS Integers, Sequences, SequencesExt

CONSTANTS MaxPages,   \* bound: the pages of the tab container
          Lengths,    \* widths and heights of the split container
          Splitter,   \* kSplitterSize
          Minima,     \* its lower limits
          Places,     \* positions of the pointer along the axis
          SpinLimits, \* [min, max] of the spin box
          Typed,      \* numbers the user types in its text box
          Callbacks   \* bound: how often handlers of the group box set it again

(* Assumed of the constants where they get their values *)
PanelsAssumption ==
  /\ MaxPages \in Nat /\ Splitter \in Nat \ {0} /\ Callbacks \in Nat
  /\ Lengths \subseteq Nat /\ Minima \subseteq Nat /\ Places \subseteq Int
  /\ SpinLimits \in [min : Int, max : Int] /\ SpinLimits.min <= SpinLimits.max /\ Typed \subseteq Int

VARIABLES tabs,   \* [pages: which are visible, pressed: the values of the tabs, current, need:
                  \*  m_need_page_update; ghosts: shown: how many pages there were when they
                  \*  were updated last, kept: no page was removed]
          split,  \* [size: [x, y], axis, fixed, min, value, initial, rects: [first, divider,
                  \*  second] as <<position, length>>, invalid; the pointer on the divider: grab,
                  \*  where in it, -1 not at all, at; ghost: held: the last to move it]
          group,  \* [header, container, visible, pending: m_pending_scroll, calls: the values
                  \*  GroupBox::set_value has yet to set, nested; ghost: disturbed: a handler set it
                  \*  while set_value was under way]
          spin    \* [value, text; ghosts: told: by the last kChanged, again: it was told before]

panelsVars == <<tabs, split, group, spin>>

(* util::Clamp *)
Within(v, min, max) == IF v > max THEN max ELSE IF v < min THEN min ELSE v
Most(a, b) == IF a < b THEN b ELSE a

-----------------------------------------------------------------------------
(* TabContainer *)

(* set_value: pages and tabs go together, as far as both exist. *)
PageValue(t, index) ==
  IF index = t.current THEN t
  ELSE [t EXCEPT !.current = index, !.shown = Len(t.pages), !.kept = TRUE,
                 !.pages = [i \in DOMAIN @ |-> i = index], !.pressed = [i \in DOMAIN @ |-> i = index]]

SetPage(index) == tabs' = PageValue(tabs, index)

AddPage ==
  /\ Len(tabs.pages) < MaxPages
  /\ tabs' = [tabs EXCEPT !.pages = Append(@, TRUE), !.pressed = Append(@, FALSE)]

RemovePage(i) ==
  tabs' = [tabs EXCEPT !.pages = RemoveAt(@, i), !.pressed = RemoveAt(@, i), !.kept = FALSE]

(* A press or a click on a tab *)
ClickTab(i) == tabs' = PageValue(tabs, i)

(* OnProcess, for the first time *)
UpdatePages ==
  /\ tabs.need
  /\ tabs' = PageValue([tabs EXCEPT !.need = FALSE, !.current = 0], tabs.current)

TabsNext ==
  \/ \E i \in 1 .. MaxPages : SetPage(i)
  \/ \E i \in DOMAIN tabs.pages : RemovePage(i) \/ ClickTab(i)
  \/ AddPage \/ UpdatePages

-----------------------------------------------------------------------------
(* SplitContainer *)

Across(s) == IF s.axis = "x" THEN s.size.y ELSE s.size.x
computed_max_value(s) == Most(0, Across(s) - Splitter)

SplitValue(s, v) ==
  LET clamped == Within(v, s.min, computed_max_value(s))
  IN  IF clamped = s.value THEN s ELSE [s EXCEPT !.value = clamped, !.invalid = TRUE]

(* ValidateLayout: the first one sets the value from the resource file. *)
ValidateSplit(s) ==
  LET t == IF s.initial >= 0 THEN [SplitValue(s, s.initial) EXCEPT !.initial = -1] ELSE s
      rest == Across(t) - t.value - Splitter
      divider == IF t.fixed = "first" THEN t.value ELSE rest
  IN  [t EXCEPT !.invalid = FALSE,
                !.rects = [first |-> <<0, divider>>, divider |-> <<divider, Splitter>>,
                           second |-> <<divider + Splitter, IF t.fixed = "first" THEN rest ELSE t.value>>]]

Elsewhere(s) == [s EXCEPT !.held = FALSE]
SetAxis(axis) == split' = Elsewhere([split EXCEPT !.axis = axis, !.invalid = @ \/ axis # split.axis])
SetFixedPane(pane) == split' = Elsewhere([split EXCEPT !.fixed = pane, !.invalid = @ \/ pane # split.fixed])
SetMinimum(min) == split' = Elsewhere(SplitValue([split EXCEPT !.min = min], split.value))
SetSplit(v) == split' = Elsewhere(SplitValue(split, v))
OnResized(size) == size # split.size /\ split' = Elsewhere(ValidateSplit([split EXCEPT !.size = size]))
SplitProcess == split.invalid /\ split' = ValidateSplit(split)

(* The divider's keys *)
Step(s, steps) == SplitValue(s, s.value + (IF s.fixed = "first" THEN steps ELSE -steps) * Splitter)
DividerKey(steps) == split' = Elsewhere(Step(split, steps))

DoubleClick ==
  split' = Elsewhere(SplitValue(split, IF split.value = split.min THEN computed_max_value(split) ELSE split.min))

Grab(at) ==
  LET in == at - split.rects.divider[1]
  IN  /\ split.grab = -1 /\ in \in 0 .. split.rects.divider[2] - 1
      /\ split' = [split EXCEPT !.grab = in, !.at = at, !.held = FALSE]
ReleaseDivider == split.grab # -1 /\ split' = [split EXCEPT !.grab = -1, !.at = 0, !.held = FALSE]

(* Mutant: from where it was set last *)
DraggedOn(s, at) ==
  LET moved == at - s.rects.divider[1] - s.grab
  IN  s.value + (IF s.fixed = "first" THEN moved ELSE -moved)

(* Where the divider is to be, from where it was laid out last *)
Dragged(s, at) ==
  LET r == s.rects.divider[1] + (at - s.rects.divider[1] - s.grab)
  IN  IF s.fixed = "first" THEN r ELSE Across(s) - r

Drag(at) ==
  /\ split.grab # -1 /\ at # split.at
  /\ split' = [SplitValue(split, Dragged(split, at)) EXCEPT !.at = at, !.held = TRUE]

SplitNext ==
  \/ \E axis \in {"x", "y"} : SetAxis(axis)
  \/ \E pane \in {"first", "second"} : SetFixedPane(pane)
  \/ \E min \in Minima : SetMinimum(min)
  \/ \E v \in Lengths : SetSplit(v)
  \/ \E x, y \in Lengths : OnResized([x |-> x, y |-> y])
  \/ \E steps \in {-1, 1} : DividerKey(steps)
  \/ \E at \in Places : Grab(at) \/ Drag(at)
  \/ SplitProcess \/ DoubleClick \/ ReleaseDivider

-----------------------------------------------------------------------------
(* GroupBox: its header is a button that toggles, and tells the container. *)

(* ToggleContainer::set_value *)
ContainerValue(g, v) == [g EXCEPT !.container = v, !.visible = v # 0]

(* Button::set_value, up to the handlers of its kChanged event; calls notes
   what the callers are still to do. *)
GroupValue(g, v) ==
  IF v = g.header THEN ContainerValue(g, v)
  ELSE [g EXCEPT !.header = v, !.calls = Append(@, [op |-> "group", value |-> v])]

SetGroup(v) == group.calls = <<>> /\ group' = GroupValue([group EXCEPT !.disturbed = FALSE], v)

ClickHeader ==
  /\ group.calls = <<>>
  /\ group' = [group EXCEPT !.header = 1 - @, !.calls = <<[op |-> "click", value |-> 0]>>,
                             !.disturbed = FALSE]

(* A handler sets the group box again, from within the event. *)
SetAgain(v) ==
  /\ group.calls # <<>> /\ group.nested < Callbacks
  /\ group' = GroupValue([group EXCEPT !.nested = @ + 1,
                                        !.disturbed = @ \/ \E k \in DOMAIN group.calls : group.calls[k].op = "group"], v)

(* Header::OnEvent, and then the rest of GroupBox::set_value *)
HeaderChanged ==
  LET top == Last(group.calls)
      told == [ContainerValue(group, group.header) EXCEPT !.pending = group.header # 0]
  IN  /\ group.calls # <<>>
      /\ group' = [(IF top.op = "group" THEN ContainerValue(told, top.value) ELSE told)
                     EXCEPT !.calls = Front(@), !.nested = IF Len(group.calls) = 1 THEN 0 ELSE @]

GroupProcessed == group.calls = <<>> /\ group.pending /\ group' = [group EXCEPT !.pending = FALSE]

GroupNext ==
  \/ \E v \in {0, 1} : SetGroup(v) \/ SetAgain(v)
  \/ ClickHeader \/ HeaderChanged \/ GroupProcessed

-----------------------------------------------------------------------------
(* SpinBox *)

(* The text box invokes kChanged when its text changes, which comes back here
   and finds the value set. *)
SetValueInternal(s, v, update_text) ==
  LET value == Within(v, SpinLimits.min, SpinLimits.max)
  IN  IF value = s.value THEN s
      ELSE [s EXCEPT !.value = value, !.text = IF update_text THEN value ELSE @,
                     !.told = value, !.again = @ \/ value = s.told]

SetSpin(v) == spin' = SetValueInternal(spin, v, TRUE)
SpinButton(step) == spin' = SetValueInternal(spin, spin.value + step, TRUE)
Type(text) == text # spin.text /\ spin' = SetValueInternal([spin EXCEPT !.text = text], text, FALSE)

SpinNext ==
  \/ \E text \in Typed : SetSpin(text) \/ Type(text)
  \/ \E step \in {-1, 1} : SpinButton(step)

-----------------------------------------------------------------------------
InitPanels ==
  /\ tabs = [pages |-> <<>>, pressed |-> <<>>, current |-> 1, need |-> TRUE, shown |-> 0, kept |-> TRUE]
  /\ split = [size |-> [x |-> 0, y |-> 0], axis |-> "x", fixed |-> "first", min |-> 0, value |-> 0, initial |-> 1,
              rects |-> [first |-> <<0, 0>>, divider |-> <<0, 0>>, second |-> <<0, 0>>], invalid |-> FALSE,
              grab |-> -1, at |-> 0, held |-> FALSE]
  /\ group = [header |-> 0, container |-> 0, visible |-> FALSE, pending |-> FALSE, calls |-> <<>>, nested |-> 0,
              disturbed |-> FALSE]
  /\ LET value == Within(0, SpinLimits.min, SpinLimits.max)         \* set_limits sets it
     IN  spin = [value |-> value, text |-> value, told |-> value, again |-> FALSE]

PanelsNext ==
  \/ TabsNext /\ UNCHANGED <<split, group, spin>>
  \/ SplitNext /\ UNCHANGED <<tabs, group, spin>>
  \/ GroupNext /\ UNCHANGED <<tabs, split, spin>>
  \/ SpinNext /\ UNCHANGED <<tabs, split, group>>

PanelsSpec == InitPanels /\ [][PanelsNext]_panelsVars

-----------------------------------------------------------------------------
(* tab_container.h says of set_value: "Sets which page should be selected and
   visible." Of the pages it has seen only the selected one is visible, and its
   tab alone is pressed, until one is removed: that shifts the pages, and a
   value that is set already is not set again (tab_container.cc set_value,
   OnProcess). *)
OnlyCurrentShown ==
  ~tabs.need /\ tabs.kept =>
    \A i \in 1 .. tabs.shown : tabs.pages[i] = (i = tabs.current) /\ tabs.pressed[i] = (i = tabs.current)

(* When it is laid out the divider of a fixed first pane is under the pointer
   that drags it, where it was taken, however many moves came since the last
   layout (split_container.cc Divider::OnEvent). *)
DividerFollowsPointer ==
  split.held /\ ~split.invalid /\ split.fixed = "first" =>
    split.rects.divider[1] = Within(split.at - split.grab, split.min, computed_max_value(split))

(* When all calls have returned the container of a group box is expanded
   exactly when its header is on, also if handlers of a click set the group box
   themselves; only one that does so while set_value is under way is overruled
   by what set_value still has to set (group_box.cc set_value, Header::OnEvent). *)
HeaderAgrees ==
  group.calls = <<>> /\ ~group.disturbed =>
    (group.header # 0) = group.visible /\ group.container = group.header

(* The spin box tells each value once, and its text stands for its value, though
   the text box tells it of the text it sets itself (spin_box.cc
   SetValueInternal, OnEvent). *)
SpinToldOnce == ~spin.again /\ Within(spin.text, SpinLimits.min, SpinLimits.max) = spin.value

(* What follows from something else follows it: pages the tab, the divider the
   pointer, a group its header, and handlers hear of each value of a spin box
   once. *)
PanelsFollow == OnlyCurrentShown /\ DividerFollowsPointer /\ HeaderAgrees /\ SpinToldOnce
=============================================================================
