--------------------------- MODULE ElementEvents ----------------------------
(***************************************************************************)
(* Pointer, wheel and key events in a tree of elements: capture, hover,    *)
(* focus, long clicks, the auto repeat of buttons, panning, and what the   *)
(* handlers the program installs may do in the middle of a dispatch        *)
(* (src/el/element.cc, element_listener.cc, elements/button.cc).           *)
(*                                                                         *)
(* The thread has a stack of the library's calls under way.  Wherever one  *)
(* of them calls out (a listener, OnEvent, OnFocusChanged) the program may *)
(* call back: delete, remove, add, raise, disable, hide or focus an        *)
(* element, or release the capture.                                        *)
(***************************************************************************)
EXTENDS Lists

CONSTANTS Element, Root, NULL,
          Tree,                \* the children of each element at first
          Focusable, LongClickable, ClickByKey,
          AutoRepeat,          \* the buttons that repeat their click
          Scrollable,          \* the elements that can scroll
          Position, Covers,    \* where the pointer may be, and over which elements' rects
          Calls                \* bound: how often the program calls back

ASSUME EventsAssumption ==
  /\ Root \in Element /\ NULL \notin Element
  /\ Tree \in [Element -> Seq(Element)]
  /\ \A p, q \in Element : p # q => ToSet(Tree[p]) \cap ToSet(Tree[q]) = {}
  /\ \A p \in Element : Root \notin ToSet(Tree[p])
  /\ Focusable \cup LongClickable \cup ClickByKey \cup AutoRepeat \cup Scrollable \subseteq Element
  /\ Covers \in [Position -> SUBSET Element]
  /\ Calls \in Nat

VARIABLES children,            \* m_children of each element
          exists, dying, disabled, invisible,
          st,                  \* the statics, and what follows the capture and the focus
          stack, result,       \* the calls under way, and what the last one returned
          calls,
          told,                \* ghost: the elements whose last OnFocusChanged said true
          press,               \* ghost: the element the pointer went down on, and whether its click is off
          crashed              \* the call that used a freed element or NULL, or whose assertion failed

tree == <<children, exists, dying, disabled, invisible>>
vars == <<tree, st, stack, result, calls, told, press, crashed>>

-----------------------------------------------------------------------------
(* The tree *)

Parent(e) ==
  LET parents == {p \in exists : \E i \in DOMAIN children[p] : children[p][i] = e}
  IN  IF parents = {} THEN NULL ELSE CHOOSE p \in parents : TRUE

(* The least set that holds some, and what next leads to from each of its members *)
Reached(from, next) ==
  {x \in exists : \A set \in SUBSET exists : from \subseteq set /\ (\A y \in set : next[y] \subseteq set) => x \in set}

(* The element itself and its ancestors *)
Ancestors(e) == IF e = NULL THEN {} ELSE Reached({e}, [a \in exists |-> {Parent(a)} \ {NULL}])

(* The subtree of e *)
Deep(e) == {a \in exists : e \in Ancestors(a)}

(* The nearest of these elements that e is in, NULL if there is none *)
Nearest(e, set) ==
  LET around == Ancestors(e) \cap set
      nearest == {a \in around : around \subseteq Ancestors(a)}
  IN  IF nearest = {} THEN NULL ELSE CHOOSE a \in nearest : TRUE

(* Document order (GetNextDeep) *)
Precedes(x, y) ==
  \/ x # y /\ x \in Ancestors(y)
  \/ \E p \in exists : \E i, j \in DOMAIN children[p] :
       i < j /\ children[p][i] \in Ancestors(x) /\ children[p][j] \in Ancestors(y)

is_enabled(e) == Ancestors(e) \cap disabled = {}
computed_visibility(e) == Ancestors(e) \cap invisible = {}
is_interactable(e) == e \notin disabled \cup dying \cup invisible
GetHitStatus(e, pos) == is_interactable(e) /\ e \in Covers[pos]

(* The last child hit of the last one hit, and so on from the root; a button is
   hit without its children. *)
GetElementAt(pos) ==
  LET hit(e) == {i \in DOMAIN children[e] : GetHitStatus(children[e][i], pos)}
      last == [e \in exists |-> {children[e][i] : i \in {i \in hit(e) : \A j \in hit(e) : j <= i}}]
      next == [e \in exists |-> IF e \in AutoRepeat THEN {} ELSE last[e]]
      deepest == {e \in Reached({Root}, next) \ {Root} : next[e] = {}}
  IN  IF deepest = {} THEN NULL ELSE CHOOSE e \in deepest : TRUE

FindStartedScroller(s, e) == Nearest(e, s.started)
GetReadyScroller(s, e) == IF FindStartedScroller(s, e) # NULL THEN FindStartedScroller(s, e)
                          ELSE Nearest(e, Scrollable)

-----------------------------------------------------------------------------
(* Hover and capture *)

SetHoveredElement(s, e) == IF e \in disabled THEN s ELSE [s EXCEPT !.hovered = e]

Stop(s, e) == [s EXCEPT !.started = @ \ {e}, !.scrolling = @ \ {e}]

(* The scroller goes on by itself when it was fast enough, or stops. *)
OnPanReleased(s, e, fast) == IF fast THEN [s EXCEPT !.scrolling = @ \cup {e}] ELSE Stop(s, e)

(* Messages "auto_click" of e: one more, and one less if there is one *)
Post(s, e) == [s EXCEPT !.auto_click[e] = @ + 1]
DeleteMessage(s, e) == [s EXCEPT !.auto_click[e] = IF @ = 0 THEN 0 ELSE @ - 1]

(* Button: the first repeated click is posted, or a pending one deleted. *)
OnCaptureChanged(s, e, captured) ==
  IF e \notin AutoRepeat THEN s ELSE IF captured THEN Post(s, e) ELSE DeleteMessage(s, e)

(* Mutant: the timer of the long click is left running *)
LeaveCaptureTimed(s, fast) ==
  OnCaptureChanged([s EXCEPT !.panning = @ \ {s.captured}], s.captured, FALSE)

LeaveCapture(s, fast) ==
  LET e == s.captured
      scroller == FindStartedScroller(s, e)
      stopped == IF scroller = NULL THEN s
                 ELSE IF e \in s.panning THEN OnPanReleased(s, scroller, fast)
                 ELSE Stop(s, scroller)
  IN  OnCaptureChanged([stopped EXCEPT !.panning = @ \ {e}, !.long_click = @ \ {e}], e, FALSE)

(* Mutant: cancel_click is kept *)
SetCapturedElementKept(s, e, fast) ==
  IF s.captured = e \/ e \in disabled THEN s
  ELSE LET left == IF s.captured = NULL THEN s ELSE LeaveCapture(s, fast)
           set == [left EXCEPT !.captured = e]
       IN  IF e = NULL THEN set ELSE OnCaptureChanged(set, e, TRUE)

SetCapturedElement(s, e, fast) ==
  IF s.captured = e \/ e \in disabled THEN s
  ELSE LET left == IF s.captured = NULL THEN s ELSE LeaveCapture(s, fast)
           set == [left EXCEPT !.captured = e, !.cancel_click = FALSE]
       IN  IF e = NULL THEN set ELSE OnCaptureChanged(set, e, TRUE)

-----------------------------------------------------------------------------
(* Calls and returns *)

Frame(op, el, at, type) == [op |-> op, el |-> el, at |-> at, type |-> type]
Top == Last(stack)
Idle == stack = <<>> /\ crashed = ""
In(op) == stack # <<>> /\ Top.op = op /\ crashed = ""
Return(r) == stack' = Front(stack) /\ result' = (r /\ Len(stack) > 1)
Become(frame) == stack' = Append(Front(stack), frame)
Crash(call) == crashed' = call /\ UNCHANGED <<tree, st, stack, result, calls, told, press>>

(* InvokeEvent, and InvokeEvent in a caller that goes on after it.  The type of
   an event is kept where it makes a difference. *)
InvokeEvent(base, e, type) == stack' = Append(base, Frame("listen", e, NULL, type))
Invoke(base, op, e, type) == InvokeEvent(Append(base, Frame(op, e, NULL, type)), e, type)

(* set_focus: false when the element does not take the focus.  The old one
   leaves the state an emulated click gave it and is told. *)
TakesFocus(e) == is_enabled(e) /\ e \in Focusable /\ computed_visibility(e) /\ e \notin dying

SetFocus(s, base, e) ==
  /\ st' = [s EXCEPT !.focused = e, !.pressed = @ \ (s.key_pressed \cap {s.focused}),
                     !.key_pressed = @ \ {s.focused}]
  /\ told' = told \ {s.focused}
  /\ stack' = Append(base, Frame("unfocused", e, s.focused, "any"))

(* MoveFocus: the next element in document order after the focused one, else
   the first after the root of that, that takes the focus *)
MoveFocusTarget ==
  LET from == IF st.focused = NULL THEN Root ELSE st.focused
      taking == {e \in exists \ {from} : /\ Parent(e) # NULL /\ Ancestors(e) \cap Ancestors(from) # {}
                                        /\ TakesFocus(e)}
      after == {e \in taking : Precedes(from, e)}
      among == IF after # {} THEN after ELSE taking
      first == {e \in among : \A other \in among \ {e} : Precedes(e, other)}
  IN  IF first = {} THEN NULL ELSE CHOOSE e \in first : TRUE

-----------------------------------------------------------------------------
(* Events: the listeners, then OnEvent up the tree until one handles it *)

(* Mutant: the weak pointer is not asked *)
ListenersUnchecked ==
  /\ In("listen")
  /\ UNCHANGED <<tree, st, calls, told, press>>
  /\ \E blocked \in BOOLEAN :
       IF blocked THEN Return(TRUE) /\ UNCHANGED crashed
       ELSE /\ Become(Frame("event", Top.el, Top.el, Top.type)) /\ UNCHANGED result
            /\ crashed' = IF Top.el \in exists THEN "" ELSE "InvokeEvent"

(* A listener may block the event.  An element deleted by one is not called. *)
Listeners ==
  /\ In("listen")
  /\ UNCHANGED <<tree, st, calls, told, press, crashed>>
  /\ \E blocked \in BOOLEAN :
       IF blocked \/ Top.el \notin exists THEN Return(TRUE)
       ELSE Become(Frame("event", Top.el, Top.el, Top.type)) /\ UNCHANGED result

(* OnEvent has said whether it handled the event: if not, the event goes on to
   event_destination, which a deleted element does not have any more. *)
OnEvent ==
  /\ In("event")
  /\ \E handled \in BOOLEAN :
       \/ /\ handled /\ Return(TRUE)
          /\ UNCHANGED <<tree, st, calls, told, press, crashed>>
       \/ ~handled /\ Top.at \notin exists /\ Crash("OnEvent")
       \/ /\ ~handled /\ Top.at \in exists
          /\ IF Parent(Top.at) = NULL THEN Return(FALSE)
             ELSE Become([Top EXCEPT !.at = Parent(Top.at)]) /\ UNCHANGED result
          /\ UNCHANGED <<tree, st, calls, told, press, crashed>>

(* Mutant: told whatever the handlers of the old one did *)
OnFocusChangedAnyway ==
  /\ In("unfocused")
  /\ told' = IF Top.el \in exists THEN told \cup {Top.el} ELSE told
  /\ Become([Top EXCEPT !.op = "focused"])
  /\ UNCHANGED <<tree, st, result, calls, press, crashed>>

(* After OnFocusChanged(false): the new element is told if it still has it. *)
OnFocusChanged ==
  /\ In("unfocused")
  /\ IF st.focused = Top.el
     THEN /\ told' = told \cup {Top.el}
          /\ Become([Top EXCEPT !.op = "focused"]) /\ UNCHANGED result
     ELSE Return(TRUE) /\ UNCHANGED told
  /\ UNCHANGED <<tree, st, calls, press, crashed>>

FocusDone ==
  /\ In("focused") /\ Return(TRUE)
  /\ UNCHANGED <<tree, st, calls, told, press, crashed>>

-----------------------------------------------------------------------------
(* The pointer goes down *)

(* The first button captures what is under the pointer.  A started scroller
   above it is stopped, for which the touch was: it makes no click.  Then the
   element, or the nearest one that takes it, is focused. *)
InvokePointerDown(pos, touch) ==
  /\ Idle
  /\ LET first == st.captured = NULL
         e == IF first THEN GetElementAt(pos) ELSE st.captured
         set == SetHoveredElement(SetCapturedElement(st, e, FALSE), e)
         timed == [set EXCEPT !.long_click = IF touch /\ e \in LongClickable THEN {e} ELSE @]
         down == IF first THEN timed ELSE st
         scroller == FindStartedScroller(down, e)
         quiet == scroller # NULL
         s == IF quiet THEN Stop([down EXCEPT !.cancel_click = TRUE], scroller) ELSE down
         focus == Nearest(e, {a \in exists : a = s.focused \/ TakesFocus(a)})
     IN  /\ press' = IF first THEN [el |-> e, quiet |-> quiet]
                     ELSE [press EXCEPT !.quiet = @ \/ quiet]
         /\ IF e = NULL THEN st' = s /\ UNCHANGED <<stack, told>>
            ELSE IF focus \in {NULL, s.focused}
            THEN st' = s /\ stack' = <<Frame("down", NULL, NULL, "any")>> /\ UNCHANGED told
            ELSE SetFocus(s, <<Frame("down", NULL, NULL, "any")>>, focus)
  /\ UNCHANGED <<tree, result, calls, crashed>>

(* What the callbacks left captured gets the event. *)
PointerDown ==
  /\ In("down")
  /\ IF st.captured = NULL THEN Return(FALSE)
     ELSE InvokeEvent(Front(stack), st.captured, "any") /\ UNCHANGED result
  /\ UNCHANGED <<tree, st, calls, told, press, crashed>>

-----------------------------------------------------------------------------
(* The pointer goes up: kPointerUp, then a click if the element is still
   captured and under the pointer, then the end of the capture. *)

InvokePointerUp(pos) ==
  /\ Idle /\ st.captured # NULL
  /\ stack' = <<Frame("up", st.captured, pos, "any"), Frame("listen", st.captured, NULL, "any")>>
  /\ UNCHANGED <<tree, st, result, calls, told, press, crashed>>

Clicks(pos) == ~st.cancel_click /\ st.captured # NULL /\ GetHitStatus(st.captured, pos)

PointerUp ==
  /\ In("up")
  /\ IF Clicks(Top.at) THEN Invoke(Front(stack), "release", st.captured, "click")
     ELSE Become(Frame("release", NULL, NULL, "any"))
  /\ UNCHANGED <<tree, st, result, calls, told, press, crashed>>

Release ==
  /\ In("release") /\ Return(TRUE)
  /\ \E fast \in BOOLEAN : st' = SetCapturedElement(st, NULL, fast)
  /\ press' = [el |-> NULL, quiet |-> FALSE]
  /\ UNCHANGED <<tree, calls, told, crashed>>

-----------------------------------------------------------------------------
(* Timers *)

(* The message of a LongClickTimer *)
MaybeInvokeLongClickOrContextMenu(e) ==
  /\ Idle /\ e \in st.long_click
  /\ st' = [st EXCEPT !.long_click = @ \ {e}]
  /\ IF st.captured = e /\ Clicks(st.pointer_move)
     THEN Invoke(<<>>, "long_click", e, "long_click") ELSE UNCHANGED stack
  /\ UNCHANGED <<tree, result, calls, told, press, crashed>>

Suppress == st' = [st EXCEPT !.cancel_click = TRUE] /\ press' = [press EXCEPT !.quiet = TRUE]

(* A long click nobody handled is a context menu, of the element that is
   captured now; one of them handled makes no click. *)
LongClicked ==
  /\ In("long_click")
  /\ \/ /\ result /\ Suppress /\ Return(TRUE)
        /\ UNCHANGED <<tree, calls, told, crashed>>
     \/ /\ ~result /\ st.captured # NULL
        /\ Invoke(Front(stack), "context", st.captured, "any")
        /\ UNCHANGED <<tree, st, result, calls, told, press, crashed>>
     \/ /\ ~result /\ st.captured = NULL /\ Crash("MaybeInvokeLongClickOrContextMenu")

ContextMenu ==
  /\ In("context") /\ Return(result)
  /\ IF result THEN Suppress ELSE UNCHANGED <<st, press>>
  /\ UNCHANGED <<tree, calls, told, crashed>>

(* The message "auto_click" of a button that is held down *)
AutoClick(e) ==
  /\ Idle /\ st.auto_click[e] > 0
  /\ IF st.captured # e THEN Crash("OnMessageReceived")
     ELSE /\ IF Clicks(st.pointer_move)
             THEN Invoke(<<>>, "auto_click", e, "click") /\ st' = DeleteMessage(st, e)
             ELSE UNCHANGED <<st, stack>>
          /\ UNCHANGED <<tree, result, calls, told, press, crashed>>

(* The button posts the next one, whatever became of it and of the capture. *)
AutoClicked ==
  /\ In("auto_click")
  /\ IF Top.el \notin exists THEN Crash("PostMessageDelayed")
     ELSE /\ st' = [Post(st, Top.el) EXCEPT !.late = IF st.captured = Top.el THEN @ ELSE @ \cup {Top.el}]
          /\ Return(TRUE)
          /\ UNCHANGED <<tree, calls, told, press, crashed>>

(* A moving scroller has come to its end. *)
ScrollEnds(e) ==
  /\ Idle /\ e \in st.scrolling
  /\ st' = Stop(st, e)
  /\ UNCHANGED <<tree, stack, result, calls, told, press, crashed>>

-----------------------------------------------------------------------------
(* The pointer moves, or its wheel *)

Pointed(s) == IF s.captured # NULL THEN s.captured ELSE s.hovered

Hover(pos) ==
  LET s == SetHoveredElement(st, GetElementAt(pos))
  IN  /\ Idle /\ st' = [s EXCEPT !.pointer_move = IF Pointed(s) = NULL THEN @ ELSE pos]
      /\ UNCHANGED <<tree, result, calls, told, press, crashed>>

InvokePointerMove(pos) ==
  /\ Hover(pos)
  /\ IF Pointed(st') = NULL THEN UNCHANGED stack ELSE Invoke(<<>>, "move", Pointed(st'), "any")

InvokeWheel(pos) ==
  /\ Hover(pos)
  /\ IF Pointed(st') = NULL THEN UNCHANGED stack ELSE InvokeEvent(<<>>, Pointed(st'), "any")

(* HandlePanningOnMove: beyond the threshold there is no long click any more,
   and once the scroller moves there is no click. *)
HandlePanningOnMove ==
  LET e == st.captured
      still == [st EXCEPT !.long_click = @ \ {e}]
      scroller == GetReadyScroller(st, e)
  IN  \E far, moved \in BOOLEAN :
        IF e = NULL \/ ~(far \/ e \in st.panning) THEN UNCHANGED <<st, press>>
        ELSE IF scroller = NULL THEN st' = still /\ UNCHANGED press
        ELSE /\ st' = [still EXCEPT !.started = @ \cup {scroller},
                                    !.panning = IF moved THEN @ \cup {e} ELSE @,
                                    !.cancel_click = @ \/ moved]
             /\ press' = [press EXCEPT !.quiet = @ \/ moved]

Moved ==
  /\ In("move") /\ Return(result)
  /\ IF result THEN UNCHANGED <<st, press>> ELSE HandlePanningOnMove
  /\ UNCHANGED <<tree, calls, told, crashed>>

-----------------------------------------------------------------------------
(* Keys: space and enter click the focused element, tab moves the focus. *)

(* The state is pressed while the key is down, unless it was before. *)
EmulatePress(down) ==
  LET had == IF down /\ st.check_pressed THEN st.focused \in st.pressed ELSE st.had_pressed
      on(set) == IF had THEN set ELSE IF down THEN set \cup {st.focused} ELSE set \ {st.focused}
  IN  [st EXCEPT !.had_pressed = had, !.check_pressed = ~down,
                 !.pressed = on(@), !.key_pressed = on(@)]

InvokeKey(key, down) ==
  /\ Idle
  /\ LET e == st.focused
         clicks == key = "enter" /\ e \in ClickByKey /\ is_enabled(e) /\ e \notin dying
     IN  IF e = NULL
         THEN /\ key = "tab" /\ down
              /\ stack' = <<Frame("tab", NULL, NULL, "any")>> /\ result' = FALSE
              /\ UNCHANGED st
         ELSE IF clicks
         THEN /\ st' = EmulatePress(down) /\ UNCHANGED result
              /\ IF down THEN UNCHANGED stack ELSE InvokeEvent(<<>>, e, "click")
         ELSE /\ UNCHANGED <<st, result>>
              /\ IF key = "tab" /\ down THEN Invoke(<<>>, "tab", e, "any") ELSE InvokeEvent(<<>>, e, "any")
  /\ UNCHANGED <<tree, calls, told, press, crashed>>

(* A tab that nothing handled *)
TabPressed ==
  /\ In("tab")
  /\ LET to == MoveFocusTarget
     IN  IF ~result /\ to # NULL
         THEN SetFocus(st, Front(stack), to) /\ UNCHANGED result
         ELSE Return(result) /\ UNCHANGED <<st, told>>
  /\ UNCHANGED <<tree, calls, press, crashed>>

-----------------------------------------------------------------------------
(* What the program may do in a callback, or between two events *)

Callback == \/ Idle
            \/ In("listen") \/ In("event") \/ In("focused")
            \/ In("unfocused") /\ Top.at # NULL

Call == Callback /\ calls > 0 /\ calls' = calls - 1

(* ~Element: the statics, timers, scroller and messages of the subtree go. *)
Gone(set) ==
  LET keep(e) == IF e \in set THEN NULL ELSE e
  IN  /\ exists' = exists \ set
      /\ dying' = dying \ set /\ disabled' = disabled \ set /\ invisible' = invisible \ set
      /\ told' = told \ set
      /\ st' = [st EXCEPT !.hovered = keep(@), !.captured = keep(@), !.focused = keep(@),
                          !.long_click = @ \ set, !.panning = @ \ set,
                          !.auto_click = [e \in Element |-> IF e \in set THEN 0 ELSE @[e]],
                          !.started = @ \ set, !.scrolling = @ \ set,
                          !.pressed = @ \ set, !.key_pressed = @ \ set]

(* RemoveChild(e), and for Die the destructor as well *)
Unlink(e) == [p \in Element |-> Without(children[p], {e})]

Delete(e) == LET set == Deep(e)
             IN  Gone(set) /\ children' = [p \in Element |-> IF p \in set THEN <<>> ELSE Unlink(e)[p]]

Detach(e, and_delete) == IF and_delete THEN Delete(e)
                         ELSE children' = Unlink(e) /\ UNCHANGED <<exists, dying, disabled, invisible, st, told>>

(* A focused child hands the focus on before it is removed, unless the parent
   is being deleted itself. *)
HandsOn(e) == e = st.focused /\ Parent(e) # NULL /\ Parent(e) \notin dying /\ MoveFocusTarget # NULL

BeginRemove(e, and_delete) ==
  IF HandsOn(e)
  THEN /\ SetFocus(st, Append(stack, Frame("remove", e, Parent(e), IF and_delete THEN "delete" ELSE "remove")),
                   MoveFocusTarget)
       /\ UNCHANGED <<children, exists, disabled, invisible>>
       /\ dying' = IF and_delete THEN dying \cup {e} ELSE dying
  ELSE Detach(e, and_delete) /\ UNCHANGED stack

(* What the focus left and entered may have removed it, or the parent *)
EndRemove ==
  /\ In("remove")
  /\ IF Top.el \notin exists \/ Top.at \notin exists \/ Parent(Top.el) # Top.at THEN Crash("RemoveChild")
     ELSE /\ Detach(Top.el, Top.type = "delete")
          /\ Return(FALSE) /\ UNCHANGED <<calls, press, crashed>>

(* Die: a listener that is interested keeps the element and deletes it later. *)
Die(e, kept) ==
  /\ Call /\ e \in exists \ (dying \cup {Root})
  /\ IF kept THEN dying' = dying \cup {e}
                  /\ UNCHANGED <<children, exists, disabled, invisible, st, stack, told>>
     ELSE BeginRemove(e, TRUE)
  /\ UNCHANGED <<result, press, crashed>>

(* The listener that kept it has finished. *)
FinishDying(e) ==
  /\ Idle /\ e \in dying
  /\ BeginRemove(e, TRUE)
  /\ UNCHANGED <<result, calls, press, crashed>>

RemoveChild(e) ==
  /\ Call /\ e \in exists \ {Root} /\ Parent(e) # NULL
  /\ BeginRemove(e, FALSE)
  /\ UNCHANGED <<result, press, crashed>>

(* What was removed may be added again. *)
AddChild(e) ==
  /\ Callback /\ e \in exists \ {Root} /\ Parent(e) = NULL
  /\ children' = [children EXCEPT ![Root] = Append(@, e)]
  /\ UNCHANGED <<exists, dying, disabled, invisible, st, stack, result, calls, told, press, crashed>>

(* set_z(kTop) *)
Raise(e) ==
  /\ Call /\ e \in exists /\ Parent(e) # NULL /\ Last(children[Parent(e)]) # e
  /\ children' = [Unlink(e) EXCEPT ![Parent(e)] = Append(@, e)]
  /\ UNCHANGED <<exists, dying, disabled, invisible, st, stack, result, told, press, crashed>>

SetState(e) ==
  /\ Call /\ e \in exists \ {Root}
  /\ disabled' = IF e \in disabled THEN disabled \ {e} ELSE disabled \cup {e}
  /\ UNCHANGED <<children, exists, dying, invisible, st, stack, result, told, press, crashed>>

SetVisibility(e) ==
  /\ Call /\ e \in exists \ {Root}
  /\ invisible' = IF e \in invisible THEN invisible \ {e} ELSE invisible \cup {e}
  /\ UNCHANGED <<children, exists, dying, disabled, st, stack, result, told, press, crashed>>

ReleaseCapture ==
  /\ Call /\ st.captured # NULL
  /\ \E fast \in BOOLEAN : st' = SetCapturedElement(st, NULL, fast)
  /\ UNCHANGED <<tree, stack, result, told, press, crashed>>

set_focus(e) ==
  /\ Call /\ e \in exists /\ e # st.focused /\ TakesFocus(e)
  /\ SetFocus(st, stack, e)
  /\ UNCHANGED <<tree, result, press, crashed>>

(* A button whose value is on looks pressed. *)
set_value(e) ==
  /\ Call /\ e \in exists \cap ClickByKey
  /\ st' = [st EXCEPT !.pressed = IF e \in @ THEN @ \ {e} ELSE @ \cup {e}]
  /\ UNCHANGED <<tree, stack, result, told, press, crashed>>

-----------------------------------------------------------------------------
Init ==
  /\ children = Tree /\ exists = Element
  /\ dying = {} /\ disabled = {} /\ invisible = {}
  /\ st = [hovered |-> NULL, captured |-> NULL, focused |-> NULL,
           cancel_click |-> FALSE,
           pointer_move |-> CHOOSE p \in Position : TRUE,   \* pointer_move_element_x, _y
           long_click |-> {},                  \* the elements with a LongClickTimer
           auto_click |-> [e \in Element |-> 0],   \* how many messages "auto_click" a button has
           late |-> {},                        \* ghost: the buttons that posted one when they were not captured
           panning |-> {},                     \* is_panning
           started |-> {}, scrolling |-> {},   \* started and moving scrollers
           pressed |-> {}, key_pressed |-> {}, \* State::kPressed, has_key_pressed_state
           check_pressed |-> TRUE, had_pressed |-> FALSE]   \* the statics of InvokeKey
  /\ stack = <<>> /\ result = FALSE /\ calls = Calls
  /\ told = {} /\ press = [el |-> NULL, quiet |-> FALSE] /\ crashed = ""

Input ==
  \/ \E pos \in Position :
       \/ \E touch \in BOOLEAN : InvokePointerDown(pos, touch)
       \/ InvokePointerUp(pos)
       \/ InvokePointerMove(pos)
       \/ InvokeWheel(pos)
  \/ \E key \in {"tab", "enter", "other"}, down \in BOOLEAN : InvokeKey(key, down)
  \/ \E e \in Element : \/ MaybeInvokeLongClickOrContextMenu(e)
                        \/ AutoClick(e)
                        \/ ScrollEnds(e)
                        \/ FinishDying(e)

Step ==
  \/ Listeners \/ OnEvent \/ OnFocusChanged \/ FocusDone
  \/ PointerDown \/ PointerUp \/ Release \/ LongClicked \/ ContextMenu
  \/ AutoClicked \/ Moved \/ TabPressed \/ EndRemove

Program ==
  \/ \E e \in Element :
       \/ \E kept \in BOOLEAN : Die(e, kept)
       \/ RemoveChild(e)
       \/ AddChild(e)
       \/ Raise(e)
       \/ SetState(e)
       \/ SetVisibility(e)
       \/ set_focus(e)
       \/ set_value(e)
  \/ ReleaseCapture

Next == Input \/ Step \/ Program

Spec == Init /\ [][Next]_vars

-----------------------------------------------------------------------------
(* Properties *)

Repeating == {e \in Element : st.auto_click[e] > 0}

(* What the calls and the destructors leave for the next call never names an
   element that was deleted, whatever handlers do, and no call reaches one but
   in four places that do not look again after they called out: OnEvent of an
   element that deleted itself and did not say "handled", a long click whose
   handler ended the capture, a repeated click whose handler deleted the button
   or, at the next message, ended the capture, and a removal whose child or
   parent the focus handlers removed. *)
CallsReachElements ==
  /\ crashed \in {"", "OnEvent", "MaybeInvokeLongClickOrContextMenu", "PostMessageDelayed",
                  "OnMessageReceived", "RemoveChild"}
  /\ crashed = "OnMessageReceived" => \E e \in st.late \ {st.captured} : st.auto_click[e] > 0
  /\ {st.hovered, st.captured, st.focused} \subseteq exists \cup {NULL}
  /\ st.long_click \cup Repeating \cup st.started \cup st.panning \subseteq exists

(* Violated.  "NOTE: remember that this elements may be deleted after this call!
   So if you really must do something after this call [...] use
   WeakElementPointer" (element.h:979): Button::OnMessageReceived posts to
   itself after it, and MaybeInvokeLongClickOrContextMenu uses captured_element
   after it (element.cc:1602). *)
CallersLookAgain == crashed \notin {"PostMessageDelayed", "MaybeInvokeLongClickOrContextMenu"}

(* A pending long click or repeated click is of the captured element, and there
   is one at most: the timers end with the capture (SetCapturedElement,
   ~Element).  The exception are buttons that posted the next repeated click
   after the handler of the last one had ended the capture. *)
TimersFollowCapture ==
  /\ st.long_click \subseteq {st.captured}
  /\ \A e \in Element \ st.late : st.auto_click[e] <= (IF e = st.captured THEN 1 ELSE 0)

(* Violated.  "assert(captured_element == this)" (button.cc:106): the message
   posted after the capture ended is delivered all the same. *)
RepeatsWhileCaptured == \A e \in Element : st.auto_click[e] > 0 => e = st.captured

(* Between two events the element that was last told it has the focus is the
   one that has it, though handlers move the focus while it moves, and only
   that one can be pressed by a key (set_focus). *)
FocusToldAgrees ==
  /\ stack = <<>> => told = {st.focused} \ {NULL}
  /\ st.key_pressed \subseteq {st.focused}

(* After kPointerUp the click goes to the element the pointer went down on, if
   it is still captured and under the pointer, and exactly if no long click or
   context menu was handled, nothing panned and no scroller was stopped by
   the touch (event.h:26 to 38, InvokePointerUp). *)
ClickFollowsPress ==
  [][In("up") /\ ~In("up")' =>
       LET clicked == In("listen")' /\ Top'.type = "click"
       IN  /\ clicked <=> /\ st.captured # NULL /\ ~press.quiet
                          /\ GetHitStatus(st.captured, Top.at)
           /\ clicked => Top'.el = press.el]_vars
=============================================================================
