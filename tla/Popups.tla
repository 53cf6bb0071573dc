------------------------------- MODULE Popups -------------------------------
(***************************************************************************)
(* The windows that come and go above an application: pop-ups, menus and   *)
(* sub menus, the menu of a drop-down button, message and modal forms with *)
(* their dimmers, and tooltips, with the animations that fade them in, and *)
(* out when they close, after which they are deleted                       *)
(* (src/el/elements/popup_form.cc, menu_form.cc, drop_down_button.cc,      *)
(* message_form.cc, modal_form.cc, dimmer.cc, src/el/list_item.cc,         *)
(* tooltip_manager.cc, element_animation.cc, element_animation_manager.cc).*)
(*                                                                         *)
(* A window is an object that may be made anew after it was deleted, which *)
(* is then, as for the allocator, the same address.                        *)
(*                                                                         *)
(* The application has a form of its own, below.  It and message and modal *)
(* forms are activated in turn, with which the focus moves (form.cc), and  *)
(* where the focus moves pop-ups close.  The tooltip manager hears of      *)
(* events only: when the program moves the focus, or the end of a fade-out *)
(* does, it does not hear that its tooltip closed.                         *)
(***************************************************************************)
EXTENDS Lists

CONSTANTS Element,       \* elements of the application, and in windows
          Window, NULL,
          Parent,        \* the parent of an element: an element, a window, or NULL
          Tooltip,       \* windows that are a TooltipForm
          Popup,         \* windows that are a PopupForm, tooltips as well
          Dimmed,        \* message and modal forms
          Target,        \* the target of a window that is not a tooltip, or NULL
          Contents,      \* an element in each window: its list or its button
          Tipped,        \* elements with a tooltip text
          Hover,         \* elements the pointer moves to without a press, or NULL
          DropDown, DropMenu,   \* a drop-down button and its menu
          Main,          \* the form of the application
          Fields         \* the focusable elements of a form in document order

VARIABLES ui,       \* [z: the windows in the root, their dimmers and Main, in their order;
                    \*  dying: windows that die;
                    \*  target: m_target of each window, NULL when it was deleted;
                    \*  dimmers, dimmers_dying: windows whose dimmer exists, and is dying;
                    \*  anims: animations as <<window or its dimmer, "in" or "out">>;
                    \*  active: forms with State::kSelected;
                    \*  last: last_focus_element_ of each form;
                    \*  focus: focused_element;
                    \*  moved: it changed since the tooltip manager last looked]
          present,  \* elements of the application that exist
          hovered,  \* hovered_element, where that has a tooltip or is in what has one
          tip,      \* the TooltipManager: [m_tooltip, m_last_tipped_element,
                    \*  show, hide: what its messages are about]
          crashed   \* it went to a tooltip that was deleted

vars == <<ui, present, hovered, tip, crashed>>

-----------------------------------------------------------------------------
(* Who is in what *)

Forms == Window \cup {Main}
Activable == Dimmed \cup {Main}     \* FormSettings::kCanActivate
Shown(u) == ToSet(u.z) \cap Window
DimmerOf(w) == <<w, "dimmer">>
Parents(x) == IF x \in Window THEN NULL ELSE Parent[x]

(* What is reached from some by next, which leads from one to several: the least
   set with these that it does not lead out of *)
Reached(from, next, within) ==
  LET more == {set \in SUBSET (within \ from) : \A y \in from \cup set : next[y] \subseteq from \cup set}
  IN  IF \A y \in from : next[y] \subseteq from THEN from
      ELSE from \cup {x \in within : \A set \in more : x \in set}

(* An element, its ancestors, and the window they are in *)
Ancestry ==
  LET up == [x \in Element \cup Window |-> {Parents(x)} \ {NULL}]
  IN  [x \in Element \cup Window \cup {NULL} |-> Reached({x} \ {NULL}, up, Element \cup Window)]
Inside(e) == Ancestry[e]
Windows == [x \in DOMAIN Ancestry |-> Ancestry[x] \cap Window]

(* event_destination: a pop-up or a message form sends events to its target.
   These are the windows that events for e go through. *)
Destinations(u, e) ==
  LET to == [w \in Window |-> Windows[u.target[w]]]
  IN  Reached(Windows[e], to, Window)

(* What is in a tooltip is a text that has no tooltip and opens nothing. *)
ASSUME PopupsAssumption ==
  /\ Element \cap Window = {} /\ NULL \notin Element \cup Window
  /\ \A w \in Window : DimmerOf(w) \notin Element \cup Window
  /\ Parent \in [Element -> Element \cup Window \cup {NULL}]
  /\ Tooltip \subseteq Popup /\ Popup \cup Dimmed = Window /\ Popup \cap Dimmed = {}
  /\ Target \in [Window \ Tooltip -> Element \cup {NULL}]
  /\ Contents \in [Window -> Element] /\ \A w \in Window : Parent[Contents[w]] = w
  /\ Tipped \subseteq Element /\ Hover \subseteq Element \cup {NULL} /\ DropDown \in Element
  /\ DropMenu \in Popup \ Tooltip /\ Target[DropMenu] = DropDown
  /\ \A e \in Tipped \cup {Target[w] : w \in Window \ Tooltip} : Inside(e) \cap Tooltip = {}
  /\ Main \notin Element \cup Window \cup {NULL} /\ \A w \in Window : Main # DimmerOf(w)
  /\ Fields \in [Forms -> Seq(Element)] /\ \A w \in Tooltip : Fields[w] = <<>>
  /\ \A f \in Forms : \A i \in DOMAIN Fields[f] : Windows[Fields[f][i]] = {f} \ {Main}

FormOf(e) == IF Windows[e] = {} THEN Main ELSE CHOOSE w \in Windows[e] : TRUE

Exists(e) == IF Windows[e] = {} THEN e \in present ELSE Windows[e] \subseteq Shown(ui)

(* What is below a dimmer is not hit, nor what is dying. *)
Reachable(e) ==
  /\ Exists(e) /\ Inside(e) \cap ui.dying = {}
  /\ \A w \in ui.dimmers \ ui.dimmers_dying : \A i, j \in DOMAIN ui.z :
       ui.z[i] = FormOf(e) /\ ui.z[j] = DimmerOf(w) => i > j

(* The nearest of some elements that e is in *)
Nearest(e, some) ==
  LET around == Inside(e) \cap some
  IN  IF around = {} THEN NULL ELSE CHOOSE x \in around : \A y \in around : y \in Inside(x)

-----------------------------------------------------------------------------
(* Closing *)

(* Windows that begin to die, or whose target is in what does, and so on for
   those whose target is in them *)
Hanging(u, from) ==
  LET first == {w \in Shown(u) : w \in from \/ Inside(u.target[w]) \cap from # {}}
      next  == [v \in Shown(u) |-> {w \in Shown(u) : v \in Inside(u.target[w])}]
  IN  Reached(first, next, Shown(u))

(* ElementAnimationManager::OnElementDying keeps what dies until it is faded out. *)
FadeOut(u, objects) == [u EXCEPT !.anims = @ \cup {<<o, "out">> : o \in objects}]

(* MessageForm::OnDie, ModalForm::OnDie *)
OnDie(u, closing) ==
  LET dimmed == closing \cap u.dimmers
  IN  FadeOut([u EXCEPT !.dimmers_dying = @ \cup dimmed], {DimmerOf(w) : w \in dimmed})

(* Mutant: the dimmer is left *)
CloseUndimmed(u, from) ==
  LET closing == Hanging(u, from) \ u.dying
  IN  FadeOut([u EXCEPT !.dying = @ \cup closing], closing)

(* Die of every window that hangs on from *)
Close(u, from) ==
  LET closing == Hanging(u, from) \ u.dying
  IN  OnDie(FadeOut([u EXCEPT !.dying = @ \cup closing], closing), closing)

(* ElementAnimationManager::OnElementDelete *)
AbortAnimations(u, objects) == [u EXCEPT !.anims = {a \in @ : a[1] \notin objects}]

(* ~MessageForm, ~ModalForm *)
DeleteDimmers(u, gone) ==
  AbortAnimations([u EXCEPT !.z = Without(@, {DimmerOf(w) : w \in gone}),
                            !.dimmers = @ \ gone, !.dimmers_dying = @ \ gone], {DimmerOf(w) : w \in gone})

(* Windows that stay and whose target is deleted: so also an item closes its
   sub menu (CloseSubMenu). *)
Targeting(u, set) == {w \in Shown(u) \ set : Inside(u.target[w]) \cap set # {}}

(* The focus, and what forms remember of it, when these are deleted *)
Unless(e, set) == IF Inside(e) \cap set # {} THEN NULL ELSE e
Forget(u, set) == [u EXCEPT !.active = @ \ set, !.focus = Unless(@, set),
                            !.last = [f \in Forms |-> Unless(@[f], set)]]

(* Mutant: windows forget a target that is deleted, and stay *)
DeletedLeft(u, set) ==
  LET gone == set \cap Window
  IN  [DeleteDimmers(AbortAnimations(Forget(u, set), set), gone)
         EXCEPT !.z = Without(@, gone), !.dying = @ \ set,
                !.target = [w \in Window |-> IF w \in gone \/ Inside(@[w]) \cap set # {} THEN NULL ELSE @[w]]]

(* The destructors of these windows or elements: weak pointers to them are
   cleared, and windows that so lose their target close (OnElementDelete). *)
Deleted(u, set) ==
  LET gone == set \cap Window
      hit == Targeting(u, set)
  IN  Close([DeleteDimmers(AbortAnimations(Forget(u, set), set), gone)
               EXCEPT !.z = Without(@, gone), !.dying = @ \ set,
                      !.target = [w \in Window |-> IF w \in hit \cup gone THEN NULL ELSE @[w]]], hit)

(* OnElementFocusChanged, OnElementInvokeEvent: the pop-ups that the new focus,
   or an event, does not go through close. *)
Unrelated(u, e) == (Popup \cap Shown(u)) \ Destinations(u, e)
CloseUnrelated(u, e) == Close(u, Unrelated(u, e))

-----------------------------------------------------------------------------
(* Focus and activation.  Elements are enabled and visible. *)

Accepts(u, e) ==
  /\ e \in ToSet(Fields[FormOf(e)]) /\ Inside(e) \cap u.dying = {}
  /\ Windows[e] = {} => e \in present

(* The form may be inactive: then the element is focused when it is activated. *)
set_focus(u, e) ==
  LET f == FormOf(e)
      remembered == [u EXCEPT !.last[f] = e]
  IN  IF u.focus = e \/ ~Accepts(u, e) THEN u
      ELSE IF f \in Activable \ u.active THEN remembered
      ELSE CloseUnrelated([remembered EXCEPT !.focus = e, !.moved = TRUE], e)

(* The first of a sequence of elements that accepts the focus gets it. *)
FocusFirst(u, seq) ==
  LET first == FirstOf(Without(seq, {e \in Element : ~Accepts(u, e)}), NULL)
  IN  IF first = NULL THEN u ELSE set_focus(u, first)

EnsureFocus(u, f) ==
  IF u.focus # NULL /\ FormOf(u.focus) = f THEN u
  ELSE FocusFirst(u, (IF u.last[f] = NULL THEN <<>> ELSE <<u.last[f]>>) \o Fields[f])

(* MoveFocus, from e to the next element of its form that accepts, but not to
   those in out *)
MoveFocusFrom(u, e, out) ==
  LET fields == Fields[FormOf(e)]
      at == CHOOSE i \in 1..Len(fields) : fields[i] = e
  IN  FocusFirst(u, Without(SubSeq(fields, at + 1, Len(fields)) \o SubSeq(fields, 1, at - 1), out))

(* GetTopMostOtherForm(true), which may be dying *)
GetTopMostOtherForm(u, f) ==
  LET others == Without(u.z, {f} \cup {x \in ToSet(u.z) : x \notin Activable})
  IN  IF others = <<>> THEN NULL ELSE others[Len(others)]

Activate(u, f) ==
  IF f \notin Activable THEN u
  ELSE EnsureFocus(IF f \in u.active THEN u
                   ELSE [u EXCEPT !.active = (@ \ {GetTopMostOtherForm(u, f)}) \cup {f},
                                  !.z = Append(Without(@, {f}), f)], f)

(* Form::OnRemove, and ModalForm::OnRemove, which only calls the program back *)
OnRemove(u, w) ==
  LET left == [u EXCEPT !.active = @ \ {w}]
      top  == GetTopMostOtherForm(u, w)
  IN  IF w \in Dimmed /\ Target[w] = NULL THEN u
      ELSE IF top = NULL THEN left
      ELSE Activate(left, top)

-----------------------------------------------------------------------------
(* Opening *)

(* AddChild fades it in and activates it, if it can be; a message or modal form
   comes above a dimmer, and a message form remembers its button (AddButton). *)
FadeIn(u, w) == [u EXCEPT !.anims = @ \cup {<<w, "in">>}]
Opened(u, w, target) ==
  LET added == FadeIn([u EXCEPT !.z = Append(@, w), !.target[w] = target], w)
      first == IF target # NULL /\ Contents[w] \in ToSet(Fields[w]) THEN Contents[w] ELSE NULL
  IN  IF w \in Dimmed
      THEN Activate([added EXCEPT !.z = u.z \o <<DimmerOf(w), w>>, !.dimmers = @ \cup {w}, !.last[w] = first], w)
      ELSE added

-----------------------------------------------------------------------------
(* The tooltip manager *)

GetTippedElement(h) == Nearest(h, Tipped)
Hovered(e) == IF GetTippedElement(e) = NULL THEN NULL ELSE e

(* m_tooltip is a plain pointer. *)
Dangling == tip.m_tooltip \notin Shown(ui) \cup {NULL}

DeleteShowMessages(t) == [t EXCEPT !.show = {}]

(* KillToolTip: Close does nothing when it is dying already. *)
Kill(u, t) == [(IF t.m_tooltip = NULL THEN u ELSE Close(u, {t.m_tooltip})) EXCEPT !.moved = FALSE]

Killed(t) == DeleteShowMessages([t EXCEPT !.m_tooltip = NULL])

(* KillToolTip, where the tooltip was deleted.  Any event but the move of the
   pointer to another tipped element comes to it, and the message that hides
   the tooltip, which waits for as long as it is m_tooltip. *)
Crash ==
  /\ Dangling /\ ~crashed
  /\ crashed' = TRUE
  /\ UNCHANGED <<ui, present, hovered, tip>>

Runs == ~crashed /\ UNCHANGED crashed

(* The message "TooltipManager.show" *)
ShowTooltip(w) ==
  /\ Runs /\ tip.show # {} /\ w \in Tooltip \ Shown(ui)
  /\ \E e \in tip.show :
       IF e = GetTippedElement(hovered) /\ Exists(e)
       THEN /\ ~Dangling
            /\ ui' = Opened(Kill(ui, tip), w, e)
            /\ tip' = [tip EXCEPT !.show = @ \ {e}, !.hide = @ \cup {w}, !.m_tooltip = w]
       ELSE tip' = [tip EXCEPT !.show = @ \ {e}] /\ UNCHANGED ui
  /\ UNCHANGED <<present, hovered>>

(* The message "TooltipManager.hide" *)
HideTooltip(w) ==
  /\ Runs /\ w \in tip.hide
  /\ IF tip.m_tooltip = w
     THEN ~Dangling /\ ui' = Kill(ui, tip) /\ tip' = [tip EXCEPT !.hide = @ \ {w}, !.m_tooltip = NULL]
     ELSE tip' = [tip EXCEPT !.hide = @ \ {w}] /\ UNCHANGED ui
  /\ UNCHANGED <<present, hovered>>

(* kPointerMove while nothing is captured: another tipped element asks for its
   tooltip; far from where it was shown, or over none, it is killed. *)
InvokePointerMove(e) ==
  /\ Runs /\ (e # NULL => Reachable(e))
  /\ hovered' = Hovered(e)
  /\ LET tipped == GetTippedElement(e)
         asks   == tipped # NULL /\ tipped # tip.m_last_tipped_element
     IN  \/ /\ asks
            /\ tip' = [tip EXCEPT !.show = @ \cup {tipped}, !.m_last_tipped_element = tipped] /\ UNCHANGED ui
         \/ /\ ~asks /\ ~Dangling /\ (tipped = NULL \/ tip.m_tooltip # NULL)
            /\ ui' = Kill(ui, tip) /\ tip' = [Killed(tip) EXCEPT !.m_last_tipped_element = tipped]
         \/ ~asks /\ ~Dangling /\ tipped # NULL /\ UNCHANGED <<ui, tip>>
  /\ UNCHANGED present

-----------------------------------------------------------------------------
(* Other events, which leave u: the tooltip goes.  (That it goes before the
   others hear of the event makes no difference to what they do.) *)

Event(u) ==
  /\ Runs /\ ~Dangling
  /\ ui' = Kill(u, tip) /\ tip' = Killed(tip)
  /\ UNCHANGED present

(* The element, or the nearest that it is in and that accepts it, gets the focus. *)
FocusOn(u, e) ==
  LET nearest == Nearest(e, {x \in Inside(e) : Accepts(u, x)})
  IN  IF nearest = NULL THEN u ELSE set_focus(u, nearest)

(* The form comes to the top, the focus comes to what is pressed, and
   kPointerDown closes the pop-ups that it does not go through. *)
PressOn(u, e) == CloseUnrelated(FocusOn(Activate(u, FormOf(e)), e), e)

InvokePointerDown(e) == Reachable(e) /\ Event(PressOn(ui, e)) /\ hovered' = Hovered(e)

(* kContextMenu closes the same pop-ups. *)
InvokeContextMenu(e) == Reachable(e) /\ Event(CloseUnrelated(ui, e)) /\ hovered' = Hovered(e)

(* A click on e, before it is answered, leaves u: by the pointer, with the press
   before it, or by a key when e has the focus. *)
ClickOn(e, u) ==
  \/ Reachable(e) /\ u = PressOn(ui, e) /\ hovered' = Hovered(e)
  \/ ui.focus = e /\ Inside(e) \cap ui.dying = {} /\ u = ui /\ UNCHANGED hovered

(* A click in a window: a menu or a message form passes it on to its target,
   and closes. *)
ClickInside(w) ==
  /\ w \in Shown(ui) \ Tooltip
  /\ \E u \in {ui, PressOn(ui, Contents[w])} : ClickOn(Contents[w], u) /\ Event(Close(u, {w}))

OpenForm(u) == IF DropMenu \in Shown(u) THEN u ELSE Opened(u, DropMenu, DropDown)

(* A click on the drop-down button: opens its menu, or, while that exists even
   if it is dying, takes the value and lets it die. *)
ClickDropDown ==
  /\ Exists(DropDown)
  /\ \E u \in {ui, PressOn(ui, DropDown)} :
       ClickOn(DropDown, u) /\ Event(IF DropMenu \in Shown(u) THEN Close(u, {DropMenu}) ELSE OpenForm(u))

(* A click on an item of a menu that has items of its own opens a menu for
   them, unless there is one, even if that is dying (m_menu); the menu it is in
   does not hear of the click. *)
OpenSubMenu(w) ==
  /\ w \in Popup \ (Tooltip \cup {DropMenu}) /\ w \notin Shown(ui)
  /\ Target[w] # NULL /\ Windows[Target[w]] # {} /\ Reachable(Target[w])
  /\ Event(Opened(PressOn(ui, Target[w]), w, Target[w])) /\ hovered' = Hovered(Target[w])

(* A key goes to the focused element; the drop-down button sends it on to its
   menu.  Escape closes the window it comes to, and Tab moves the focus on. *)
InvokeKey(tab) ==
  /\ ui.focus # NULL
  /\ LET open == {w \in {DropMenu} : ui.focus = DropDown /\ w \in Shown(ui)}
     IN  Event(IF tab THEN MoveFocusFrom(ui, ui.focus, {})
               ELSE Close(ui, IF open # {} THEN open ELSE Windows[ui.focus]))
  /\ UNCHANGED hovered

-----------------------------------------------------------------------------
(* What the program does, in the handler of an event, which the tooltip manager
   heard of, or of a message, of which it does not hear *)

ByProgram(u) == Runs /\ ui' = u /\ UNCHANGED tip

(* It opens a window. *)
Show(w) ==
  /\ w \in Window \ (Tooltip \cup {DropMenu}) /\ w \notin Shown(ui)
  /\ Target[w] # NULL => Reachable(Target[w]) /\ Windows[Target[w]] = {}
  /\ ByProgram(Opened(ui, w, Target[w]))
  /\ UNCHANGED <<present, hovered>>

(* It closes one. *)
FormClose(w) ==
  /\ w \in Shown(ui) \ (Tooltip \cup ui.dying)
  /\ ByProgram(Close(ui, {w}))
  /\ UNCHANGED <<present, hovered>>

(* It moves the focus. *)
SetFocus(e) ==
  /\ Accepts(ui, e) /\ Exists(e) /\ e # ui.focus
  /\ ByProgram(set_focus(ui, e))
  /\ UNCHANGED <<present, hovered>>

(* It deletes an element of the application, or lets it die, which it does at
   once when no listener keeps it.  Either takes the focus away first. *)
RemoveElement(e, dies) ==
  /\ e \in present
  /\ LET set   == {x \in present : e \in Inside(x)}
         u     == IF dies THEN Close(ui, {e}) ELSE ui
         moved == IF u.focus = e THEN MoveFocusFrom(u, e, IF dies THEN set ELSE {}) ELSE u
     IN  /\ ByProgram(Deleted(moved, set))
         /\ present' = present \ set
         /\ hovered' = IF hovered \in set THEN NULL ELSE hovered

-----------------------------------------------------------------------------
(* The animations *)

(* The fade-in of a window ends, with that of its dimmer. *)
FadedIn(w) ==
  /\ Runs /\ <<w, "in">> \in ui.anims
  /\ ui' = [ui EXCEPT !.anims = @ \ {<<w, "in">>}]
  /\ UNCHANGED <<present, hovered, tip>>

(* The fade-out of a dimmer ends. *)
DimmerFadedOut(w) ==
  /\ Runs /\ <<DimmerOf(w), "out">> \in ui.anims
  /\ ui' = [ui EXCEPT !.anims = {a \in @ : a[1] # DimmerOf(w)}, !.z = Without(@, {DimmerOf(w)}),
                      !.dimmers = @ \ {w}, !.dimmers_dying = @ \ {w}]
  /\ UNCHANGED <<present, hovered, tip>>

(* A fade-out of a window ends: it is removed, which may move the focus, and
   deleted. *)
FadedOut(w) ==
  /\ Runs /\ <<w, "out">> \in ui.anims
  /\ ui' = Deleted(OnRemove(ui, w), {w})
  /\ hovered' = IF w \in Inside(hovered) THEN NULL ELSE hovered
  /\ UNCHANGED <<present, tip>>

Animate == \E w \in Window : FadedIn(w) \/ DimmerFadedOut(w) \/ FadedOut(w)

-----------------------------------------------------------------------------
Init ==
  /\ ui = [z |-> <<Main>>, dying |-> {}, target |-> [w \in Window |-> NULL],
           dimmers |-> {}, dimmers_dying |-> {}, anims |-> {},
           active |-> {Main}, last |-> [f \in Forms |-> NULL], focus |-> NULL, moved |-> FALSE]
  /\ present = {e \in Element : Windows[e] = {}}
  /\ hovered = NULL
  /\ tip = [m_tooltip |-> NULL, m_last_tipped_element |-> NULL, show |-> {}, hide |-> {}]
  /\ crashed = FALSE

Next ==
  \/ \E w \in Window : Show(w) \/ FormClose(w) \/ OpenSubMenu(w) \/ ShowTooltip(w) \/ HideTooltip(w) \/ ClickInside(w)
  \/ \E e \in Element : SetFocus(e) \/ InvokePointerDown(e) \/ InvokeContextMenu(e)
                        \/ \E dies \in BOOLEAN : RemoveElement(e, dies)
  \/ \E e \in Hover : InvokePointerMove(e)
  \/ \E tab \in BOOLEAN : InvokeKey(tab)
  \/ ClickDropDown
  \/ Animate
  \/ Crash

Spec == Init /\ [][Next]_vars

-----------------------------------------------------------------------------
(* Properties *)

(* A pop-up or message form that is not closing has its target, and unless it
   is a tooltip neither that nor what it is in is dying (OnElementDying,
   OnElementDelete). *)
OpenOnTarget ==
  \A w \in Shown(ui) \ ui.dying :
    /\ w \in Tooltip \/ Target[w] # NULL => ui.target[w] # NULL
    /\ ui.target[w] # NULL => /\ Exists(ui.target[w])
                              /\ w \in Tooltip \/ Inside(ui.target[w]) \cap ui.dying = {}

(* The target of a window is gone, or goes. *)
Lost(u, w) == u.target[w] = NULL \/ Inside(u.target[w]) \cap u.dying # {}

(* The background is dimmed exactly while a message or modal form is open; what
   is closing, and its dimmer, has the animation that ends it, and no animation
   is left of what was deleted; the tooltip of the manager is open, unless its
   target is lost or the focus moved since the manager last looked (OnDie,
   ~MessageForm, ~ModalForm, OnElementDying, OnElementDelete, KillToolTip). *)
NothingLeftBehind ==
  /\ ui.dimmers \ ui.dimmers_dying = (Dimmed \cap Shown(ui)) \ ui.dying
  /\ ui.dying \cup {DimmerOf(w) : w \in ui.dimmers_dying} = {a[1] : a \in {b \in ui.anims : b[2] = "out"}}
  /\ \A a \in ui.anims : a[1] \in Shown(ui) \cup {DimmerOf(w) : w \in ui.dimmers}
  /\ tip.m_tooltip # NULL => tip.m_tooltip \in Shown(ui) \ ui.dying \/ ui.moved \/ Lost(ui, tip.m_tooltip)

(* "Remember that the element may still be deleted prematurely for many other
   reasons" (element_listener.h, of OnElementDying): the tooltip manager goes to
   no tooltip that was deleted.  It keeps m_tooltip, a plain pointer, when the
   focus moves, which closes the tooltip, without an event. *)
TooltipAlive == ~crashed

(* Items outlive the lists that show them: "This source needs to live longer
   than this observer" (list_item.h), asserted in ~ListItemSource.  The source
   of a drop-down menu is a member of the button. *)
SourceOutlivesMenu == DropDown \notin present => DropMenu \notin Shown(ui)
=============================================================================
