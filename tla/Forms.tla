------------------------------- MODULE Forms --------------------------------
(***************************************************************************)
(* Forms under the root element, their activation and the keyboard focus   *)
(* (src/el/elements/form.cc, modal_form.cc and the focus, removal, dying   *)
(* and input handlers of src/el/element.cc).  A form holds focusable       *)
(* fields; it is added on top and active, is activated by clicks, and when *)
(* closed stays while it fades out, dying, until it is removed and         *)
(* deleted, which activates the top form left.                             *)
(*                                                                         *)
(* Every action is one call from the main loop.  What the functions it     *)
(* calls do to forms and focus one after the other are operators on ui.    *)
(***************************************************************************)
EXTENDS Lists

CONSTANTS Form, Field, NULL,
          Fields,          \* the fields of each form in document order
          CanActivate,     \* forms with FormSettings::kCanActivate
          Modal            \* forms that are a ModalForm

FormOf(x) == CHOOSE f \in Form : x \in ToSet(Fields[f])

ASSUME FormsAssumption ==
  /\ NULL \notin Form \cup Field
  /\ Fields \in [Form -> Seq(Field)]
  /\ \A x \in Field : \E f \in Form : x \in ToSet(Fields[f])
  /\ \A f, g \in Form : f # g => ToSet(Fields[f]) \cap ToSet(Fields[g]) = {}
  /\ \A f \in Form : IsInjective(Fields[f])
  /\ CanActivate \subseteq Form /\ Modal \subseteq Form

VARIABLES ui,          \* [z: the forms in the root, the top one last;
                       \*  active: those with State::kSelected;
                       \*  last_focus: last_focus_element_ of each form;
                       \*  focused: focused_element]
          dying,       \* forms that are dying
          deleted,     \* fields that were deleted
          disabled     \* fields that are disabled or invisible

vars == <<ui, dying, deleted, disabled>>

-----------------------------------------------------------------------------
(* Focus *)

Accepts(x) == x \notin deleted \cup disabled /\ FormOf(x) \notin dying

(* The form may be inactive: then the field is focused when it is activated. *)
set_focus(u, x) ==
  LET f == FormOf(x)
      remembered == [u EXCEPT !.last_focus[f] = x]
  IN  IF u.focused = x \/ ~Accepts(x) THEN u
      ELSE IF f \in CanActivate /\ f \notin u.active THEN remembered
      ELSE [remembered EXCEPT !.focused = x]

(* The first of a sequence of fields that accepts the focus gets it. *)
FocusFirst(u, seq) ==
  LET first == FirstOf(Without(seq, {x \in Field : ~Accepts(x)}), NULL)
  IN  IF first = NULL THEN u ELSE set_focus(u, first)

(* Mutant: does not go on to the other fields *)
EnsureFocusLast(u, f) ==
  IF u.focused # NULL /\ FormOf(u.focused) = f THEN u
  ELSE IF u.last_focus[f] # NULL THEN set_focus(u, u.last_focus[f])
  ELSE FocusFirst(u, Fields[f])

EnsureFocus(u, f) ==
  IF u.focused # NULL /\ FormOf(u.focused) = f THEN u
  ELSE IF u.last_focus[f] # NULL /\ Accepts(u.last_focus[f])
  THEN set_focus(u, u.last_focus[f])
  ELSE FocusFirst(u, Fields[f])

(* From x to the next field that accepts, around its form *)
MoveFocusFrom(u, x) ==
  LET fields == Fields[FormOf(x)]
      at == CHOOSE i \in 1..Len(fields) : fields[i] = x
  IN  FocusFirst(u, SubSeq(fields, at + 1, Len(fields)) \o SubSeq(fields, 1, at - 1))

-----------------------------------------------------------------------------
(* Activation *)

TopOf(z) == IF z = <<>> THEN NULL ELSE z[Len(z)]

(* Mutant: any form, also one that cannot be activated *)
AnyTopMostOtherForm(u, f) == TopOf(Without(u.z, {f}))

(* GetTopMostOtherForm(true) *)
GetTopMostOtherForm(u, f) == TopOf(Without(u.z, {f} \cup (Form \ CanActivate)))

Raise(z, f) == Append(Without(z, {f}), f)

Activate(u, f) ==
  IF f \notin ToSet(u.z) \/ f \notin CanActivate THEN u
  ELSE IF f \in u.active THEN EnsureFocus(u, f)
  ELSE EnsureFocus([u EXCEPT !.active = (@ \ {GetTopMostOtherForm(u, f)}) \cup {f},
                             !.z = Raise(@, f)], f)

(* Form::OnAdded *)
OnAdded(u, f) == Activate(u, f)

(* Form::OnRemove, and ModalForm::OnRemove, which only calls back.  The form is
   still a child of the root. *)
OnRemove(u, f) ==
  LET left == [u EXCEPT !.active = @ \ {f}]
      top  == GetTopMostOtherForm(u, f)
  IN  IF f \in Modal THEN u
      ELSE IF top = NULL THEN left
      ELSE Activate(left, top)

(* ~Form, with its fields: the weak pointers to them are cleared. *)
Destroyed(u, f) ==
  [z |-> Without(u.z, {f}),
   active |-> u.active \ {f},
   last_focus |-> [u.last_focus EXCEPT ![f] = NULL],
   focused |-> IF u.focused # NULL /\ FormOf(u.focused) = f THEN NULL ELSE u.focused]

-----------------------------------------------------------------------------
Init ==
  /\ ui = [z |-> <<>>, active |-> {}, last_focus |-> [f \in Form |-> NULL], focused |-> NULL]
  /\ dying = {} /\ deleted = {} /\ disabled = {}

Shown(f) == f \in ToSet(ui.z)

(* new Form, then root->AddChild *)
Show(f) ==
  /\ ~Shown(f)
  /\ ui' = OnAdded([ui EXCEPT !.z = Append(@, f)], f)
  /\ UNCHANGED <<dying, deleted, disabled>>

(* A press on a field, or on the form beside its fields: GetElementAt only
   finds elements that are interactable. *)
InvokePointerDown(f, x) ==
  /\ Shown(f) /\ f \notin dying
  /\ x # NULL => FormOf(x) = f /\ x \notin deleted \cup disabled
  /\ LET activated == Activate(ui, f)
     IN  ui' = IF x = NULL THEN activated ELSE set_focus(activated, x)
  /\ UNCHANGED <<dying, deleted, disabled>>

(* A key is an event for the focused element; Tab, which it leaves, moves the
   focus on. *)
InvokeKey(tab) ==
  /\ ui.focused # NULL
  /\ ui' = IF tab THEN MoveFocusFrom(ui, ui.focused) ELSE ui
  /\ UNCHANGED <<dying, deleted, disabled>>

(* Called by the application, for a form that is shown or not yet *)
SetFocus(x) ==
  /\ ui' = set_focus(ui, x)
  /\ UNCHANGED <<dying, deleted, disabled>>

(* set_state(kDisabled), set_visibility *)
Disable(x) ==
  /\ x \notin disabled
  /\ disabled' = disabled \cup {x}
  /\ UNCHANGED <<ui, dying, deleted>>

Enable(x) ==
  /\ x \in disabled
  /\ disabled' = disabled \ {x}
  /\ UNCHANGED <<ui, dying, deleted>>

(* RemoveChild, which moves the focus on first, and ~Element *)
DeleteField(x) ==
  /\ x \notin deleted /\ Shown(FormOf(x))
  /\ deleted' = deleted \cup {x}
  /\ LET moved == IF ui.focused = x /\ FormOf(x) \notin dying
                  THEN MoveFocusFrom(ui, x) ELSE ui
     IN  ui' = [moved EXCEPT !.focused = IF @ = x THEN NULL ELSE @,
                             !.last_focus[FormOf(x)] = IF @ = x THEN NULL ELSE @]
  /\ UNCHANGED <<dying, disabled>>

(* Close: Die, and an animation that keeps the form for now *)
Close(f) ==
  /\ Shown(f) /\ f \notin dying
  /\ dying' = dying \cup {f}
  /\ UNCHANGED <<ui, deleted, disabled>>

(* The animation ends: RemoveChild and delete.  The form may be shown anew, as
   a new object. *)
RemoveChild(f) ==
  /\ f \in dying
  /\ ui' = Destroyed(OnRemove(ui, f), f)
  /\ dying' = dying \ {f}
  /\ deleted' = deleted \ ToSet(Fields[f])
  /\ disabled' = disabled \ ToSet(Fields[f])

Next ==
  \/ \E f \in Form :
       \/ Show(f) \/ Close(f) \/ RemoveChild(f)
       \/ \E x \in Field \cup {NULL} : InvokePointerDown(f, x)
  \/ \E x \in Field : SetFocus(x) \/ Disable(x) \/ Enable(x) \/ DeleteField(x)
  \/ \E tab \in BOOLEAN : InvokeKey(tab)

Spec == Init /\ [][Next]_vars

-----------------------------------------------------------------------------
(* Properties *)

(* Every variable has its type. *)
TypeOK ==
  /\ ui.z \in Seq(Form) /\ ui.active \subseteq Form
  /\ ui.last_focus \in [Form -> Field \cup {NULL}]
  /\ ui.focused \in Field \cup {NULL}
  /\ dying \subseteq ToSet(ui.z)
  /\ deleted \subseteq Field /\ disabled \subseteq Field

(* While forms that can be activated are shown, the top one of them is active
   and it alone ("Deactivate currently active form", "Active the top most other
   form": form.cc 99, 255). *)
TopFormActive ==
  ui.active = {TopOf(Without(ui.z, Form \ CanActivate))} \ {NULL}

(* Neither the focus nor the field a form remembers is a deleted field. *)
FocusExists ==
  /\ ui.focused \notin deleted
  /\ \A f \in Form : ui.last_focus[f] \notin deleted
  /\ ui.focused # NULL => FormOf(ui.focused) \notin CanActivate \/ Shown(FormOf(ui.focused))

(* A form that becomes active gets the focus if any of its fields accepts it,
   though its last field be disabled or gone ("If that doesn't succeed, it will
   go through all children and try to set focus", form.h 66). *)
ActivationFocuses ==
  \A f \in ui'.active \ ui.active :
    (\E x \in ToSet(Fields[f]) : Accepts(x)') => ui'.focused # NULL /\ FormOf(ui'.focused) = f

(* The focus leaves an active form only when another one becomes active, its
   focused field is deleted or a form that cannot be activated takes it. *)
FocusStays ==
  \A f \in ui.active :
    ui.focused # NULL /\ FormOf(ui.focused) = f =>
      \/ ui'.focused # NULL /\ (FormOf(ui'.focused) = f \/ FormOf(ui'.focused) \notin CanActivate)
      \/ f \notin ui'.active
      \/ ui.focused \in deleted'

(* The types, the active form, and that what has the focus exists. *)
FormsAgree == TypeOK /\ TopFormActive /\ FocusExists

(* The focus comes with the activation of a form and goes with its end. *)
FocusFollows == [][ActivationFocuses /\ FocusStays]_vars
=============================================================================
