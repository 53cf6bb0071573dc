------------------------ MODULE FormsListenersProofs ------------------------
(***************************************************************************)
(* Proofs about three components that do not meet, for any values of their *)
(* constants.                                                              *)
(*                                                                         *)
(* Forms, for any forms and fields none of which is modal (a modal form    *)
(* does not hand over when it is removed).  The fields of a ui that        *)
(* activation and focus go through are dealt with one after the other:     *)
(* what z says of active, and then where the focus may be.                 *)
(*                                                                         *)
(* ElementListeners, for any elements, listeners, weak pointers and        *)
(* handlers, and any nesting of notifications and events: no weak pointer  *)
(* outlives its element, an element is deleted with nobody listening to    *)
(* it, and whoever is to hear of something does.                           *)
(*                                                                         *)
(* FocusTraversal, for any tree, any forms in it and any elements that     *)
(* accept the focus, from a focused element: elements are numbered in      *)
(* document order, so that the walks are proved to go from a number to the *)
(* next or the previous, what is inside a form to be a range of numbers,   *)
(* and a walk to have been refused by all it has passed.                   *)
(***************************************************************************)
EXTENDS Forms, ElementListeners, FocusTraversal, ListLemmas, FiniteSetTheorems

(* Forms *)

UI == [z : Seq(Form), active : SUBSET Form,
       last_focus : [Form -> Field \cup {NULL}], focused : Field \cup {NULL}]

(* A form remembers none but its own fields. *)
Remembers(u) == \A f \in Form : u.last_focus[f] # NULL => FormOf(u.last_focus[f]) = f

(* The top form that can be activated is active, and no other. *)
Alone(u) == u.active = {TopOf(Without(u.z, Form \ CanActivate))} \ {NULL}

(* The focus is in a form that is shown, or in one that cannot be activated. *)
Held(u) == u.focused # NULL => FormOf(u.focused) \notin CanActivate \/ FormOf(u.focused) \in ToSet(u.z)

(* Neither the focus nor what a form remembers is gone. *)
Existing(u, gone) == u.focused \notin gone /\ \A f \in Form : u.last_focus[f] \notin gone

(* The types, and where the focus may be *)
Sound(u) == u \in UI /\ Remembers(u) /\ Held(u)

(* The inductive invariant *)
IInv ==
  /\ Sound(ui) /\ Alone(ui) /\ Existing(ui, deleted)
  /\ dying \subseteq ToSet(ui.z) /\ deleted \subseteq Field /\ disabled \subseteq Field

-----------------------------------------------------------------------------
(* Every field is in one form, and NULL is none of the fields and forms. *)
LEMMA FieldsOfForms ==
  /\ NULL \notin Form /\ NULL \notin Field /\ CanActivate \subseteq Form
  /\ \A x \in Field : FormOf(x) \in Form /\ x \in ToSet(Fields[FormOf(x)])
  /\ \A f \in Form : Fields[f] \in Seq(Field)
  /\ \A f \in Form : \A x \in ToSet(Fields[f]) : x \in Field /\ FormOf(x) = f
<1>1. /\ NULL \notin Form /\ NULL \notin Field /\ CanActivate \subseteq Form
      /\ \A f \in Form : Fields[f] \in Seq(Field)
  BY FormsAssumption
<1>2. \A x \in Field : FormOf(x) \in Form /\ x \in ToSet(Fields[FormOf(x)])
  BY FormsAssumption DEF FormOf
<1>3. ASSUME NEW f \in Form, NEW x \in ToSet(Fields[f])
      PROVE  x \in Field /\ FormOf(x) = f
  <2>1. Fields[f] \in Seq(Field)
    BY <1>1
  <2>2. ToSet(Fields[f]) \subseteq Field
    BY <2>1 DEF ToSet
  <2>3. x \in Field
    BY <2>2
  <2>4. FormOf(x) \in Form /\ x \in ToSet(Fields[FormOf(x)])
    BY <1>2, <2>3
  <2>5. \A g, h \in Form : g # h => ToSet(Fields[g]) \cap ToSet(Fields[h]) = {}
    BY FormsAssumption
  <2> QED
    BY <2>3, <2>4, <2>5
<1> QED
  BY <1>1, <1>2, <1>3

-----------------------------------------------------------------------------
(* TopOf is the last entry, if there is one. *)
LEMMA TopProperties ==
  ASSUME NEW z \in Seq(Form)
  PROVE  /\ ToSet(z) \subseteq Form
         /\ TopOf(z) = NULL <=> ToSet(z) = {}
         /\ TopOf(z) # NULL => TopOf(z) \in ToSet(z)
<1>1. DOMAIN z = 1 .. Len(z) /\ Len(z) \in Nat /\ \A i \in 1 .. Len(z) : z[i] \in Form
  OBVIOUS
<1>2. ToSet(z) \subseteq Form
  BY <1>1 DEF ToSet
<1>3. CASE z = <<>>
  BY <1>2, <1>3 DEF ToSet, TopOf
<1>4. CASE z # <<>>
  <2>1. Len(z) \in 1 .. Len(z)
    BY <1>1, <1>4
  <2>2. z[Len(z)] \in ToSet(z) /\ TopOf(z) = z[Len(z)]
    BY <1>1, <1>4, <2>1 DEF ToSet, TopOf
  <2> QED
    BY <1>2, <2>2, FieldsOfForms
<1> QED
  BY <1>3, <1>4

(* i is where the last entry of z is that is not in gone. *)
LastAt(z, gone, i) ==
  /\ i \in 1 .. Len(z) /\ z[i] \notin gone
  /\ \A j \in 1 .. Len(z) : i < j => z[j] \in gone

(* There is but one such place. *)
LEMMA LastAtUnique ==
  ASSUME NEW z \in Seq(Form), NEW gone, NEW i, NEW j, LastAt(z, gone, i), LastAt(z, gone, j)
  PROVE  i = j
<1>1. i \in Nat /\ j \in Nat /\ ~(i < j) /\ ~(j < i)
  BY DEF LastAt
<1> QED
  BY <1>1

(* What Without leaves has its top there. *)
LEMMA TopAt ==
  ASSUME NEW z \in Seq(Form), NEW gone
  PROVE  LET top == TopOf(Without(z, gone))
         IN  /\ top = NULL <=> ToSet(z) \subseteq gone
             /\ top # NULL => top \in ToSet(z) /\ top \notin gone
             /\ top # NULL => \E i : LastAt(z, gone, i) /\ z[i] = top
<1> DEFINE part == Without(z, gone)
<1>1. part \in Seq(Form) /\ ToSet(part) = ToSet(z) \ gone
  BY WithoutProperties
<1>2. PICK e : Selects(e, part, z, gone, Len(z))
  BY WithoutSelects
<1> HIDE DEF part
<1>3. /\ TopOf(part) = NULL <=> ToSet(part) = {}
      /\ TopOf(part) # NULL => TopOf(part) \in ToSet(part)
  BY <1>1, TopProperties
<1>4. ASSUME TopOf(part) # NULL
      PROVE  \E i : LastAt(z, gone, i) /\ z[i] = TopOf(part)
  <2>1. /\ Len(part) \in Nat /\ part # <<>> /\ TopOf(part) = part[Len(part)]
    BY <1>1, <1>4 DEF TopOf
  <2>2. Len(part) \in 1 .. Len(part)
    BY <1>1, <2>1
  <2>3. /\ e \in [1 .. Len(part) -> 1 .. Len(z)]
        /\ \A k \in 1 .. Len(part) : part[k] = z[e[k]] /\ part[k] \notin gone
        /\ \A k, l \in 1 .. Len(part) : k < l => e[k] < e[l]
        /\ \A i \in 1 .. Len(z) : z[i] \notin gone => \E k \in 1 .. Len(part) : e[k] = i
    BY <1>2 DEF Selects
  <2> DEFINE at == e[Len(part)]
  <2>4. at \in 1 .. Len(z) /\ z[at] = TopOf(part) /\ z[at] \notin gone
    BY <2>1, <2>2, <2>3
  <2>5. ASSUME NEW j \in 1 .. Len(z), at < j, z[j] \notin gone
        PROVE  FALSE
    <3>1. PICK k \in 1 .. Len(part) : e[k] = j
      BY <2>3, <2>5
    <3>2. k = Len(part) \/ k < Len(part)
      BY <2>1
    <3>3. ~(j < at) /\ j # at
      BY <2>4, <2>5
    <3> QED
      BY <2>2, <2>3, <3>1, <3>2, <3>3
  <2> QED
    BY <2>4, <2>5 DEF LastAt
<1> QED
  BY <1>1, <1>3, <1>4 DEF part

(* An entry that is last where some are gone is last where more are. *)
LEMMA TopOfFewer ==
  ASSUME NEW z \in Seq(Form), NEW few, NEW more, few \subseteq more,
         TopOf(Without(z, few)) \notin more \cup {NULL}
  PROVE  TopOf(Without(z, more)) = TopOf(Without(z, few))
<1>1. PICK i : LastAt(z, few, i) /\ z[i] = TopOf(Without(z, few))
  BY TopAt
<1>2. LastAt(z, more, i)
  BY <1>1 DEF LastAt
<1>3. z[i] \in ToSet(z) /\ z[i] \notin more
  BY <1>2 DEF LastAt, ToSet
<1>4. TopOf(Without(z, more)) # NULL
  BY <1>3, TopAt
<1>5. PICK j : LastAt(z, more, j) /\ z[j] = TopOf(Without(z, more))
  BY <1>4, TopAt
<1> QED
  BY <1>1, <1>2, <1>5, LastAtUnique

(* Removing twice leaves the top that removing both leaves. *)
LEMMA TopOfWithout ==
  ASSUME NEW z \in Seq(Form), NEW first, NEW gone
  PROVE  TopOf(Without(Without(z, first), gone)) = TopOf(Without(z, first \cup gone))
<1> DEFINE part == Without(z, first)
           both == first \cup gone
<1>1. part \in Seq(Form) /\ ToSet(part) = ToSet(z) \ first
  BY WithoutProperties
<1>2. PICK e : Selects(e, part, z, first, Len(z))
  BY WithoutSelects
<1>3. /\ e \in [1 .. Len(part) -> 1 .. Len(z)]
      /\ \A k \in 1 .. Len(part) : part[k] = z[e[k]] /\ part[k] \notin first
      /\ \A k, l \in 1 .. Len(part) : k < l => e[k] < e[l]
      /\ \A i \in 1 .. Len(z) : z[i] \notin first => \E k \in 1 .. Len(part) : e[k] = i
  BY <1>2 DEF Selects
<1> HIDE DEF part
<1>4. CASE ToSet(part) \subseteq gone
  <2>1. ToSet(z) \subseteq both
    BY <1>1, <1>4
  <2>2. TopOf(Without(part, gone)) = NULL
    BY <1>1, <1>4, TopAt
  <2>3. TopOf(Without(z, both)) = NULL
    <3> HIDE DEF both
    <3> QED
      BY <2>1, TopAt
  <2> QED
    BY <2>2, <2>3 DEF part
<1>5. CASE ~(ToSet(part) \subseteq gone)
  <2>1. PICK k : LastAt(part, gone, k) /\ part[k] = TopOf(Without(part, gone))
    BY <1>1, <1>5, TopAt
  <2>2. /\ k \in 1 .. Len(part) /\ part[k] \notin gone /\ Len(part) \in Nat
        /\ \A l \in 1 .. Len(part) : k < l => part[l] \in gone
    BY <1>1, <2>1 DEF LastAt
  <2>3. e[k] \in 1 .. Len(z) /\ z[e[k]] = part[k] /\ z[e[k]] \notin both
    BY <1>3, <2>2
  <2>4. ASSUME NEW j \in 1 .. Len(z), e[k] < j, z[j] \notin both
        PROVE  FALSE
    <3>1. PICK l \in 1 .. Len(part) : e[l] = j
      BY <1>3, <2>4
    <3>2. part[l] \notin gone
      BY <1>3, <2>4, <3>1
    <3>3. ~(k < l)
      BY <2>2, <3>2
    <3>4. l = k \/ l < k
      BY <2>2, <3>3
    <3>5. ~(j < e[k]) /\ j # e[k]
      BY <2>3, <2>4
    <3> QED
      BY <1>3, <2>2, <3>1, <3>4, <3>5
  <2>5. LastAt(z, both, e[k])
    BY <2>3, <2>4 DEF LastAt
  <2>6. part[k] \in ToSet(z)
    BY <2>3 DEF ToSet
  <2> HIDE DEF both
  <2>7. TopOf(Without(z, both)) # NULL
    BY <2>3, <2>6, TopAt
  <2>8. PICK j : LastAt(z, both, j) /\ z[j] = TopOf(Without(z, both))
    BY <2>7, TopAt
  <2>9. j = e[k]
    BY <2>5, <2>8, LastAtUnique
  <2> QED
    BY <2>1, <2>3, <2>8, <2>9 DEF part, both
<1> QED
  BY <1>4, <1>5

(* What is added at the end is the top, unless it is not counted. *)
LEMMA TopOfAppend ==
  ASSUME NEW z \in Seq(Form), NEW f \in Form, NEW gone
  PROVE  TopOf(Without(Append(z, f), gone)) = IF f \in gone THEN TopOf(Without(z, gone)) ELSE f
<1> DEFINE more == Append(z, f)
<1>1. /\ more \in Seq(Form) /\ ToSet(more) = ToSet(z) \cup {f}
      /\ Len(more) = Len(z) + 1 /\ Len(z) \in Nat /\ more[Len(z) + 1] = f
      /\ \A i \in 1 .. Len(z) : more[i] = z[i]
  BY AppendedProperties, AppendProperties
<1> HIDE DEF more
<1>2. CASE f \notin gone
  <2>1. LastAt(more, gone, Len(z) + 1)
    BY <1>1, <1>2 DEF LastAt
  <2>2. TopOf(Without(more, gone)) # NULL
    BY <1>1, <1>2, TopAt
  <2>3. PICK j : LastAt(more, gone, j) /\ more[j] = TopOf(Without(more, gone))
    BY <1>1, <2>2, TopAt
  <2>4. j = Len(z) + 1
    BY <1>1, <2>1, <2>3, LastAtUnique
  <2> QED
    BY <1>1, <1>2, <2>3, <2>4 DEF more
<1>3. CASE f \in gone
  <2>1. CASE ToSet(z) \subseteq gone
    <3>1. TopOf(Without(z, gone)) = NULL /\ TopOf(Without(more, gone)) = NULL
      BY <1>1, <1>3, <2>1, TopAt
    <3> QED
      BY <1>3, <3>1 DEF more
  <2>2. CASE ~(ToSet(z) \subseteq gone)
    <3>1. PICK i : LastAt(z, gone, i) /\ z[i] = TopOf(Without(z, gone))
      BY <2>2, TopAt
    <3>2. LastAt(more, gone, i) /\ more[i] = z[i]
      BY <1>1, <1>3, <3>1 DEF LastAt
    <3>3. ~(ToSet(more) \subseteq gone)
      BY <1>1, <2>2
    <3>4. PICK j : LastAt(more, gone, j) /\ more[j] = TopOf(Without(more, gone))
      BY <1>1, <3>3, TopAt
    <3>5. i = j
      BY <1>1, <3>2, <3>4, LastAtUnique
    <3> QED
      BY <1>3, <3>1, <3>2, <3>4, <3>5 DEF more
  <2> QED
    BY <2>1, <2>2
<1> QED
  BY <1>2, <1>3

-----------------------------------------------------------------------------
(* The focus of u is in form f. *)
In(u, f) == u.focused # NULL /\ FormOf(u.focused) = f

(* f may have the focus now. *)
Takes(u, f) == f \notin CanActivate \/ f \in u.active

(* v is u but for the focus, which may have gone to form f. *)
Moved(u, v, f) ==
  /\ v \in UI /\ v.z = u.z /\ v.active = u.active
  /\ Remembers(v)
  /\ Existing(u, deleted) => Existing(v, deleted)
  /\ v.focused = u.focused \/ (In(v, f) /\ Takes(u, f))

(* set_focus, for a field of form f *)
LEMMA SetFocusMoves ==
  ASSUME NEW u \in UI, Remembers(u), NEW f \in Form, NEW x \in ToSet(Fields[f])
  PROVE  /\ Moved(u, set_focus(u, x), f)
         /\ Accepts(x) /\ Takes(u, f) => In(set_focus(u, x), f)
<1> DEFINE v == set_focus(u, x)
           remembered == [u EXCEPT !.last_focus[f] = x]
           focused == [remembered EXCEPT !.focused = x]
<1>1. x \in Field /\ FormOf(x) = f /\ x # NULL
  BY FieldsOfForms
<1>2. v = IF u.focused = x \/ ~Accepts(x) THEN u ELSE IF ~Takes(u, f) THEN remembered ELSE focused
  BY <1>1 DEF set_focus, Takes
<1>3. /\ remembered \in UI /\ remembered.z = u.z /\ remembered.active = u.active
      /\ remembered.focused = u.focused
      /\ \A g \in Form : remembered.last_focus[g] = IF g = f THEN x ELSE u.last_focus[g]
  BY <1>1 DEF UI
<1> HIDE DEF remembered
<1>4. /\ focused \in UI /\ focused.z = u.z /\ focused.active = u.active /\ focused.focused = x
      /\ \A g \in Form : focused.last_focus[g] = IF g = f THEN x ELSE u.last_focus[g]
  BY <1>1, <1>3 DEF UI
<1> HIDE DEF v, focused
<1>5. CASE u.focused = x \/ ~Accepts(x)
  <2>1. v = u
    BY <1>2, <1>5
  <2>2. Accepts(x) => In(u, f)
    BY <1>1, <1>5 DEF In
  <2> QED
    BY <2>1, <2>2 DEF Moved, v
<1>6. CASE u.focused # x /\ Accepts(x) /\ ~Takes(u, f)
  <2>1. v = remembered
    BY <1>2, <1>6
  <2>2. Remembers(v)
    BY <1>1, <1>3, <2>1 DEF Remembers
  <2>3. Existing(u, deleted) => Existing(v, deleted)
    BY <1>3, <1>6, <2>1 DEF Existing, Accepts
  <2> QED
    BY <1>3, <1>6, <2>1, <2>2, <2>3 DEF Moved, v
<1>7. CASE u.focused # x /\ Accepts(x) /\ Takes(u, f)
  <2>1. v = focused
    BY <1>2, <1>7
  <2>2. Remembers(v)
    BY <1>1, <1>4, <2>1 DEF Remembers
  <2>3. Existing(u, deleted) => Existing(v, deleted)
    BY <1>4, <1>7, <2>1 DEF Existing, Accepts
  <2>4. In(v, f)
    BY <1>1, <1>4, <2>1 DEF In
  <2> QED
    BY <1>4, <1>7, <2>1, <2>2, <2>3, <2>4 DEF Moved, v
<1> QED
  BY <1>5, <1>6, <1>7

(* FocusFirst, for fields of form f *)
LEMMA FocusFirstMoves ==
  ASSUME NEW u \in UI, Remembers(u), NEW f \in Form, NEW seq \in Seq(ToSet(Fields[f]))
  PROVE  /\ Moved(u, FocusFirst(u, seq), f)
         /\ Takes(u, f) /\ (\E x \in ToSet(seq) : Accepts(x)) => In(FocusFirst(u, seq), f)
<1> DEFINE fields == ToSet(Fields[f])
           refusing == {x \in Field : ~Accepts(x)}
           part == Without(seq, refusing)
           first == FirstOf(part, NULL)
<1>1. \A x \in fields : x \in Field /\ x # NULL
  BY FieldsOfForms
<1>2. FocusFirst(u, seq) = IF first = NULL THEN u ELSE set_focus(u, first)
  BY DEF FocusFirst
<1> HIDE DEF fields, refusing
<1>3. part \in Seq(fields) /\ ToSet(part) = ToSet(seq) \ refusing
  BY WithoutProperties DEF fields
<1> HIDE DEF part
<1>4. /\ ToSet(part) \subseteq fields
      /\ first = NULL <=> ToSet(part) = {}
      /\ first # NULL => first \in ToSet(part)
  <2>1. NULL \notin fields
    BY <1>1
  <2> QED
    BY <1>3, <2>1, FirstProperties
<1>5. ToSet(seq) \subseteq fields
  BY DEF ToSet, fields
<1> HIDE DEF first
<1>6. CASE first = NULL
  <2>1. \A x \in ToSet(seq) : ~Accepts(x)
    BY <1>3, <1>4, <1>6 DEF refusing
  <2> QED
    BY <1>2, <1>6, <2>1 DEF Moved
<1>7. CASE first # NULL
  <2>1. first \in fields /\ first \in Field /\ first \notin refusing
    BY <1>1, <1>3, <1>4, <1>7
  <2>2. Accepts(first)
    BY <2>1 DEF refusing
  <2> QED
    BY <1>2, <1>7, <2>1, <2>2, SetFocusMoves DEF fields
<1> QED
  BY <1>6, <1>7

(* Form::EnsureFocus *)
LEMMA EnsureFocusMoves ==
  ASSUME NEW u \in UI, Remembers(u), NEW f \in Form
  PROVE  /\ Moved(u, EnsureFocus(u, f), f)
         /\ Takes(u, f) /\ (\E x \in ToSet(Fields[f]) : Accepts(x)) => In(EnsureFocus(u, f), f)
<1>1. CASE In(u, f)
  BY <1>1 DEF EnsureFocus, In, Moved
<1>2. CASE ~In(u, f) /\ u.last_focus[f] # NULL /\ Accepts(u.last_focus[f])
  <2> DEFINE x == u.last_focus[f]
  <2>1. x \in Field /\ FormOf(x) = f
    BY <1>2 DEF UI, Remembers
  <2>2. x \in ToSet(Fields[f])
    BY <2>1, FieldsOfForms
  <2>3. EnsureFocus(u, f) = set_focus(u, x)
    BY <1>2 DEF EnsureFocus, In
  <2> QED
    BY <1>2, <2>2, <2>3, SetFocusMoves
<1>3. CASE ~In(u, f) /\ ~(u.last_focus[f] # NULL /\ Accepts(u.last_focus[f]))
  <2>1. EnsureFocus(u, f) = FocusFirst(u, Fields[f])
    BY <1>3 DEF EnsureFocus, In
  <2>2. Fields[f] \in Seq(ToSet(Fields[f]))
    <3>1. Fields[f] \in Seq(Field)
      BY FieldsOfForms
    <3> QED
      BY <3>1 DEF ToSet
  <2> QED
    BY <2>1, <2>2, FocusFirstMoves
<1> QED
  BY <1>1, <1>2, <1>3

(* Element::MoveFocus stays in the form. *)
LEMMA MoveFocusMoves ==
  ASSUME NEW u \in UI, Remembers(u), NEW x \in Field
  PROVE  Moved(u, MoveFocusFrom(u, x), FormOf(x))
<1> DEFINE f == FormOf(x)
           fields == Fields[f]
           at == CHOOSE i \in 1 .. Len(fields) : fields[i] = x
           seq == SubSeq(fields, at + 1, Len(fields)) \o SubSeq(fields, 1, at - 1)
<1>1. f \in Form /\ fields \in Seq(Field) /\ x \in ToSet(fields)
  BY FieldsOfForms
<1>2. at \in 1 .. Len(fields)
  BY <1>1, IndexOf
<1>3. MoveFocusFrom(u, x) = FocusFirst(u, seq)
  BY DEF MoveFocusFrom
<1>4. fields \in Seq(ToSet(fields)) /\ Len(fields) \in Nat
  BY <1>1 DEF ToSet
<1> HIDE DEF fields, at
<1>5. SubSeq(fields, at + 1, Len(fields)) \in Seq(ToSet(fields)) /\ SubSeq(fields, 1, at - 1) \in Seq(ToSet(fields))
  BY <1>2, <1>4, SubSeqProperties
<1>6. seq \in Seq(ToSet(fields))
  BY <1>5, ConcatProperties
<1> HIDE DEF f, seq
<1> QED
  BY <1>1, <1>3, <1>6, FocusFirstMoves DEF f, fields

-----------------------------------------------------------------------------
(* Forms without kCanActivate *)
NotActivated == Form \ CanActivate

(* f is activated in u. *)
Activates(u, f) == f \in ToSet(u.z) /\ f \in CanActivate

(* What activation does, and does not do *)
Activated(u, v, f) ==
  /\ v \in UI /\ Remembers(v)
  /\ Existing(u, deleted) => Existing(v, deleted)
  /\ ToSet(v.z) = ToSet(u.z)
  /\ v.focused = u.focused \/ (In(v, f) /\ Activates(u, f))
  /\ f \in u.active \/ ~Activates(u, f) => v.z = u.z /\ v.active = u.active
  /\ f \notin u.active /\ Activates(u, f) =>
       /\ v.z = Raise(u.z, f)
       /\ v.active = (u.active \ {GetTopMostOtherForm(u, f)}) \cup {f}
  /\ Activates(u, f) /\ (\E x \in ToSet(Fields[f]) : Accepts(x)) => In(v, f)

(* Raising a form changes the order only. *)
LEMMA RaiseProperties ==
  ASSUME NEW z \in Seq(Form), NEW f \in ToSet(z)
  PROVE  /\ Raise(z, f) \in Seq(Form) /\ ToSet(Raise(z, f)) = ToSet(z)
         /\ f \notin NotActivated => TopOf(Without(Raise(z, f), NotActivated)) = f
<1> DEFINE part == Without(z, {f})
<1>1. part \in Seq(Form) /\ ToSet(part) = ToSet(z) \ {f}
  BY WithoutProperties
<1>2. f \in Form
  BY TopProperties
<1>3. Raise(z, f) = Append(part, f)
  BY DEF Raise
<1> HIDE DEF part
<1>4. /\ Append(part, f) \in Seq(Form) /\ ToSet(Append(part, f)) = ToSet(part) \cup {f}
  BY <1>1, <1>2, AppendedProperties
<1>5. f \notin NotActivated => TopOf(Without(Append(part, f), NotActivated)) = f
  BY <1>1, <1>2, TopOfAppend
<1> QED
  BY <1>1, <1>3, <1>4, <1>5

(* Form::Activate does that. *)
LEMMA ActivateProperties ==
  ASSUME NEW u \in UI, Remembers(u), NEW f \in Form
  PROVE  Activated(u, Activate(u, f), f)
<1> DEFINE v == Activate(u, f)
           w == [u EXCEPT !.active = (@ \ {GetTopMostOtherForm(u, f)}) \cup {f}, !.z = Raise(@, f)]
<1>1. v = IF ~Activates(u, f) THEN u ELSE IF f \in u.active THEN EnsureFocus(u, f) ELSE EnsureFocus(w, f)
  BY DEF Activate, Activates
<1>2. CASE ~Activates(u, f)
  <2>1. v = u
    BY <1>1, <1>2
  <2> HIDE DEF v
  <2> QED
    BY <1>2, <2>1 DEF Activated, v
<1>3. CASE Activates(u, f) /\ f \in u.active
  <2>1. v = EnsureFocus(u, f)
    BY <1>1, <1>3
  <2> HIDE DEF v
  <2>2. Moved(u, v, f) /\ (Takes(u, f) /\ (\E x \in ToSet(Fields[f]) : Accepts(x)) => In(v, f))
    BY <2>1, EnsureFocusMoves
  <2> QED
    BY <1>3, <2>2 DEF Moved, Takes, Activated, v
<1>4. CASE Activates(u, f) /\ f \notin u.active
  <2>1. Raise(u.z, f) \in Seq(Form) /\ ToSet(Raise(u.z, f)) = ToSet(u.z)
    <3>1. u.z \in Seq(Form) /\ f \in ToSet(u.z)
      BY <1>4 DEF UI, Activates
    <3> QED
      BY <3>1, RaiseProperties
  <2>2. /\ w \in UI /\ w.z = Raise(u.z, f) /\ w.active = (u.active \ {GetTopMostOtherForm(u, f)}) \cup {f}
        /\ w.last_focus = u.last_focus /\ w.focused = u.focused
    BY <2>1 DEF UI
  <2>3. v = EnsureFocus(w, f)
    BY <1>1, <1>4
  <2> HIDE DEF v, w
  <2>4. Remembers(w) /\ (Existing(u, deleted) => Existing(w, deleted))
    BY <2>2 DEF Remembers, Existing
  <2>5. Moved(w, v, f) /\ (Takes(w, f) /\ (\E x \in ToSet(Fields[f]) : Accepts(x)) => In(v, f))
    BY <2>2, <2>3, <2>4, EnsureFocusMoves
  <2>6. f \in w.active
    BY <2>2
  <2> QED
    BY <1>4, <2>1, <2>2, <2>4, <2>5, <2>6 DEF Moved, Takes, Activated, v
<1> QED
  BY <1>2, <1>3, <1>4

-----------------------------------------------------------------------------
(* The only active form, when f is left out *)
AloneBut(u, f) == u.active = {TopOf(Without(u.z, {f} \cup NotActivated))} \ {NULL}

(* Leaving out what is not at the top changes nothing. *)
LEMMA OthersTop ==
  ASSUME NEW z \in Seq(Form), NEW f, TopOf(Without(z, NotActivated)) # f
  PROVE  TopOf(Without(z, {f} \cup NotActivated)) = TopOf(Without(z, NotActivated))
<1>1. CASE TopOf(Without(z, NotActivated)) = NULL
  <2>1. ToSet(z) \subseteq NotActivated
    BY <1>1, TopAt
  <2>2. ToSet(z) \subseteq {f} \cup NotActivated
    BY <2>1
  <2>3. TopOf(Without(z, {f} \cup NotActivated)) = NULL
    BY <2>2, TopAt
  <2> QED
    BY <1>1, <2>3
<1>2. CASE TopOf(Without(z, NotActivated)) # NULL
  <2>1. TopOf(Without(z, NotActivated)) \notin NotActivated
    BY <1>2, TopAt
  <2> QED
    BY <1>2, <2>1, TopOfFewer
<1> QED
  BY <1>1, <1>2

(* Activating a form when the top one of the others is active, and no other *)
LEMMA ActivateAloneBut ==
  ASSUME NEW u \in UI, Remembers(u), NEW f \in Form, AloneBut(u, f), f \notin u.active, Activates(u, f)
  PROVE  Alone(Activate(u, f)) /\ Activate(u, f).active = {f}
<1> DEFINE v == Activate(u, f)
<1>1. Activated(u, v, f)
  BY ActivateProperties
<1> HIDE DEF v
<1>2. v.z = Raise(u.z, f) /\ v.active = (u.active \ {GetTopMostOtherForm(u, f)}) \cup {f}
  BY <1>1 DEF Activated
<1>3. v.active = {f}
  BY <1>2 DEF AloneBut, GetTopMostOtherForm, NotActivated
<1>4. u.z \in Seq(Form) /\ f \in ToSet(u.z) /\ f \notin NotActivated
  BY DEF UI, Activates, NotActivated
<1>5. TopOf(Without(v.z, NotActivated)) = f
  BY <1>2, <1>4, RaiseProperties
<1>6. f # NULL
  BY FieldsOfForms
<1> QED
  BY <1>3, <1>5, <1>6 DEF Alone, NotActivated, v

(* Who is active is shown and can be activated. *)
LEMMA AloneProperties ==
  ASSUME NEW u \in UI, Alone(u)
  PROVE  /\ \A f \in u.active : f \in Form /\ Activates(u, f) /\ u.active = {f}
         /\ \A f \in Form : Activates(u, f) => u.active # {}
<1> DEFINE top == TopOf(Without(u.z, NotActivated))
<1>1. u.z \in Seq(Form) /\ ToSet(u.z) \subseteq Form
  BY TopProperties DEF UI
<1>2. u.active = {top} \ {NULL}
  BY DEF Alone, NotActivated
<1>3. top = NULL <=> ToSet(u.z) \subseteq NotActivated
  BY <1>1, TopAt
<1>4. top # NULL => top \in ToSet(u.z) /\ top \notin NotActivated
  BY <1>1, TopAt
<1> HIDE DEF top
<1> QED
  BY <1>1, <1>2, <1>3, <1>4 DEF Activates, NotActivated

(* The top form stays the active one when a form is activated. *)
LEMMA ActivateAlone ==
  ASSUME NEW u \in UI, Remembers(u), Alone(u), NEW f \in Form
  PROVE  /\ Alone(Activate(u, f))
         /\ Activates(u, f) => Activate(u, f).active = {f}
<1>1. Activated(u, Activate(u, f), f)
  BY ActivateProperties
<1>2. CASE f \in u.active \/ ~Activates(u, f)
  <2>1. Activate(u, f).z = u.z /\ Activate(u, f).active = u.active
    BY <1>1, <1>2 DEF Activated
  <2>2. f \in u.active => u.active = {f}
    BY AloneProperties
  <2> QED
    BY <1>2, <2>1, <2>2 DEF Alone
<1>3. CASE f \notin u.active /\ Activates(u, f)
  <2> DEFINE top == TopOf(Without(u.z, NotActivated))
  <2>1. u.z \in Seq(Form) /\ u.active = {top} \ {NULL} /\ f # NULL
    BY FieldsOfForms DEF Alone, NotActivated, UI
  <2>2. top # f
    BY <1>3, <2>1
  <2>3. AloneBut(u, f)
    BY <2>1, <2>2, OthersTop DEF AloneBut
  <2> QED
    BY <1>3, <2>3, ActivateAloneBut
<1> QED
  BY <1>2, <1>3

-----------------------------------------------------------------------------
(* What holds of every ui between two calls *)
Settled(u) == Sound(u) /\ Alone(u) /\ Existing(u, deleted)

(* Moving the focus settles, and takes it from an active form only for one that
   cannot be activated. *)
LEMMA MovedSettled ==
  ASSUME NEW u, Settled(u), NEW f \in Form, NEW v, Moved(u, v, f)
  PROVE  /\ Settled(v)
         /\ \A g \in u.active : In(u, g) => In(v, g) \/ (In(v, f) /\ f \notin CanActivate)
<1>1. /\ u \in UI /\ Alone(u) /\ Held(u) /\ Remembers(v) /\ Existing(v, deleted)
      /\ v \in UI /\ v.z = u.z /\ v.active = u.active
      /\ v.focused = u.focused \/ (In(v, f) /\ Takes(u, f))
  BY DEF Settled, Sound, Moved
<1>2. \A g \in u.active : g \in Form /\ Activates(u, g) /\ u.active = {g}
  BY <1>1, AloneProperties
<1>3. Alone(v)
  BY <1>1 DEF Alone
<1>4. Held(v)
  <2>1. CASE v.focused = u.focused
    BY <1>1, <2>1 DEF Held
  <2>2. CASE In(v, f) /\ Takes(u, f)
    BY <1>1, <1>2, <2>2 DEF Held, In, Takes, Activates
  <2> QED
    BY <1>1, <2>1, <2>2
<1>5. ASSUME NEW g \in u.active, In(u, g)
      PROVE  In(v, g) \/ (In(v, f) /\ f \notin CanActivate)
  <2>1. CASE v.focused = u.focused
    BY <1>5, <2>1 DEF In
  <2>2. CASE In(v, f) /\ Takes(u, f)
    BY <1>2, <2>2 DEF Takes
  <2> QED
    BY <1>1, <2>1, <2>2
<1> QED
  BY <1>1, <1>3, <1>4, <1>5 DEF Settled, Sound

(* So does an activation, which gives the focus to a form that it makes active. *)
LEMMA ActivatedSettled ==
  ASSUME NEW u, Settled(u), NEW f \in Form
  PROVE  LET v == Activate(u, f)
         IN  /\ Settled(v) /\ ToSet(v.z) = ToSet(u.z)
             /\ \A g \in v.active \ u.active :
                  g = f /\ ((\E x \in ToSet(Fields[g]) : Accepts(x)) => In(v, g))
             /\ \A g \in u.active : In(u, g) => In(v, g) \/ g \notin v.active
<1> DEFINE v == Activate(u, f)
<1>1. u \in UI /\ Remembers(u) /\ Alone(u) /\ Held(u) /\ Existing(u, deleted)
  BY DEF Settled, Sound
<1>2. Activated(u, v, f) /\ Alone(v) /\ (Activates(u, f) => v.active = {f})
  BY <1>1, ActivateProperties, ActivateAlone
<1> HIDE DEF v
<1>3. /\ v \in UI /\ Remembers(v) /\ Existing(v, deleted) /\ ToSet(v.z) = ToSet(u.z)
      /\ v.focused = u.focused \/ (In(v, f) /\ Activates(u, f))
      /\ ~Activates(u, f) => v.active = u.active
      /\ Activates(u, f) /\ (\E x \in ToSet(Fields[f]) : Accepts(x)) => In(v, f)
  BY <1>1, <1>2 DEF Activated
<1>4. Held(v)
  <2>1. CASE v.focused = u.focused
    BY <1>1, <1>3, <2>1 DEF Held
  <2>2. CASE In(v, f) /\ Activates(u, f)
    BY <1>3, <2>2 DEF Held, In, Activates
  <2> QED
    BY <1>3, <2>1, <2>2
<1>5. \A g \in v.active \ u.active :
        g = f /\ ((\E x \in ToSet(Fields[g]) : Accepts(x)) => In(v, g))
  BY <1>2, <1>3
<1>6. ASSUME NEW g \in u.active, In(u, g), g \in v.active
      PROVE  In(v, g)
  <2>1. CASE v.focused = u.focused
    BY <1>6, <2>1 DEF In
  <2>2. CASE In(v, f) /\ Activates(u, f)
    BY <1>2, <1>6, <2>2
  <2> QED
    BY <1>3, <2>1, <2>2
<1> QED
  BY <1>2, <1>3, <1>4, <1>5, <1>6 DEF Settled, Sound, v

(* Adding a form that is not shown settles too, and gives it the focus. *)
LEMMA AddedSettled ==
  ASSUME NEW u, Settled(u), NEW f \in Form, f \notin ToSet(u.z)
  PROVE  LET v == OnAdded([u EXCEPT !.z = Append(@, f)], f)
         IN  /\ Settled(v) /\ ToSet(v.z) = ToSet(u.z) \cup {f}
             /\ \A g \in v.active \ u.active :
                  g = f /\ ((\E x \in ToSet(Fields[g]) : Accepts(x)) => In(v, g))
             /\ \A g \in u.active : In(u, g) => In(v, g) \/ g \notin v.active
<1> DEFINE w == [u EXCEPT !.z = Append(@, f)]
           v == Activate(w, f)
<1>1. u \in UI /\ Remembers(u) /\ Alone(u) /\ Held(u) /\ Existing(u, deleted)
  BY DEF Settled, Sound
<1>2. u.z \in Seq(Form) /\ Append(u.z, f) \in Seq(Form) /\ ToSet(Append(u.z, f)) = ToSet(u.z) \cup {f}
  BY <1>1, AppendedProperties DEF UI
<1>3. /\ w \in UI /\ w.z = Append(u.z, f) /\ w.active = u.active /\ w.last_focus = u.last_focus
      /\ w.focused = u.focused
  BY <1>1, <1>2 DEF UI
<1> HIDE DEF w
<1>4. Remembers(w) /\ Existing(w, deleted) /\ Held(w)
  BY <1>1, <1>2, <1>3 DEF Remembers, Existing, Held
<1>5. Activated(w, v, f)
  BY <1>3, <1>4, ActivateProperties
<1>6. \A g \in u.active : g \in ToSet(u.z) /\ u.active = {g}
  BY <1>1, AloneProperties DEF Activates
<1>7. Alone(v) /\ (f \in CanActivate => v.active = {f}) /\ (f \notin CanActivate => v.active = u.active)
  <2>1. CASE f \in NotActivated
    <3>1. v.z = w.z /\ v.active = w.active /\ f \notin CanActivate
      BY <1>5, <2>1 DEF Activated, Activates, NotActivated
    <3> HIDE DEF v
    <3>2. TopOf(Without(w.z, NotActivated)) = TopOf(Without(u.z, NotActivated))
      BY <1>2, <1>3, <2>1, TopOfAppend
    <3> QED
      BY <1>1, <1>3, <3>1, <3>2 DEF Alone, NotActivated
  <2>2. CASE f \notin NotActivated
    <3> DEFINE others == {f} \cup NotActivated
    <3>1. TopOf(Without(u.z, NotActivated)) # f
      BY <1>2, TopAt, FieldsOfForms
    <3>2. TopOf(Without(u.z, others)) = TopOf(Without(u.z, NotActivated))
      BY <1>2, <3>1, OthersTop
    <3>3. f \in others
      OBVIOUS
    <3> HIDE DEF others
    <3>4. TopOf(Without(w.z, others)) = TopOf(Without(u.z, others))
      BY <1>2, <1>3, <3>3, TopOfAppend
    <3>5. AloneBut(w, f)
      BY <1>1, <1>3, <3>2, <3>4 DEF Alone, AloneBut, NotActivated, others
    <3>6. f \notin w.active /\ Activates(w, f)
      BY <1>2, <1>3, <1>6, <2>2 DEF Activates, NotActivated
    <3> QED
      BY <1>3, <1>4, <2>2, <3>5, <3>6, ActivateAloneBut DEF NotActivated
  <2> QED
    BY <2>1, <2>2
<1> HIDE DEF v
<1>8. /\ v \in UI /\ Remembers(v) /\ Existing(v, deleted) /\ ToSet(v.z) = ToSet(u.z) \cup {f}
      /\ v.focused = u.focused \/ (In(v, f) /\ Activates(w, f))
      /\ f \in CanActivate /\ (\E x \in ToSet(Fields[f]) : Accepts(x)) => In(v, f)
  BY <1>2, <1>3, <1>4, <1>5 DEF Activated, Activates
<1>9. Held(v)
  <2>1. CASE v.focused = u.focused
    BY <1>1, <1>8, <2>1 DEF Held
  <2>2. CASE In(v, f)
    BY <1>8, <2>2 DEF Held, In
  <2> QED
    BY <1>8, <2>1, <2>2
<1>10. \A g \in v.active \ u.active :
         g = f /\ ((\E x \in ToSet(Fields[g]) : Accepts(x)) => In(v, g))
  BY <1>7, <1>8
<1>11. ASSUME NEW g \in u.active, In(u, g), g \in v.active
       PROVE  In(v, g)
  <2>1. CASE v.focused = u.focused
    BY <1>11, <2>1 DEF In
  <2>2. CASE In(v, f) /\ Activates(w, f)
    BY <1>7, <1>11, <2>2 DEF Activates
  <2> QED
    BY <1>8, <2>1, <2>2
<1>12. OnAdded([u EXCEPT !.z = Append(@, f)], f) = v
  BY DEF OnAdded, v, w
<1> QED
  BY <1>7, <1>8, <1>9, <1>10, <1>11, <1>12 DEF Settled, Sound

-----------------------------------------------------------------------------
(* The form that Form::OnRemove activates is the only active one when f is left
   out. *)
LEMMA OnRemoveAlone ==
  ASSUME NEW u \in UI, Remembers(u), Alone(u), NEW f \in Form \ Modal
  PROVE  LET v == OnRemove(u, f)
         IN  /\ v \in UI /\ Remembers(v) /\ ToSet(v.z) = ToSet(u.z)
             /\ Existing(u, deleted) => Existing(v, deleted)
             /\ v.active \ {f} = {TopOf(Without(v.z, {f} \cup NotActivated))} \ {NULL}
             /\ \/ v.focused = u.focused
                \/ \E g \in ToSet(u.z) \ {f} : In(v, g) /\ v.active \ {f} = {g}
             /\ \A g \in v.active \ (u.active \cup {f}) : (\E x \in ToSet(Fields[g]) : Accepts(x)) => In(v, g)
<1> DEFINE others == {f} \cup NotActivated
           last == TopOf(Without(u.z, NotActivated))
           top == TopOf(Without(u.z, others))
           left == [u EXCEPT !.active = @ \ {f}]
           v == OnRemove(u, f)
<1>1. u.z \in Seq(Form) /\ u.active = {last} \ {NULL} /\ u.active \subseteq Form
  BY DEF UI, Alone, NotActivated
<1>2. /\ left \in UI /\ left.z = u.z /\ left.active = u.active \ {f}
      /\ left.last_focus = u.last_focus /\ left.focused = u.focused
  BY <1>1 DEF UI
<1>3. v = IF top = NULL THEN left ELSE Activate(left, top)
  BY DEF OnRemove, GetTopMostOtherForm, NotActivated
<1> HIDE DEF left, v
<1>4. Remembers(left) /\ (Existing(u, deleted) => Existing(left, deleted))
  BY <1>2 DEF Remembers, Existing
<1>5. last # f => top = last
  BY <1>1, OthersTop
<1>6. top # NULL => top \in ToSet(u.z) /\ top \notin others
  <2> HIDE DEF others
  <2> QED
    BY <1>1, TopAt
<1>7. ToSet(u.z) \subseteq Form /\ f # NULL
  BY <1>1, TopProperties, FieldsOfForms
<1>8. CASE top = NULL
  <2>1. v = left /\ u.active \ {f} = {}
    BY <1>1, <1>3, <1>5, <1>8
  <2> HIDE DEF others, last
  <2>2. TopOf(Without(v.z, others)) = NULL /\ v.active = {}
    BY <1>2, <1>8, <2>1
  <2> HIDE DEF top
  <2> QED
    BY <1>2, <1>4, <2>1, <2>2 DEF v, others
<1>9. CASE top # NULL
  <2>1. v = Activate(left, top) /\ top \in Form /\ top \in ToSet(u.z) /\ top # f /\ top \in CanActivate
    BY <1>3, <1>6, <1>7, <1>9 DEF NotActivated
  <2>2. Activated(left, v, top)
    BY <1>2, <1>4, <2>1, ActivateProperties
  <2>3. Activates(left, top)
    BY <1>2, <2>1 DEF Activates
  <2>4. CASE top \in left.active
    <3>1. v.z = u.z /\ v.active = {top} /\ u.active = {top}
      BY <1>1, <1>2, <2>2, <2>4 DEF Activated
    <3> HIDE DEF others, last
    <3>2. TopOf(Without(v.z, others)) = top
      BY <3>1
    <3> HIDE DEF top
    <3>3. v.focused = u.focused \/ (In(v, top) /\ v.active \ {f} = {top})
      BY <1>2, <2>1, <2>2, <3>1 DEF Activated
    <3>4. v \in UI /\ Remembers(v) /\ (Existing(u, deleted) => Existing(v, deleted))
      BY <1>4, <2>2 DEF Activated
    <3> QED
      BY <1>9, <2>1, <3>1, <3>2, <3>3, <3>4 DEF v, others
  <2>5. CASE top \notin left.active
    <3>1. last = f /\ left.active = {}
      BY <1>1, <1>2, <1>5, <1>9, <2>1, <2>5
    <3>2. v.z = Raise(u.z, top) /\ v.active = {top} /\ ToSet(v.z) = ToSet(u.z)
      BY <1>2, <2>2, <2>3, <2>5, <3>1 DEF Activated
    <3> HIDE DEF last
    <3>3. TopOf(Without(v.z, others)) = top
      <4>1. top \notin others
        BY <1>6, <1>9
      <4> HIDE DEF others, top
      <4>2. Without(u.z, {top}) \in Seq(Form)
        BY <1>1, WithoutProperties
      <4> QED
        BY <2>1, <3>2, <4>1, <4>2, TopOfAppend DEF Raise
    <3> HIDE DEF others, top
    <3>4. v.focused = u.focused \/ (In(v, top) /\ v.active \ {f} = {top})
      BY <1>2, <2>1, <2>2, <3>2 DEF Activated
    <3>5. v \in UI /\ Remembers(v) /\ (Existing(u, deleted) => Existing(v, deleted))
      BY <1>4, <2>2 DEF Activated
    <3>6. (\E x \in ToSet(Fields[top]) : Accepts(x)) => In(v, top)
      BY <2>2, <2>3 DEF Activated
    <3> QED
      BY <1>9, <2>1, <3>2, <3>3, <3>4, <3>5, <3>6 DEF v, others
  <2> QED
    BY <2>4, <2>5
<1> QED
  BY <1>8, <1>9

(* Removing and deleting a form that is not modal settles. *)
LEMMA RemovedSettled ==
  ASSUME NEW u, Settled(u), deleted \subseteq Field, NEW f \in Form \ Modal
  PROVE  LET v == Destroyed(OnRemove(u, f), f)
         IN  /\ Settled(v) /\ ToSet(v.z) = ToSet(u.z) \ {f} /\ f \notin v.active
             /\ \A g \in v.active \ u.active : (\E x \in ToSet(Fields[g]) : Accepts(x)) => In(v, g)
             /\ \A g \in u.active : In(u, g) => In(v, g) \/ g \notin v.active
<1> DEFINE w == OnRemove(u, f)
           v == Destroyed(w, f)
<1>1. u \in UI /\ Remembers(u) /\ Alone(u) /\ Held(u) /\ Existing(u, deleted)
  BY DEF Settled, Sound
<1>2. /\ w \in UI /\ Remembers(w) /\ ToSet(w.z) = ToSet(u.z) /\ Existing(w, deleted)
      /\ w.active \ {f} = {TopOf(Without(w.z, {f} \cup NotActivated))} \ {NULL}
      /\ \/ w.focused = u.focused
         \/ \E g \in ToSet(u.z) \ {f} : In(w, g) /\ w.active \ {f} = {g}
      /\ \A g \in w.active \ (u.active \cup {f}) : (\E x \in ToSet(Fields[g]) : Accepts(x)) => In(w, g)
  BY <1>1, OnRemoveAlone
<1> HIDE DEF w
<1>3. w.z \in Seq(Form) /\ Without(w.z, {f}) \in Seq(Form) /\ ToSet(Without(w.z, {f})) = ToSet(u.z) \ {f}
  BY <1>2, WithoutProperties DEF UI
<1>4. /\ v.z = Without(w.z, {f}) /\ v.active = w.active \ {f}
      /\ v.last_focus = [w.last_focus EXCEPT ![f] = NULL]
      /\ v.focused = IF In(w, f) THEN NULL ELSE w.focused
      /\ v \in UI
  BY <1>2, <1>3 DEF UI, Destroyed, In
<1> HIDE DEF v
<1>5. Remembers(v) /\ Existing(v, deleted)
  <2>1. \A g \in Form : v.last_focus[g] = IF g = f THEN NULL ELSE w.last_focus[g]
    BY <1>2, <1>4 DEF UI
  <2>2. NULL \notin deleted
    BY FieldsOfForms
  <2> QED
    BY <1>2, <1>4, <2>1, <2>2 DEF Remembers, Existing
<1>6. Alone(v)
  <2>1. TopOf(Without(v.z, NotActivated)) = TopOf(Without(w.z, {f} \cup NotActivated))
    BY <1>3, <1>4, TopOfWithout
  <2> QED
    BY <1>2, <1>4, <2>1 DEF Alone, NotActivated
<1>7. Held(v)
  <2> SUFFICES ASSUME v.focused # NULL
               PROVE  FormOf(v.focused) \notin CanActivate \/ FormOf(v.focused) \in ToSet(v.z)
    BY DEF Held
  <2>1. ~In(w, f) /\ v.focused = w.focused
    BY <1>4
  <2>2. CASE w.focused = u.focused
    BY <1>1, <1>3, <1>4, <2>1, <2>2 DEF Held, In
  <2>3. CASE \E g \in ToSet(u.z) \ {f} : In(w, g)
    BY <1>3, <1>4, <2>1, <2>3 DEF In
  <2> QED
    BY <1>2, <2>2, <2>3
<1>8. ASSUME NEW g \in v.active \ u.active, \E x \in ToSet(Fields[g]) : Accepts(x)
      PROVE  In(v, g)
  BY <1>2, <1>4, <1>8 DEF In
<1>9. ASSUME NEW g \in u.active, In(u, g), g \in v.active
      PROVE  In(v, g)
  <2>1. g # f
    BY <1>4, <1>9
  <2>2. CASE w.focused = u.focused
    BY <1>4, <1>9, <2>1, <2>2 DEF In
  <2>3. CASE \E h \in ToSet(u.z) \ {f} : In(w, h) /\ w.active \ {f} = {h}
    BY <1>4, <1>9, <2>1, <2>3 DEF In
  <2> QED
    BY <1>2, <2>2, <2>3
<1> QED
  BY <1>3, <1>4, <1>5, <1>6, <1>7, <1>8, <1>9 DEF Settled, Sound, v, w

-----------------------------------------------------------------------------
(* What every call has to show *)
Kept == IInv' /\ ActivationFocuses /\ FocusStays

(* Calls that leave fields and dying forms alone, and do to ui what settles *)
LEMMA SettledKept ==
  ASSUME IInv, UNCHANGED <<dying, deleted, disabled>>, Settled(ui'), ToSet(ui.z) \subseteq ToSet(ui'.z),
         \A g \in ui'.active \ ui.active : (\E x \in ToSet(Fields[g]) : Accepts(x)) => In(ui', g),
         \A g \in ui.active : In(ui, g) =>
            In(ui', g) \/ g \notin ui'.active
              \/ (ui'.focused # NULL /\ FormOf(ui'.focused) \notin CanActivate)
  PROVE  Kept
<1>1. IInv'
  BY DEF IInv, Settled, Sound, Existing, Alone, Held, Remembers
<1>2. \A x : Accepts(x)' <=> Accepts(x)
  BY DEF Accepts
<1>3. ActivationFocuses
  BY <1>2 DEF ActivationFocuses, In
<1>4. FocusStays
  BY DEF FocusStays, In
<1> QED
  BY <1>1, <1>3, <1>4 DEF Kept

(* AddChild *)
LEMMA ShowKept ==
  ASSUME IInv, NEW f \in Form, Show(f)
  PROVE  Kept
<1>1. Settled(ui) /\ f \notin ToSet(ui.z)
  BY DEF IInv, Settled, Show, Shown
<1>2. ui' = OnAdded([ui EXCEPT !.z = Append(@, f)], f) /\ UNCHANGED <<dying, deleted, disabled>>
  BY DEF Show
<1> DEFINE v == OnAdded([ui EXCEPT !.z = Append(@, f)], f)
<1>3. /\ Settled(v) /\ ToSet(v.z) = ToSet(ui.z) \cup {f}
      /\ \A g \in v.active \ ui.active :
           g = f /\ ((\E x \in ToSet(Fields[g]) : Accepts(x)) => In(v, g))
      /\ \A g \in ui.active : In(ui, g) => In(v, g) \/ g \notin v.active
  BY <1>1, AddedSettled
<1>4. ui' = v
  BY <1>2
<1> HIDE DEF v
<1> QED
  BY <1>2, <1>3, <1>4, SettledKept

(* Calls that only move the focus *)
LEMMA MovedKept ==
  ASSUME IInv, UNCHANGED <<dying, deleted, disabled>>, NEW f \in Form, Moved(ui, ui', f)
  PROVE  Kept
<1>1. Settled(ui)
  BY DEF IInv, Settled
<1>2. /\ Settled(ui')
      /\ \A g \in ui.active : In(ui, g) => In(ui', g) \/ (In(ui', f) /\ f \notin CanActivate)
  BY <1>1, MovedSettled
<1>3. ui'.z = ui.z /\ ui'.active = ui.active
  BY DEF Moved
<1>4. \A g \in ui.active : In(ui, g) =>
        In(ui', g) \/ g \notin ui'.active
          \/ (ui'.focused # NULL /\ FormOf(ui'.focused) \notin CanActivate)
  BY <1>2 DEF In
<1> QED
  BY <1>2, <1>3, <1>4, SettledKept

(* A press activates, and then focuses a field of the same form. *)
LEMMA InvokePointerDownKept ==
  ASSUME IInv, NEW f \in Form, NEW x \in Field \cup {NULL}, InvokePointerDown(f, x)
  PROVE  Kept
<1> DEFINE v == Activate(ui, f)
<1>1. Settled(ui)
  BY DEF IInv, Settled
<1>2. /\ UNCHANGED <<dying, deleted, disabled>>
      /\ ui' = IF x = NULL THEN v ELSE set_focus(v, x)
      /\ x # NULL => x \in Field /\ FormOf(x) = f
  BY DEF InvokePointerDown
<1>3. /\ Settled(v) /\ ToSet(v.z) = ToSet(ui.z)
      /\ \A g \in v.active \ ui.active :
           g = f /\ ((\E y \in ToSet(Fields[g]) : Accepts(y)) => In(v, g))
      /\ \A g \in ui.active : In(ui, g) => In(v, g) \/ g \notin v.active
  BY <1>1, ActivatedSettled
<1> HIDE DEF v
<1>4. CASE x = NULL
  BY <1>2, <1>3, <1>4, SettledKept
<1>5. CASE x # NULL
  <2>1. x \in ToSet(Fields[f])
    BY <1>2, <1>5, FieldsOfForms
  <2>2. v \in UI /\ Remembers(v)
    BY <1>3 DEF Settled, Sound
  <2>3. Moved(v, ui', f)
    BY <1>2, <1>5, <2>1, <2>2, SetFocusMoves
  <2>4. /\ Settled(ui')
        /\ \A g \in v.active : In(v, g) => In(ui', g) \/ (In(ui', f) /\ f \notin CanActivate)
    BY <1>3, <2>3, MovedSettled
  <2>5. ui'.z = v.z /\ ui'.active = v.active /\ (ui'.focused = v.focused \/ In(ui', f))
    BY <2>3 DEF Moved
  <2>6. \A g \in ui'.active \ ui.active : (\E y \in ToSet(Fields[g]) : Accepts(y)) => In(ui', g)
    BY <1>3, <2>5 DEF In
  <2>7. \A g \in ui.active : In(ui, g) =>
          In(ui', g) \/ g \notin ui'.active
            \/ (ui'.focused # NULL /\ FormOf(ui'.focused) \notin CanActivate)
    BY <1>3, <2>4, <2>5 DEF In
  <2> QED
    BY <1>2, <1>3, <2>4, <2>5, <2>6, <2>7, SettledKept
<1> QED
  BY <1>4, <1>5

(* Tab stays in the form that has the focus. *)
LEMMA InvokeKeyKept ==
  ASSUME IInv, NEW tab \in BOOLEAN, InvokeKey(tab)
  PROVE  Kept
<1>1. ui \in UI /\ Remembers(ui) /\ UNCHANGED <<dying, deleted, disabled>> /\ ui.focused \in Field
  BY DEF IInv, Sound, InvokeKey, UI
<1> DEFINE f == FormOf(ui.focused)
<1>2. f \in Form
  BY <1>1, FieldsOfForms
<1>3. Moved(ui, ui', f)
  <2>1. CASE tab
    BY <1>1, <2>1, MoveFocusMoves DEF InvokeKey
  <2>2. CASE ~tab
    BY <1>1, <2>2 DEF InvokeKey, Moved
  <2> QED
    BY <2>1, <2>2
<1> HIDE DEF f
<1> QED
  BY <1>1, <1>2, <1>3, MovedKept

(* set_focus by the application *)
LEMMA SetFocusKept ==
  ASSUME IInv, NEW x \in Field, SetFocus(x)
  PROVE  Kept
<1>1. ui \in UI /\ Remembers(ui)
  BY DEF IInv, Sound
<1>2. FormOf(x) \in Form /\ x \in ToSet(Fields[FormOf(x)])
  BY FieldsOfForms
<1>3. Moved(ui, ui', FormOf(x)) /\ UNCHANGED <<dying, deleted, disabled>>
  BY <1>1, <1>2, SetFocusMoves DEF SetFocus
<1> QED
  BY <1>2, <1>3, MovedKept

(* The end of a form hands over to the top one that is left. *)
LEMMA RemoveChildKept ==
  ASSUME IInv, NEW f \in Form \ Modal, RemoveChild(f)
  PROVE  Kept
<1>1. Settled(ui) /\ deleted \subseteq Field
  BY DEF IInv, Settled
<1>2. /\ ui' = Destroyed(OnRemove(ui, f), f) /\ dying' = dying \ {f}
      /\ deleted' = deleted \ ToSet(Fields[f]) /\ disabled' = disabled \ ToSet(Fields[f])
  BY DEF RemoveChild
<1>3. /\ Settled(ui') /\ ToSet(ui'.z) = ToSet(ui.z) \ {f} /\ f \notin ui'.active
      /\ \A g \in ui'.active \ ui.active : (\E x \in ToSet(Fields[g]) : Accepts(x)) => In(ui', g)
      /\ \A g \in ui.active : In(ui, g) => In(ui', g) \/ g \notin ui'.active
  BY <1>1, <1>2, RemovedSettled
<1>4. IInv'
  BY <1>2, <1>3 DEF IInv, Settled, Sound, Existing, Alone, Held, Remembers
<1>5. ASSUME NEW g \in ui'.active \ ui.active, \E x \in ToSet(Fields[g]) : Accepts(x)'
      PROVE  In(ui', g)
  <2>1. PICK x \in ToSet(Fields[g]) : Accepts(x)'
    BY <1>5
  <2>2. g # f /\ g \in Form
    BY <1>3 DEF Settled, Sound, UI
  <2>3. FormOf(x) = g
    BY <2>2, FieldsOfForms
  <2>4. x \notin ToSet(Fields[f])
    BY <2>2, <2>3, FieldsOfForms
  <2>5. Accepts(x)
    BY <1>2, <2>1, <2>2, <2>3, <2>4 DEF Accepts
  <2> QED
    BY <1>3, <2>1, <2>5
<1>6. ActivationFocuses
  BY <1>5 DEF ActivationFocuses, In
<1>7. FocusStays
  BY <1>3 DEF FocusStays, In
<1> QED
  BY <1>4, <1>6, <1>7 DEF Kept

(* A deleted field is forgotten by its form and gives the focus away. *)
LEMMA DeleteFieldKept ==
  ASSUME IInv, NEW x \in Field, DeleteField(x)
  PROVE  Kept
<1> DEFINE f == FormOf(x)
           v == IF ui.focused = x /\ f \notin dying THEN MoveFocusFrom(ui, x) ELSE ui
           w == [v EXCEPT !.focused = IF @ = x THEN NULL ELSE @,
                          !.last_focus[f] = IF @ = x THEN NULL ELSE @]
<1>1. /\ Settled(ui) /\ ui \in UI /\ Remembers(ui) /\ dying \subseteq ToSet(ui.z)
      /\ deleted \subseteq Field /\ disabled \subseteq Field
  BY DEF IInv, Settled, Sound
<1>2. f \in Form /\ x # NULL /\ NULL \notin Field
  BY FieldsOfForms
<1>3. ui' = w /\ deleted' = deleted \cup {x} /\ dying' = dying /\ disabled' = disabled
  BY DEF DeleteField
<1>4. Moved(ui, v, f)
  <2>1. Moved(ui, MoveFocusFrom(ui, x), f)
    BY <1>1, MoveFocusMoves
  <2>2. Moved(ui, ui, f)
    BY <1>1 DEF Moved
  <2> QED
    BY <2>1, <2>2
<1>5. ui.focused # x => v = ui
  OBVIOUS
<1> HIDE DEF v, f
<1>6. Settled(v) /\ v \in UI /\ v.z = ui.z /\ v.active = ui.active
  BY <1>1, <1>2, <1>4, MovedSettled DEF Moved
<1>7. /\ w \in UI /\ w.z = v.z /\ w.active = v.active
      /\ w.focused = IF v.focused = x THEN NULL ELSE v.focused
      /\ \A g \in Form : w.last_focus[g] = IF g = f /\ v.last_focus[g] = x THEN NULL ELSE v.last_focus[g]
  BY <1>2, <1>6 DEF UI
<1> HIDE DEF w
<1>8. Remembers(v) /\ Held(v) /\ Alone(v) /\ Existing(v, deleted)
  BY <1>6 DEF Settled, Sound
<1>9. Remembers(w) /\ Held(w) /\ Alone(w)
  BY <1>7, <1>8 DEF Remembers, Held, Alone
<1>10. Existing(w, deleted')
  <2>1. w.focused \notin deleted'
    BY <1>1, <1>2, <1>3, <1>7, <1>8 DEF Existing
  <2>2. ASSUME NEW g \in Form
        PROVE  w.last_focus[g] \notin deleted'
    <3>1. v.last_focus[g] = x => g = f
      BY <1>2, <1>8 DEF Remembers, f
    <3> QED
      BY <1>1, <1>2, <1>3, <1>7, <1>8, <3>1 DEF Existing
  <2> QED
    BY <2>1, <2>2 DEF Existing
<1>11. IInv'
  BY <1>1, <1>3, <1>6, <1>7, <1>9, <1>10 DEF IInv, Sound, Existing, Alone, Held, Remembers
<1>12. ActivationFocuses
  BY <1>3, <1>6, <1>7 DEF ActivationFocuses
<1>13. FocusStays
  BY <1>3, <1>5, <1>7 DEF FocusStays
<1> QED
  BY <1>11, <1>12, <1>13 DEF Kept

(* Calls that do not touch ui *)
LEMMA UntouchedKept ==
  ASSUME IInv, UNCHANGED <<ui, deleted>>, dying' \subseteq ToSet(ui.z), disabled' \subseteq Field
  PROVE  Kept
<1>1. IInv'
  BY DEF IInv, Sound, Existing, Alone, Held, Remembers
<1>2. ActivationFocuses /\ FocusStays
  BY DEF ActivationFocuses, FocusStays
<1> QED
  BY <1>1, <1>2 DEF Kept

(* Every step does, if no form is modal. *)
LEMMA NextKept ==
  ASSUME Modal = {}, IInv, [Next]_vars
  PROVE  Kept
<1>1. ASSUME NEW f \in Form, Show(f) PROVE Kept
  BY <1>1, ShowKept
<1>2. ASSUME NEW f \in Form, Close(f) PROVE Kept
  <2>1. UNCHANGED <<ui, deleted>> /\ dying' \subseteq ToSet(ui.z) /\ disabled' \subseteq Field
    BY <1>2 DEF Close, Shown, IInv
  <2> QED
    BY <2>1, UntouchedKept
<1>3. ASSUME NEW f \in Form, RemoveChild(f) PROVE Kept
  BY <1>3, RemoveChildKept
<1>4. ASSUME NEW f \in Form, NEW x \in Field \cup {NULL}, InvokePointerDown(f, x) PROVE Kept
  BY <1>4, InvokePointerDownKept
<1>5. ASSUME NEW x \in Field, SetFocus(x) PROVE Kept
  BY <1>5, SetFocusKept
<1>6. ASSUME NEW x \in Field, Disable(x) \/ Enable(x) PROVE Kept
  <2>1. UNCHANGED <<ui, deleted>> /\ dying' \subseteq ToSet(ui.z) /\ disabled' \subseteq Field
    BY <1>6 DEF Disable, Enable, IInv
  <2> QED
    BY <2>1, UntouchedKept
<1>7. ASSUME NEW x \in Field, DeleteField(x) PROVE Kept
  BY <1>7, DeleteFieldKept
<1>8. ASSUME NEW tab \in BOOLEAN, InvokeKey(tab) PROVE Kept
  BY <1>8, InvokeKeyKept
<1>9. ASSUME UNCHANGED vars PROVE Kept
  <2>1. UNCHANGED <<ui, deleted>> /\ dying' \subseteq ToSet(ui.z) /\ disabled' \subseteq Field
    BY <1>9 DEF vars, IInv
  <2> QED
    BY <2>1, UntouchedKept
<1> QED
  BY <1>1, <1>2, <1>3, <1>4, <1>5, <1>6, <1>7, <1>8, <1>9 DEF Next

(* No form is there at first. *)
LEMMA InitInv ==
  ASSUME Init
  PROVE  IInv
<1>1. /\ ui = [z |-> <<>>, active |-> {}, last_focus |-> [f \in Form |-> NULL], focused |-> NULL]
      /\ dying = {} /\ deleted = {} /\ disabled = {}
  BY DEF Init
<1>2. Sound(ui) /\ Existing(ui, deleted)
  BY <1>1 DEF Sound, UI, Remembers, Held, Existing
<1>3. ui.z \in Seq(Form) /\ ToSet(ui.z) = {}
  BY <1>1 DEF ToSet
<1>4. TopOf(Without(ui.z, NotActivated)) = NULL
  BY <1>3, TopAt
<1> QED
  BY <1>1, <1>2, <1>4 DEF IInv, Alone, NotActivated

-----------------------------------------------------------------------------
(* IInv is an invariant if no form is modal. *)
THEOREM Invariance ==
  ASSUME Modal = {}
  PROVE  Spec => []IInv
<1>1. IInv /\ [Next]_vars => IInv'
  BY NextKept DEF Kept
<1> QED
  BY <1>1, InitInv, PTL DEF Spec

(* The top form that can be activated is the active one and the only one, and
   neither the focus nor what a form remembers is deleted (form.cc 88, 240). *)
THEOREM FormsSafe ==
  ASSUME Modal = {}
  PROVE  Spec => []FormsAgree
<1>1. IInv => FormsAgree
  <2> SUFFICES ASSUME IInv PROVE FormsAgree
    OBVIOUS
  <2>1. TypeOK
    BY DEF IInv, Sound, UI, TypeOK
  <2>2. TopFormActive
    BY DEF IInv, Alone, TopFormActive
  <2>3. FocusExists
    BY DEF IInv, Sound, Held, Existing, FocusExists, Shown
  <2> QED
    BY <2>1, <2>2, <2>3 DEF FormsAgree
<1> QED
  BY <1>1, Invariance, PTL

(* A form that becomes active gets the focus if any of its fields accepts it,
   and keeps it while it is active (form.cc 111). *)
THEOREM FocusFollowed ==
  ASSUME Modal = {}
  PROVE  Spec => FocusFollows
<1>1. IInv /\ [Next]_vars => [ActivationFocuses /\ FocusStays]_vars
  BY NextKept DEF Kept
<1> QED
  BY <1>1, Invariance, PTL DEF Spec, FocusFollows

-----------------------------------------------------------------------------
(* What the calls under way know of the lists they walk: lists is            *)
(* m_listeners, global g_listeners, asked event_handlers_                    *)

(* The local listeners still to be told are ahead of the iterator. *)
TellsLocals(f, lists) ==
  f.call # "OnEvent" =>
    /\ f.element = nullptr => f.local = nullptr /\ f.locals = {}
    /\ f.element # nullptr => /\ Iterates(lists[f.element], f.local, nullptr)
                           /\ f.locals \subseteq Rest(lists[f.element], f.local, nullptr)

TellsGlobals(f, global) ==
  f.call # "OnEvent" =>
    Iterates(global, f.global, nullptr) /\ f.globals \subseteq Rest(global, f.global, nullptr)

(* Who listens to an element in its destructor has still to be told, or is
   being told, or is about to go from the list of e: only then may it leave. *)
Leaving(f, lf, lists, e, gone) ==
  f.call = "Delete" =>
    /\ f.element # nullptr /\ lf[f.element] = "deleting"
    /\ ToSet(lists[f.element]) \subseteq
         Rest(lists[f.element], f.local, nullptr) \cup {f.in} \cup {x \in gone : f.element = e}

Deletes(f, lf, lists) == Leaving(f, lf, lists, nullptr, {})

(* An element that dies is deleted by Die unless somebody else has done so, or
   is going to. *)
Dies(f) == f.call = "Dying" /\ f.element = nullptr => f.in # nullptr \/ f.handled

(* The functions still to be called are those of handlers ahead of the
   iterator, and the rest of the handler that is calling one. *)
Asks(f, asked, fn, hs) ==
  f.call = "OnEvent" =>
    /\ f.in = nullptr => f.element # nullptr /\ f.target # nullptr
    /\ f.in # nullptr => f.in \in hs
    /\ f.element = nullptr => f.handler = nullptr /\ f.owed = {}
    /\ f.element # nullptr =>
         LET rest == Rest(asked[f.element], f.handler, nullptr)
         IN  /\ Iterates(asked[f.element], f.handler, nullptr)
             /\ f.in \notin rest
             /\ \A o \in f.owed :
                  /\ o[1] \in ToSet(asked[f.element])
                  /\ o[1] \in rest \/ (o[1] = f.in /\ o[2] > f.at)
                  /\ o[2] \in DOMAIN fn[o[1]]
                  /\ f.target # nullptr => Matches(fn[o[1]][o[2]], f.event, f.target)

Knows(f, lists, global, asked, fn, hs) ==
  f \in Frame /\ TellsLocals(f, lists) /\ TellsGlobals(f, global) /\ Dies(f) /\ Asks(f, asked, fn, hs)

FrameAgrees(f, lf, lists, global, asked, fn, hs) ==
  Knows(f, lists, global, asked, fn, hs) /\ Deletes(f, lf, lists)

(* Calls nest: all but the last have called out, or delete a child; an element
   is deleted once at a time, and while it dies it is there. *)
Nested(s, lf) ==
  /\ \A i \in 1..Len(s) : i < Len(s) => s[i].in # nullptr \/ s[i].call = "Delete"
  /\ \A i, j \in 1..Len(s) :
       s[i].call = "Delete" /\ s[j].call = "Delete" /\ s[i].element = s[j].element => i = j
  /\ \A i \in 1..Len(s) :
       s[i].call = "Dying" /\ s[i].element # nullptr =>
         \/ lf[s[i].element] = "dying"
         \/ /\ lf[s[i].element] = "deleting"
            /\ \E j \in 1..Len(s) : j > i /\ s[j].call = "Delete" /\ s[j].element = s[i].element

HandlersOff == \A h \in Handler : h \notin handlers => m_element[h] = nullptr

Stack(s, lf, lists, global, asked, fn, hs) ==
  /\ s \in Seq(Frame)
  /\ \A i \in 1..Len(s) : FrameAgrees(s[i], lf, lists, global, asked, fn, hs)
  /\ Nested(s, lf)

FramesAgree == Stack(notifying, life, m_listeners, g_listeners, event_handlers_, functions, handlers)

ListsAgree == PointersListed /\ NoneLeft /\ HandlersListed /\ HandlersOff

ListenersIInv == ListenersTypeOK /\ ListsAgree /\ FramesAgree

-----------------------------------------------------------------------------
(* nullptr is nobody. *)
LEMMA Nobody ==
  /\ nullptr \notin Element /\ nullptr \notin Local /\ nullptr \notin Handler /\ nullptr \notin Listener
  /\ nullptr \notin Pointer
  /\ Handler \subseteq Pointer /\ Pointer \subseteq Local /\ Listener \subseteq Local
  /\ Pointer \cap Listener = {} /\ Weak \cap Handler = {}
BY ListenersAssumption DEF Local, Pointer

(* A call is one that tells listeners or one that asks handlers. *)
LEMMA FrameKinds ==
  ASSUME NEW f \in Frame
  PROVE  /\ f.call # "OnEvent" => f \in TellingFrame
         /\ f.call = "OnEvent" => f \in AskingFrame
         /\ f.element \in Element \cup {nullptr} /\ f.event \in Event \cup {nullptr}
         /\ f.call \in {"Notify", "InvokeEvent", "Dying", "Delete", "OnEvent"}
BY DEF Frame, TellingFrame, AskingFrame

(* What a notification that goes on may change of its call. *)
Going(f, e, local, locals, global, globals, in, handled) ==
  [f EXCEPT !.element = e, !.local = local, !.locals = locals, !.global = global,
            !.globals = globals, !.in = in, !.handled = handled]

AskingGoing(f, e, target, in, at, handler, owed) ==
  [f EXCEPT !.element = e, !.target = target, !.in = in, !.at = at, !.handler = handler, !.owed = owed]

Owes(at, owed) == at \in Nat /\ owed \in SUBSET (Handler \X Nat)

(* What is removed from the listeners of an element is removed from what its
   notifications have still to tell. *)
LEMMA LocalsLeftAgrees ==
  ASSUME NEW f, NEW e \in Element, NEW gone, NEW lf, NEW global, NEW asked, NEW fn, NEW hs,
         m_listeners[e] \in Seq(Local), IsInjective(m_listeners[e]),
         Knows(f, m_listeners, global, asked, fn, hs), Leaving(f, lf, m_listeners, e, gone),
         NEW lists, lists[e] = Without(m_listeners[e], gone),
         \A d \in Element \ {e} : lists[d] = m_listeners[d]
  PROVE  LET left == LocalsLeft(f, e, gone)
         IN  /\ FrameAgrees(left, lf, lists, global, asked, fn, hs)
             /\ left.call = f.call /\ left.element = f.element /\ left.in = f.in
<1> DEFINE left == LocalsLeft(f, e, gone)
<1>1. f \in Frame
  BY DEF Knows
<1>2. CASE f.call = "OnEvent" \/ f.element # e
  <2>1. left = f
    BY <1>2 DEF LocalsLeft
  <2>2. f.call # "OnEvent" /\ f.element # nullptr => lists[f.element] = m_listeners[f.element]
    BY <1>1, <1>2, FrameKinds
  <2>3. TellsLocals(f, lists)
    BY <2>2 DEF Knows, TellsLocals
  <2>4. Deletes(f, lf, lists)
    BY <1>2, <2>2 DEF Deletes, Leaving
  <2> QED
    BY <2>1, <2>3, <2>4 DEF FrameAgrees, Knows
<1>3. CASE f.call # "OnEvent" /\ f.element = e
  <2> DEFINE at == IF f.local = nullptr THEN nullptr ELSE Stepped(m_listeners[e], f.local, gone, nullptr)
             locals == f.locals \ gone
  <2>1. f \in TellingFrame
    BY <1>1, <1>3, FrameKinds
  <2>2. Iterates(m_listeners[e], f.local, nullptr) /\ f.locals \subseteq Rest(m_listeners[e], f.local, nullptr)
    BY <1>3, Nobody DEF Knows, TellsLocals
  <2>3. /\ Iterates(lists[e], at, nullptr)
        /\ Rest(lists[e], at, nullptr) = Rest(m_listeners[e], f.local, nullptr) \ gone
    BY <2>2, Nobody, RestWithout
  <2>4. ToSet(lists[e]) = ToSet(m_listeners[e]) \ gone
    BY WithoutProperties
  <2>5. ToSet(m_listeners[e]) \subseteq Local
    BY Nobody, FirstProperties
  <2>6. at \in Local \cup {nullptr} /\ locals \in SUBSET Local
    <3> HIDE DEF at
    <3>1. f.locals \in SUBSET Local
      BY <2>1 DEF TellingFrame
    <3> QED
      BY <2>3, <2>4, <2>5, <3>1 DEF Iterates
  <2>7. left = Going(f, f.element, at, locals, f.global, f.globals, f.in, f.handled)
    BY <1>3, <2>1 DEF LocalsLeft, Going, TellingFrame
  <2>8. /\ f.element \in Element \cup {nullptr} /\ f.global \in Listener \cup {nullptr}
        /\ f.globals \in SUBSET Listener /\ f.in \in Listener \cup {nullptr} /\ f.handled \in BOOLEAN
    BY <2>1 DEF TellingFrame
  <2> HIDE DEF at, left
  <2>9. /\ left \in Frame /\ left.call = f.call /\ left.element = e /\ left.in = f.in
        /\ left.handled = f.handled /\ left.local = at /\ left.locals = locals
        /\ left.global = f.global /\ left.globals = f.globals
    <3> HIDE DEF locals
    <3> QED
      BY ONLY <1>3, <2>1, <2>6, <2>7, <2>8 DEF Going, TellingFrame, Frame
  <2>10. TellsLocals(left, lists)
    BY <2>2, <2>3, <2>9, Nobody DEF TellsLocals
  <2>11. Deletes(left, lf, lists)
    BY <1>3, <2>3, <2>4, <2>9 DEF Deletes, Leaving
  <2>12. TellsGlobals(left, global) /\ Dies(left) /\ Asks(left, asked, fn, hs)
    BY <1>3, <2>9 DEF Knows, TellsGlobals, Dies, Asks
  <2> QED
    BY <1>3, <2>9, <2>10, <2>11, <2>12 DEF FrameAgrees, Knows, left
<1> QED
  BY <1>2, <1>3

(* The same of the global listeners. *)
LEMMA GlobalsLeftAgrees ==
  ASSUME NEW f, NEW gone, NEW lf, NEW lists, NEW asked, NEW fn, NEW hs,
         g_listeners \in Seq(Listener), IsInjective(g_listeners),
         FrameAgrees(f, lf, lists, g_listeners, asked, fn, hs)
  PROVE  LET left == GlobalsLeft(f, gone)
         IN  /\ FrameAgrees(left, lf, lists, Without(g_listeners, gone), asked, fn, hs)
             /\ left.call = f.call /\ left.element = f.element /\ left.in = f.in
<1> DEFINE list == Without(g_listeners, gone)
           left == GlobalsLeft(f, gone)
<1>1. f \in Frame
  BY DEF FrameAgrees, Knows
<1>2. CASE f.call = "OnEvent"
  <2>1. left = f
    BY <1>2 DEF GlobalsLeft
  <2> QED
    BY <1>2, <2>1 DEF FrameAgrees, Knows, TellsGlobals
<1>3. CASE f.call # "OnEvent"
  <2> DEFINE at == IF f.global = nullptr THEN nullptr ELSE Stepped(g_listeners, f.global, gone, nullptr)
             globals == f.globals \ gone
  <2>1. f \in TellingFrame
    BY <1>1, <1>3, FrameKinds
  <2>2. Iterates(g_listeners, f.global, nullptr) /\ f.globals \subseteq Rest(g_listeners, f.global, nullptr)
    BY <1>3 DEF FrameAgrees, Knows, TellsGlobals
  <2>3. Iterates(list, at, nullptr) /\ Rest(list, at, nullptr) = Rest(g_listeners, f.global, nullptr) \ gone
    BY <2>2, Nobody, RestWithout
  <2>4. ToSet(list) = ToSet(g_listeners) \ gone /\ ToSet(g_listeners) \subseteq Listener
    BY Nobody, WithoutProperties, FirstProperties
  <2> HIDE DEF at, list
  <2>5. at \in Listener \cup {nullptr} /\ globals \in SUBSET Listener
    <3>1. f.globals \in SUBSET Listener
      BY <2>1 DEF TellingFrame
    <3> QED
      BY <2>3, <2>4, <3>1 DEF Iterates
  <2>6. left = Going(f, f.element, f.local, f.locals, at, globals, f.in, f.handled)
    BY <1>3, <2>1 DEF GlobalsLeft, Going, TellingFrame, at
  <2>7. /\ f.element \in Element \cup {nullptr} /\ f.local \in Local \cup {nullptr}
        /\ f.locals \in SUBSET Local /\ f.in \in Listener \cup {nullptr} /\ f.handled \in BOOLEAN
    BY <2>1 DEF TellingFrame
  <2> HIDE DEF left
  <2>8. /\ left \in Frame /\ left.call = f.call /\ left.element = f.element /\ left.in = f.in
        /\ left.handled = f.handled /\ left.local = f.local /\ left.locals = f.locals
        /\ left.global = at /\ left.globals = globals
    <3> HIDE DEF globals
    <3> QED
      BY ONLY <2>1, <2>5, <2>6, <2>7 DEF Going, TellingFrame, Frame
  <2>9. TellsGlobals(left, list)
    BY <2>2, <2>3, <2>8 DEF TellsGlobals
  <2>10. TellsLocals(left, lists) /\ Deletes(left, lf, lists) /\ Dies(left) /\ Asks(left, asked, fn, hs)
    BY <1>3, <2>8 DEF FrameAgrees, Knows, TellsLocals, Deletes, Leaving, Dies, Asks
  <2> QED
    BY <2>8, <2>9, <2>10 DEF FrameAgrees, Knows, left, list
<1> QED
  BY <1>2, <1>3
(* asked is event_handlers_ without the handler h of e. *)
Quits(asked, e, h) ==
  /\ event_handlers_[e] \in Seq(Handler) /\ IsInjective(event_handlers_[e])
  /\ asked[e] = Without(event_handlers_[e], {h})
  /\ \A d \in Element \ {e} : asked[d] = event_handlers_[d]

(* The same of the handlers of an element; one that calls a function stays. *)
LEMMA HandlersLeftAgrees ==
  ASSUME NEW f, NEW e \in Element, NEW h, NEW lf, NEW lists, NEW global, NEW fn, NEW hs,
         NEW asked, Quits(asked, e, h),
         FrameAgrees(f, lf, lists, global, event_handlers_, fn, hs), f.in # h
  PROVE  LET left == HandlersLeft(f, e, {h})
         IN  /\ FrameAgrees(left, lf, lists, global, asked, fn, hs \ {h})
             /\ left.call = f.call /\ left.element = f.element /\ left.in = f.in
<1> DEFINE left == HandlersLeft(f, e, {h})
<1>0. /\ event_handlers_[e] \in Seq(Handler) /\ IsInjective(event_handlers_[e])
      /\ asked[e] = Without(event_handlers_[e], {h})
      /\ \A d \in Element \ {e} : asked[d] = event_handlers_[d]
  BY DEF Quits
<1>1. f \in Frame
  BY DEF FrameAgrees, Knows
<1>2. CASE f.call # "OnEvent" \/ f.element # e
  <2>1. left = f
    BY <1>2 DEF HandlersLeft
  <2>2. f.call = "OnEvent" /\ f.element # nullptr => asked[f.element] = event_handlers_[f.element]
    BY <1>0, <1>1, <1>2, FrameKinds
  <2>3. Asks(f, asked, fn, hs \ {h})
    BY <2>2 DEF FrameAgrees, Knows, Asks
  <2> QED
    BY <2>1, <2>3 DEF FrameAgrees, Knows
<1>3. CASE f.call = "OnEvent" /\ f.element = e
  <2> DEFINE at == IF f.handler = nullptr THEN nullptr ELSE Stepped(event_handlers_[e], f.handler, {h}, nullptr)
             owed == {o \in f.owed : o[1] \notin {h}}
  <2>1. f \in AskingFrame
    BY <1>1, <1>3, FrameKinds
  <2>2. Asks(f, event_handlers_, fn, hs)
    BY DEF FrameAgrees, Knows
  <2>3. Iterates(event_handlers_[e], f.handler, nullptr)
    BY <1>3, <2>2, Nobody DEF Asks
  <2>4. /\ Iterates(asked[e], at, nullptr)
        /\ Rest(asked[e], at, nullptr) = Rest(event_handlers_[e], f.handler, nullptr) \ {h}
    BY <1>0, <2>3, Nobody, RestWithout
  <2>5. ToSet(asked[e]) = ToSet(event_handlers_[e]) \ {h} /\ ToSet(event_handlers_[e]) \subseteq Handler
    BY <1>0, Nobody, WithoutProperties, FirstProperties
  <2>6. left = AskingGoing(f, f.element, f.target, f.in, f.at, at, owed)
    BY <1>3, <2>1 DEF HandlersLeft, AskingGoing, AskingFrame
  <2> HIDE DEF at
  <2>7. at \in Handler \cup {nullptr} /\ Owes(f.at, owed)
    <3>1. f.at \in Nat /\ f.owed \in SUBSET (Handler \X Nat)
      BY <2>1 DEF AskingFrame
    <3> QED
      BY <2>4, <2>5, <3>1 DEF Iterates, Owes
  <2>8. /\ f.element \in Element \cup {nullptr} /\ f.target \in Element \cup {nullptr}
        /\ f.in \in Handler \cup {nullptr}
    BY <2>1 DEF AskingFrame
  <2> HIDE DEF left
  <2>9. /\ left \in Frame /\ left.call = f.call /\ left.element = e /\ left.in = f.in
        /\ left.event = f.event /\ left.target = f.target /\ left.at = f.at
        /\ left.handler = at /\ left.owed = owed
    <3> HIDE DEF owed
    <3> QED
      <4> DEFINE g == AskingGoing(f, f.element, f.target, f.in, f.at, at, owed)
      <4>1. /\ g \in Frame /\ g.call = f.call /\ g.event = f.event
            /\ g.element = f.element /\ g.target = f.target /\ g.in = f.in /\ g.at = f.at
            /\ g.handler = at /\ g.owed = owed
        BY ONLY f \in AskingFrame, <2>7, <2>8 DEF AskingGoing, AskingFrame, Frame, Owes
      <4> QED
        BY <1>3, <2>6, <4>1
  <2>10. Asks(left, asked, fn, hs \ {h})
    BY <1>3, <2>2, <2>4, <2>5, <2>9, Nobody DEF Asks
  <2>11. TellsLocals(left, lists) /\ TellsGlobals(left, global) /\ Dies(left) /\ Deletes(left, lf, lists)
    BY <1>3, <2>9 DEF TellsLocals, TellsGlobals, Dies, Deletes, Leaving
  <2> QED
    BY <1>3, <2>9, <2>10, <2>11 DEF FrameAgrees, Knows, left
<1> QED
  BY <1>2, <1>3

(* Who comes last is not told of what is under way; nobody comes while an
   element is deleted. *)
LEMMA LocalAdded ==
  ASSUME NEW f, NEW e \in Element, NEW l \in Local, NEW lf, NEW old, NEW global, NEW asked, NEW fn, NEW hs,
         old[e] \in Seq(Local), lf[e] # "deleting",
         FrameAgrees(f, lf, old, global, asked, fn, hs),
         NEW lists, lists[e] = Append(old[e], l), \A d \in Element \ {e} : lists[d] = old[d]
  PROVE  FrameAgrees(f, lf, lists, global, asked, fn, hs)
<1>1. f \in Frame
  BY DEF FrameAgrees, Knows
<1>2. f.call # "OnEvent" /\ f.element \notin {e, nullptr} => lists[f.element] = old[f.element]
  BY <1>1, FrameKinds
<1>3. TellsLocals(f, lists)
  <2>1. TellsLocals(f, old)
    BY DEF FrameAgrees, Knows
  <2>2. CASE f.call # "OnEvent" /\ f.element = e
    <3>1. Iterates(old[e], f.local, nullptr) /\ f.locals \subseteq Rest(old[e], f.local, nullptr)
      BY <2>1, <2>2, Nobody DEF TellsLocals
    <3>2. Iterates(lists[e], f.local, nullptr) /\ Rest(old[e], f.local, nullptr) \subseteq Rest(lists[e], f.local, nullptr)
      BY <3>1, RestAppend
    <3> QED
      BY <2>2, <3>1, <3>2, Nobody DEF TellsLocals
  <2> QED
    BY <1>2, <2>1, <2>2 DEF TellsLocals
<1>4. Deletes(f, lf, lists)
  BY <1>2 DEF FrameAgrees, Deletes, Leaving
<1> QED
  BY <1>3, <1>4 DEF FrameAgrees, Knows

(* A global listener is added: what a call knows of the others stays true. *)
LEMMA GlobalAdded ==
  ASSUME NEW f, NEW l \in Listener, NEW lf, NEW lists, NEW global \in Seq(Listener), NEW asked, NEW fn, NEW hs,
         FrameAgrees(f, lf, lists, global, asked, fn, hs)
  PROVE  FrameAgrees(f, lf, lists, Append(global, l), asked, fn, hs)
<1>1. TellsGlobals(f, Append(global, l))
  <2>1. SUFFICES ASSUME f.call # "OnEvent"
                 PROVE  TellsGlobals(f, Append(global, l))
    BY DEF TellsGlobals
  <2>2. Iterates(global, f.global, nullptr) /\ f.globals \subseteq Rest(global, f.global, nullptr)
    BY <2>1 DEF FrameAgrees, Knows, TellsGlobals
  <2>3. /\ Iterates(Append(global, l), f.global, nullptr)
        /\ Rest(global, f.global, nullptr) \subseteq Rest(Append(global, l), f.global, nullptr)
    BY <2>2, RestAppend
  <2> QED
    BY <2>2, <2>3 DEF TellsGlobals
<1> QED
  BY <1>1 DEF FrameAgrees, Knows

(* h comes last to the handlers of e. *)
Joins(asked, old, calls, fn, hs, e, h) ==
  /\ old[e] \in Seq(Handler) /\ h \notin hs /\ \A d \in Element : h \notin ToSet(old[d])
  /\ asked[e] = Append(old[e], h) /\ \A d \in Element \ {e} : asked[d] = old[d]
  /\ \A k \in Handler \ {h} : calls[k] = fn[k]

(* A new handler is asked last, and has no functions yet. *)
LEMMA HandlerAdded ==
  ASSUME NEW f, NEW e \in Element, NEW h \in Handler, NEW lf, NEW lists, NEW global, NEW old, NEW fn, NEW hs,
         NEW asked, NEW calls, Joins(asked, old, calls, fn, hs, e, h),
         FrameAgrees(f, lf, lists, global, old, fn, hs)
  PROVE  FrameAgrees(f, lf, lists, global, asked, calls, hs \cup {h})
<1>0. /\ old[e] \in Seq(Handler) /\ h \notin hs /\ \A d \in Element : h \notin ToSet(old[d])
      /\ asked[e] = Append(old[e], h) /\ \A d \in Element \ {e} : asked[d] = old[d]
      /\ \A k \in Handler \ {h} : calls[k] = fn[k]
  BY DEF Joins
<1>1. f \in Frame
  BY DEF FrameAgrees, Knows
<1>2. Asks(f, asked, calls, hs \cup {h})
  <2>1. SUFFICES ASSUME f.call = "OnEvent"
                 PROVE  Asks(f, asked, calls, hs \cup {h})
    BY DEF Asks
  <2>2. f \in AskingFrame /\ Asks(f, old, fn, hs)
    BY <1>1, <2>1, FrameKinds DEF FrameAgrees, Knows
  <2>3. f.in # h
    BY <1>0, <2>1, <2>2, Nobody DEF Asks
  <2>4. CASE f.element = nullptr
    BY <2>1, <2>2, <2>4 DEF Asks
  <2>5. CASE f.element # nullptr
    <3>1. f.element \in Element
      BY <2>2, <2>5 DEF AskingFrame
    <3> DEFINE rest == Rest(old[f.element], f.handler, nullptr)
               rest2 == Rest(asked[f.element], f.handler, nullptr)
    <3>2. Iterates(old[f.element], f.handler, nullptr) /\ f.in \notin rest
      BY <2>1, <2>2, <2>5 DEF Asks
    <3>3. /\ Iterates(asked[f.element], f.handler, nullptr)
          /\ rest \subseteq rest2 /\ rest2 \subseteq rest \cup {h}
          /\ ToSet(old[f.element]) \subseteq ToSet(asked[f.element])
      <4>1. CASE f.element = e
        <5>1. asked[e] = Append(old[e], h) /\ Iterates(old[e], f.handler, nullptr)
          BY <1>0, <3>2, <4>1
        <5>2. ToSet(Append(old[e], h)) = ToSet(old[e]) \cup {h}
          BY <1>0, AppendedProperties
        <5>3. /\ Iterates(Append(old[e], h), f.handler, nullptr)
              /\ Rest(old[e], f.handler, nullptr) \subseteq Rest(Append(old[e], h), f.handler, nullptr)
              /\ Rest(Append(old[e], h), f.handler, nullptr) \subseteq Rest(old[e], f.handler, nullptr) \cup {h}
          BY <1>0, <5>1, RestAppend
        <5> QED
          BY <4>1, <5>1, <5>2, <5>3
      <4>2. CASE f.element # e
        BY <1>0, <3>1, <3>2, <4>2
      <4> QED
        BY <4>1, <4>2
    <3> HIDE DEF rest, rest2
    <3>4. f.in \notin rest2
      BY <2>3, <3>2, <3>3
    <3>5. ASSUME NEW o \in f.owed
          PROVE  /\ o[1] \in ToSet(asked[f.element])
                 /\ o[1] \in rest2 \/ (o[1] = f.in /\ o[2] > f.at)
                 /\ o[2] \in DOMAIN calls[o[1]]
                 /\ f.target # nullptr => Matches(calls[o[1]][o[2]], f.event, f.target)
      <4>1. /\ o[1] \in ToSet(old[f.element])
            /\ o[1] \in rest \/ (o[1] = f.in /\ o[2] > f.at)
            /\ o[2] \in DOMAIN fn[o[1]]
            /\ f.target # nullptr => Matches(fn[o[1]][o[2]], f.event, f.target)
        BY <2>1, <2>2, <2>5 DEF Asks, rest
      <4>2. o[1] \in Handler /\ o[1] # h
        BY <1>0, <2>2, <3>1, <4>1 DEF AskingFrame
      <4> QED
        BY <1>0, <3>3, <4>1, <4>2
    <3> QED
      BY <2>1, <2>2, <2>5, <3>3, <3>4, <3>5 DEF Asks, rest2
  <2> QED
    BY <2>4, <2>5
<1> QED
  BY <1>2 DEF FrameAgrees, Knows
(* The functions of a handler stay where they are. *)
LEMMA FunctionAdded ==
  ASSUME NEW f, NEW h \in Handler, NEW x, NEW lf, NEW lists, NEW global, NEW asked, NEW fn, NEW hs,
         fn[h] \in Seq(Function), x \in Function,
         \A d \in Element : ToSet(asked[d]) \subseteq Handler,
         FrameAgrees(f, lf, lists, global, asked, fn, hs),
         NEW calls, calls[h] = Append(fn[h], x), \A k \in Handler \ {h} : calls[k] = fn[k]
  PROVE  FrameAgrees(f, lf, lists, global, asked, calls, hs)
<1>1. f \in Frame
  BY DEF FrameAgrees, Knows
<1>2. DOMAIN fn[h] \subseteq DOMAIN calls[h] /\ \A i \in DOMAIN fn[h] : calls[h][i] = fn[h][i]
  BY AppendProperties
<1>3. \A k \in Handler : DOMAIN fn[k] \subseteq DOMAIN calls[k] /\ \A i \in DOMAIN fn[k] : calls[k][i] = fn[k][i]
  BY <1>2
<1>4. Asks(f, asked, calls, hs)
  <2>1. Asks(f, asked, fn, hs)
    BY DEF FrameAgrees, Knows
  <2>2. f.call = "OnEvent" /\ f.element # nullptr => \A o \in f.owed : o[1] \in Handler
    BY <1>1, <2>1, FrameKinds DEF Asks
  <2> QED
    BY <1>3, <2>1, <2>2 DEF Asks
<1> QED
  BY <1>4 DEF FrameAgrees, Knows

(* Only an element in its destructor is in it for good. *)
LEMMA LifeChanged ==
  ASSUME NEW f, NEW lf, NEW lists, NEW global, NEW asked, NEW fn, NEW hs,
         FrameAgrees(f, lf, lists, global, asked, fn, hs),
         NEW new, f.call = "Delete" /\ lf[f.element] = "deleting" => new[f.element] = "deleting"
  PROVE  FrameAgrees(f, new, lists, global, asked, fn, hs)
BY DEF FrameAgrees, Deletes, Leaving

(* A notification that begins is to reach everyone. *)
LEMMA InvokeAgrees ==
  ASSUME ListenersTypeOK, NEW call \in {"Notify", "InvokeEvent", "Dying", "Delete"}, NEW e \in Element,
         NEW event \in Event \cup {nullptr}, NEW lf, call = "Delete" => lf[e] = "deleting",
         NEW asked, NEW fn, NEW hs
  PROVE  LET f == Invoke(call, e, event)
         IN  /\ FrameAgrees(f, lf, m_listeners, g_listeners, asked, fn, hs)
             /\ f.call = call /\ f.element = e /\ f.in = nullptr /\ ~f.handled
<1> DEFINE f == Invoke(call, e, event)
           local == FirstOf(m_listeners[e], nullptr)
           global == FirstOf(g_listeners, nullptr)
           locals == ToSet(m_listeners[e])
           globals == ToSet(g_listeners)
<1>1. m_listeners[e] \in Seq(Local) /\ g_listeners \in Seq(Listener)
  BY DEF ListenersTypeOK
<1>2. /\ Iterates(m_listeners[e], local, nullptr) /\ Rest(m_listeners[e], local, nullptr) = locals
      /\ Iterates(g_listeners, global, nullptr) /\ Rest(g_listeners, global, nullptr) = globals
  BY <1>1, Nobody, RestFirst
<1>3. locals \subseteq Local /\ globals \subseteq Listener
  BY <1>1, Nobody, FirstProperties
<1>4. local \in Local \cup {nullptr} /\ global \in Listener \cup {nullptr}
  <2> HIDE DEF local, global
  <2> QED
    BY <1>2, <1>3 DEF Iterates
<1>5. f = [call |-> call, element |-> e, event |-> event, handled |-> FALSE, in |-> nullptr,
           local |-> local, global |-> global, locals |-> locals, globals |-> globals]
  BY DEF Invoke
<1>6. ToSet(m_listeners[e]) = locals
  OBVIOUS
<1> HIDE DEF f, local, global, locals, globals
<1>7. f \in TellingFrame /\ f \in Frame
  BY <1>3, <1>4, <1>5 DEF TellingFrame, Frame
<1>8. /\ f.call = call /\ f.element = e /\ f.in = nullptr /\ ~f.handled
      /\ f.local = local /\ f.global = global /\ f.locals = locals /\ f.globals = globals
  BY <1>5
<1>9. TellsLocals(f, m_listeners) /\ TellsGlobals(f, g_listeners)
  BY <1>2, <1>8, Nobody DEF TellsLocals, TellsGlobals
<1>10. Dies(f) /\ Asks(f, asked, fn, hs)
  BY <1>8, Nobody DEF Dies, Asks
<1>11. Deletes(f, lf, m_listeners)
  BY <1>2, <1>6, <1>8, Nobody DEF Deletes, Leaving
<1> QED
  BY <1>7, <1>8, <1>9, <1>10, <1>11 DEF FrameAgrees, Knows, f

(* So is an event. *)
LEMMA OnEventAgrees ==
  ASSUME ListenersTypeOK, NEW e \in Element, NEW event \in Event \cup {nullptr}, NEW target \in Element,
         NEW lf, NEW lists, NEW global, NEW hs
  PROVE  LET f == OnEvent(e, event, target)
         IN  /\ FrameAgrees(f, lf, lists, global, event_handlers_, functions, hs)
             /\ f.call = "OnEvent" /\ f.element = e
<1> DEFINE f == OnEvent(e, event, target)
           handler == FirstOf(event_handlers_[e], nullptr)
           owed == UNION {{<<h, i>> : i \in Matching(h, event, target)} : h \in ToSet(event_handlers_[e])}
<1>1. event_handlers_[e] \in Seq(Handler) /\ functions \in [Handler -> Seq(Function)]
  BY DEF ListenersTypeOK
<1>2. Iterates(event_handlers_[e], handler, nullptr) /\ Rest(event_handlers_[e], handler, nullptr) = ToSet(event_handlers_[e])
  BY <1>1, Nobody, RestFirst
<1>3. ToSet(event_handlers_[e]) \subseteq Handler /\ nullptr \notin ToSet(event_handlers_[e])
  BY <1>1, Nobody, FirstProperties
<1>4. handler \in Handler \cup {nullptr}
  <2> HIDE DEF handler
  <2> QED
    BY <1>2, <1>3 DEF Iterates
<1>5. ASSUME NEW o \in owed
      PROVE  /\ o \in Handler \X Nat /\ o[1] \in ToSet(event_handlers_[e])
             /\ o[2] \in DOMAIN functions[o[1]] /\ Matches(functions[o[1]][o[2]], event, target)
  <2>1. PICK h \in ToSet(event_handlers_[e]) : \E i \in Matching(h, event, target) : o = <<h, i>>
    OBVIOUS
  <2>2. PICK i \in Matching(h, event, target) : o = <<h, i>>
    BY <2>1
  <2>3. i \in DOMAIN functions[h] /\ Matches(functions[h][i], event, target)
    BY DEF Matching
  <2>4. h \in Handler /\ functions[h] \in Seq(Function)
    BY <1>1, <1>3
  <2>5. i \in Nat
    BY <2>3, <2>4
  <2> QED
    BY <2>2, <2>3, <2>4, <2>5
<1>6. f = [call |-> "OnEvent", element |-> e, event |-> event, target |-> target, in |-> nullptr, at |-> 0,
           handler |-> handler, owed |-> owed]
  BY DEF OnEvent
<1> HIDE DEF f, handler, owed
<1>7. owed \in SUBSET (Handler \X Nat)
  BY <1>5
<1>8. f \in AskingFrame /\ f \in Frame
  BY <1>4, <1>6, <1>7 DEF AskingFrame, Frame
<1>9. /\ f.call = "OnEvent" /\ f.element = e /\ f.event = event /\ f.target = target /\ f.in = nullptr
      /\ f.at = 0 /\ f.handler = handler /\ f.owed = owed
  BY <1>6
<1>10. TellsLocals(f, lists) /\ TellsGlobals(f, global) /\ Dies(f) /\ Deletes(f, lf, lists)
  BY <1>9 DEF TellsLocals, TellsGlobals, Dies, Deletes, Leaving
<1>11. Asks(f, event_handlers_, functions, hs)
  BY <1>2, <1>3, <1>5, <1>9, Nobody DEF Asks
<1> QED
  BY <1>8, <1>9, <1>10, <1>11 DEF FrameAgrees, Knows, f
(* A call under way that loses its element goes on with who it has called. *)
LEMMA ForgetAgrees ==
  ASSUME NEW f, NEW e \in Element, NEW lf, NEW lists, NEW global, NEW old, NEW fn, NEW hs,
         FrameAgrees(f, lf, lists, global, old, fn, hs),
         f.in # nullptr \/ f.call = "Delete", f.call = "Delete" => f.element # e,
         NEW new, \A d \in Element \ {e} : new[d] = lf[d],
         NEW asked, \A d \in Element \ {e} : asked[d] = old[d]
  PROVE  LET left == Forget(f, e)
         IN  /\ FrameAgrees(left, new, lists, global, asked, fn, hs)
             /\ left.call = f.call /\ left.in = f.in
             /\ left.element = IF f.element = e THEN nullptr ELSE f.element
<1> DEFINE left == Forget(f, e)
           element == IF f.element = e THEN nullptr ELSE f.element
<1>1. f \in Frame
  BY DEF FrameAgrees, Knows
<1>2. element \in Element \cup {nullptr} /\ element # e /\ e # nullptr /\ (element # nullptr => element = f.element)
  BY <1>1, FrameKinds, Nobody
<1>3. element # nullptr => new[element] = lf[element] /\ asked[element] = old[element]
  <2> HIDE DEF element
  <2> QED
    BY <1>2
<1>4. CASE f.call # "OnEvent"
  <2> DEFINE local == IF f.element = e THEN nullptr ELSE f.local
             locals == IF f.element = e THEN {} ELSE f.locals
  <2>1. f \in TellingFrame
    BY <1>1, <1>4, FrameKinds
  <2>2. left = Going(f, element, local, locals, f.global, f.globals, f.in, f.handled)
    BY <1>4, <2>1 DEF Forget, Going, TellingFrame
  <2>3. local \in Local \cup {nullptr} /\ locals \in SUBSET Local
    BY <2>1 DEF TellingFrame
  <2>4. f.element = e => element = nullptr /\ local = nullptr /\ locals = {}
    OBVIOUS
  <2>5. f.element # e => element = f.element /\ local = f.local /\ locals = f.locals
    OBVIOUS
  <2> HIDE DEF left, local, locals, element
  <2>6. /\ left \in Frame /\ left.call = f.call /\ left.element = element /\ left.in = f.in
        /\ left.handled = f.handled /\ left.local = local /\ left.locals = locals
        /\ left.global = f.global /\ left.globals = f.globals
    BY ONLY <1>2, <2>1, <2>2, <2>3 DEF Going, TellingFrame, Frame
  <2>7. TellsLocals(left, lists)
    BY <1>4, <2>4, <2>5, <2>6, Nobody DEF FrameAgrees, Knows, TellsLocals
  <2>8. Deletes(left, new, lists)
    BY <1>2, <1>3, <1>4, <2>4, <2>5, <2>6 DEF FrameAgrees, Deletes, Leaving
  <2>9. TellsGlobals(left, global) /\ Asks(left, asked, fn, hs)
    BY <1>4, <2>6 DEF FrameAgrees, Knows, TellsGlobals, Asks
  <2>10. Dies(left)
    BY <2>6 DEF Dies
  <2> QED
    BY <1>4, <2>6, <2>7, <2>8, <2>9, <2>10 DEF FrameAgrees, Knows, left, element
<1>5. CASE f.call = "OnEvent"
  <2> DEFINE target == IF f.target = e THEN nullptr ELSE f.target
             handler == IF f.element = e THEN nullptr ELSE f.handler
             owed == IF f.element = e THEN {} ELSE f.owed
  <2>1. f \in AskingFrame
    BY <1>1, <1>5, FrameKinds
  <2>2. left = AskingGoing(f, element, target, f.in, f.at, handler, owed)
    BY <1>5, <2>1 DEF Forget, AskingGoing, AskingFrame
  <2>3. target \in Element \cup {nullptr} /\ handler \in Handler \cup {nullptr} /\ Owes(f.at, owed)
    BY <2>1 DEF AskingFrame, Owes
  <2>4. f.element = e => element = nullptr /\ handler = nullptr /\ owed = {}
    OBVIOUS
  <2>5. f.element # e => element = f.element /\ handler = f.handler /\ owed = f.owed
    OBVIOUS
  <2>6. target # nullptr => target = f.target
    OBVIOUS
  <2> HIDE DEF left, target, handler, owed, element
  <2>7. /\ left \in Frame /\ left.call = "OnEvent" /\ left.element = element /\ left.in = f.in
        /\ left.event = f.event /\ left.target = target /\ left.at = f.at
        /\ left.handler = handler /\ left.owed = owed
    BY ONLY <1>2, <1>5, <2>1, <2>2, <2>3 DEF AskingGoing, AskingFrame, Frame, Owes
  <2>8. Asks(f, old, fn, hs) /\ f.in # nullptr
    BY <1>5 DEF FrameAgrees, Knows
  <2>9. Asks(left, asked, fn, hs)
    <3>1. CASE element = nullptr
      BY <1>5, <2>4, <2>5, <2>7, <2>8, <3>1 DEF Asks
    <3>2. CASE element # nullptr
      <4>1. f.element # e /\ asked[element] = old[f.element] /\ f.element # nullptr
        BY <1>3, <2>4, <2>5, <3>2
      <4> QED
        BY <1>5, <2>5, <2>6, <2>7, <2>8, <3>2, <4>1 DEF Asks
    <3> QED
      BY <3>1, <3>2
  <2>10. TellsLocals(left, lists) /\ TellsGlobals(left, global) /\ Dies(left) /\ Deletes(left, new, lists)
    BY <2>7 DEF TellsLocals, TellsGlobals, Dies, Deletes, Leaving
  <2> QED
    BY <1>5, <2>7, <2>9, <2>10 DEF FrameAgrees, Knows, left, element
<1> QED
  BY <1>4, <1>5
-----------------------------------------------------------------------------
(* The stack of calls *)

(* A function on the indices of a sequence of calls is one. *)
LEMMA Mapped ==
  ASSUME NEW s \in Seq(Frame), NEW t, t = [i \in DOMAIN s |-> t[i]], \A i \in 1..Len(s) : t[i] \in Frame
  PROVE  t \in Seq(Frame) /\ Len(t) = Len(s)
<1>1. Len(s) \in Nat /\ DOMAIN s = 1..Len(s)
  OBVIOUS
<1>2. t \in [1..Len(s) -> Frame]
  BY <1>1
<1>3. t \in Seq(Frame)
  BY <1>1, <1>2
<1>4. DOMAIN t = 1..Len(s) /\ DOMAIN t = 1..Len(t) /\ Len(t) \in Nat
  BY <1>2, <1>3
<1> QED
  BY <1>1, <1>3, <1>4

(* A call that is neither the end of an element nor its death may become
   another such call. *)
Alike(f, g) ==
  \/ g.call = f.call /\ g.element = f.element
  \/ f.call \notin {"Delete", "Dying"} /\ g.call \notin {"Delete", "Dying"}

(* Calls stay nested when each keeps its kind, its element and where it called out. *)
LEMMA NestedChanged ==
  ASSUME NEW s, NEW lf, Nested(s, lf), NEW t, Len(t) = Len(s),
         \A i \in 1..Len(s) : Alike(s[i], t[i]),
         \A i \in 1..Len(s) : i < Len(s) => t[i].in = s[i].in /\ t[i].call = s[i].call
  PROVE  Nested(t, lf)
<1>1. Nested(s, lf)
  OBVIOUS
<1>2. \A i \in 1..Len(t) : i < Len(t) => t[i].in # nullptr \/ t[i].call = "Delete"
  BY <1>1 DEF Nested
<1>3. \A i, j \in 1..Len(t) :
        t[i].call = "Delete" /\ t[j].call = "Delete" /\ t[i].element = t[j].element => i = j
  BY <1>1 DEF Nested, Alike
<1>4. ASSUME NEW i \in 1..Len(t), t[i].call = "Dying", t[i].element # nullptr
      PROVE  \/ lf[t[i].element] = "dying"
             \/ /\ lf[t[i].element] = "deleting"
                /\ \E j \in 1..Len(t) : j > i /\ t[j].call = "Delete" /\ t[j].element = t[i].element
  <2>1. s[i].call = "Dying" /\ s[i].element = t[i].element
    BY <1>4 DEF Alike
  <2>2. CASE lf[s[i].element] = "dying"
    BY <2>1, <2>2
  <2>3. CASE lf[s[i].element] # "dying"
    <3>1. lf[s[i].element] = "deleting"
      BY <1>1, <1>4, <2>1, <2>3 DEF Nested
    <3>2. PICK j \in 1..Len(s) : j > i /\ s[j].call = "Delete" /\ s[j].element = s[i].element
      BY <1>1, <1>4, <2>1, <2>3 DEF Nested
    <3>3. t[j].call = "Delete" /\ t[j].element = s[j].element
      BY <3>2 DEF Alike
    <3> QED
      BY <2>1, <3>1, <3>2, <3>3
  <2> QED
    BY <2>2, <2>3
<1> QED
  BY <1>2, <1>3, <1>4 DEF Nested

(* What is removed from the list of an element, in the course of frames *)
LEMMA RemoveLocalAgrees ==
  ASSUME ListenersTypeOK, NEW e \in Element, NEW gone, NEW frames \in Seq(Frame), Nested(frames, life),
         NEW asked, NEW fn, NEW hs,
         \A i \in 1..Len(frames) : /\ Knows(frames[i], m_listeners, g_listeners, asked, fn, hs)
                                   /\ Leaving(frames[i], life, m_listeners, e, gone),
         RemoveLocal(frames, e, gone)
  PROVE  /\ Stack(notifying', life, m_listeners', g_listeners, asked, fn, hs)
         /\ m_listeners' \in [Element -> Seq(Local)] /\ \A d \in Element : IsInjective(m_listeners'[d])
         /\ \A d \in Element : d # e => m_listeners'[d] = m_listeners[d]
         /\ ToSet(m_listeners'[e]) = ToSet(m_listeners[e]) \ gone
<1>1. m_listeners \in [Element -> Seq(Local)] /\ \A d \in Element : IsInjective(m_listeners[d])
  BY DEF ListenersTypeOK
<1>2. /\ m_listeners' = [m_listeners EXCEPT ![e] = Without(@, gone)]
      /\ notifying' = [i \in DOMAIN frames |-> LocalsLeft(frames[i], e, gone)]
  BY DEF RemoveLocal
<1>3. m_listeners'[e] = Without(m_listeners[e], gone) /\ \A d \in Element \ {e} : m_listeners'[d] = m_listeners[d]
  BY <1>1, <1>2
<1>4. /\ Without(m_listeners[e], gone) \in Seq(Local) /\ IsInjective(Without(m_listeners[e], gone))
      /\ ToSet(Without(m_listeners[e], gone)) = ToSet(m_listeners[e]) \ gone
  BY <1>1, WithoutProperties
<1>5. /\ m_listeners' \in [Element -> Seq(Local)] /\ \A d \in Element : IsInjective(m_listeners'[d])
      /\ ToSet(m_listeners'[e]) = ToSet(m_listeners[e]) \ gone
  BY <1>1, <1>2, <1>3, <1>4
<1>6. DOMAIN frames = 1..Len(frames)
  OBVIOUS
<1>7. ASSUME NEW i \in 1..Len(frames)
      PROVE  /\ FrameAgrees(notifying'[i], life, m_listeners', g_listeners, asked, fn, hs)
             /\ notifying'[i].call = frames[i].call /\ notifying'[i].element = frames[i].element
             /\ notifying'[i].in = frames[i].in
  <2>1. notifying'[i] = LocalsLeft(frames[i], e, gone)
    BY <1>2, <1>6
  <2> QED
    BY <1>1, <1>3, <2>1, LocalsLeftAgrees
<1>8. notifying' \in Seq(Frame) /\ Len(notifying') = Len(frames)
  <2>1. \A i \in 1..Len(frames) : notifying'[i] \in Frame
    BY <1>7 DEF FrameAgrees, Knows
  <2>2. notifying' = [i \in DOMAIN frames |-> notifying'[i]]
    BY <1>2
  <2> QED
    BY <2>1, <2>2, Mapped
<1>9. Nested(notifying', life)
  <2>1. \A i \in 1..Len(frames) : Alike(frames[i], notifying'[i])
    BY <1>7 DEF Alike
  <2>2. \A i \in 1..Len(frames) : notifying'[i].in = frames[i].in /\ notifying'[i].call = frames[i].call
    BY <1>7
  <2> QED
    BY <1>8, <2>1, <2>2, NestedChanged
<1>10. Stack(notifying', life, m_listeners', g_listeners, asked, fn, hs)
  BY <1>7, <1>8, <1>9 DEF Stack
<1> QED
  BY <1>3, <1>5, <1>10

(* A weak pointer that lets go *)
LEMMA ReleaseAgrees ==
  ASSUME ListenersTypeOK, PointersListed, NEW p \in Pointer, NEW frames \in Seq(Frame), Nested(frames, life),
         NEW asked, NEW fn, NEW hs,
         \A i \in 1..Len(frames) : /\ Knows(frames[i], m_listeners, g_listeners, asked, fn, hs)
                                   /\ Leaving(frames[i], life, m_listeners, m_element[p], {p}),
         Release(p, frames)
  PROVE  /\ Stack(notifying', life, m_listeners', g_listeners, asked, fn, hs)
         /\ m_listeners' \in [Element -> Seq(Local)] /\ \A d \in Element : IsInjective(m_listeners'[d])
         /\ m_element' \in [Pointer -> Element \cup {nullptr}] /\ m_element'[p] = nullptr
         /\ \A q \in Pointer : q # p => m_element'[q] = m_element[q]
         /\ PointersListed'
         /\ \A d \in Element : m_listeners[d] = <<>> => m_listeners'[d] = <<>>
<1>1. /\ m_listeners \in [Element -> Seq(Local)] /\ \A d \in Element : IsInjective(m_listeners[d])
      /\ m_element \in [Pointer -> Element \cup {nullptr}]
  BY DEF ListenersTypeOK
<1>2. /\ m_element' \in [Pointer -> Element \cup {nullptr}] /\ m_element'[p] = nullptr
      /\ \A q \in Pointer : q # p => m_element'[q] = m_element[q]
  BY <1>1 DEF Release
<1>3. CASE m_element[p] = nullptr
  <2>1. notifying' = frames /\ m_listeners' = m_listeners
    BY <1>3 DEF Release
  <2>2. \A i \in 1..Len(frames) : FrameAgrees(frames[i], life, m_listeners, g_listeners, asked, fn, hs)
    BY <1>3 DEF FrameAgrees, Deletes, Leaving
  <2>3. PointersListed'
    BY <1>2, <1>3, <2>1, Nobody DEF PointersListed
  <2> QED
    BY <1>1, <1>2, <2>1, <2>2, <2>3 DEF Stack
<1>4. CASE m_element[p] # nullptr
  <2> DEFINE e == m_element[p]
  <2>1. e \in Element /\ RemoveLocal(frames, e, {p})
    BY <1>1, <1>4 DEF Release
  <2>2. /\ Stack(notifying', life, m_listeners', g_listeners, asked, fn, hs)
        /\ m_listeners' \in [Element -> Seq(Local)] /\ \A d \in Element : IsInjective(m_listeners'[d])
        /\ \A d \in Element : d # e => m_listeners'[d] = m_listeners[d]
        /\ ToSet(m_listeners'[e]) = ToSet(m_listeners[e]) \ {p}
    <3>1. \A i \in 1..Len(frames) : /\ Knows(frames[i], m_listeners, g_listeners, asked, fn, hs)
                                     /\ Leaving(frames[i], life, m_listeners, e, {p})
      OBVIOUS
    <3> HIDE DEF e
    <3> QED
      BY <2>1, <3>1, RemoveLocalAgrees
  <2>3. PointersListed'
    <3>1. ASSUME NEW q \in Pointer, NEW d \in Element
          PROVE  q \in ToSet(m_listeners'[d]) <=> m_element'[q] = d
      <4>1. q \in ToSet(m_listeners[d]) <=> m_element[q] = d
        BY DEF PointersListed
      <4>2. q \in ToSet(m_listeners'[d]) <=> q \in ToSet(m_listeners[d]) /\ ~(d = e /\ q = p)
        BY <2>2
      <4>3. nullptr # d
        BY Nobody
      <4> QED
        BY <1>2, <4>1, <4>2, <4>3
    <3> QED
      BY <3>1 DEF PointersListed
  <2>4. ASSUME NEW d \in Element, m_listeners[d] = <<>>
        PROVE  m_listeners'[d] = <<>>
    <3>1. p \notin ToSet(m_listeners[d])
      BY <2>4 DEF ToSet
    <3> QED
      BY <2>1, <2>2, <2>4, <3>1 DEF PointersListed
  <2> QED
    BY <1>2, <2>2, <2>3, <2>4
<1> QED
  BY <1>3, <1>4

(* Who waits for what comes on top *)
Calling(s) == s # <<>> => s[Len(s)].in # nullptr \/ s[Len(s)].call = "Delete"

(* A call that returns leaves the others as they were. *)
LEMMA Popped ==
  ASSUME NEW s, NEW lf, NEW lists, NEW global, NEW asked, NEW fn, NEW hs,
         Stack(s, lf, lists, global, asked, fn, hs), s # <<>>, s[Len(s)].call # "Delete"
  PROVE  LET below == SubSeq(s, 1, Len(s) - 1)
         IN  /\ Stack(below, lf, lists, global, asked, fn, hs)
             /\ Calling(below)
<1> DEFINE below == SubSeq(s, 1, Len(s) - 1)
<1>1. s \in Seq(Frame) /\ Nested(s, lf)
  BY DEF Stack
<1>2. /\ Len(s) \in Nat /\ below \in Seq(Frame) /\ Len(below) = Len(s) - 1
      /\ \A i \in 1..Len(s) - 1 : i \in 1..Len(s) /\ below[i] = s[i]
  BY <1>1, PopProperties
<1> HIDE DEF below
<1>3. \A i \in 1..Len(below) : i \in 1..Len(s) /\ i < Len(s) /\ below[i] = s[i]
  BY <1>2
<1>4. \A i \in 1..Len(below) : below[i].in # nullptr \/ below[i].call = "Delete"
  BY <1>1, <1>3 DEF Nested
<1>5. \A i, j \in 1..Len(below) :
        below[i].call = "Delete" /\ below[j].call = "Delete" /\ below[i].element = below[j].element => i = j
  BY <1>1, <1>3 DEF Nested
<1>6. ASSUME NEW i \in 1..Len(below), below[i].call = "Dying", below[i].element # nullptr
      PROVE  \/ lf[below[i].element] = "dying"
             \/ /\ lf[below[i].element] = "deleting"
                /\ \E j \in 1..Len(below) : j > i /\ below[j].call = "Delete" /\ below[j].element = below[i].element
  <2>1. CASE lf[s[i].element] = "dying"
    BY <1>3, <2>1
  <2>2. CASE lf[s[i].element] # "dying"
    <3>1. lf[s[i].element] = "deleting"
      BY <1>1, <1>3, <1>6, <2>2 DEF Nested
    <3>2. PICK j \in 1..Len(s) : j > i /\ s[j].call = "Delete" /\ s[j].element = s[i].element
      BY <1>1, <1>3, <1>6, <2>2 DEF Nested
    <3>3. j # Len(s)
      BY <3>2
    <3>4. Len(below) = Len(s) - 1 /\ Len(s) \in Nat /\ j \in 1..Len(s)
      BY <1>2
    <3>5. j \in 1..Len(s) - 1
      BY ONLY <3>3, <3>4
    <3>6. j \in 1..Len(below)
      BY <3>4, <3>5
    <3> QED
      BY <1>3, <3>1, <3>2, <3>6
  <2> QED
    BY <2>1, <2>2
<1>7. \A i \in 1..Len(below) : FrameAgrees(below[i], lf, lists, global, asked, fn, hs)
  BY <1>3 DEF Stack
<1>8. below # <<>> => Len(below) \in 1..Len(below)
  BY <1>2
<1> QED
  BY <1>2, <1>4, <1>5, <1>6, <1>7, <1>8 DEF Stack, Nested, Calling, below

(* A call that begins comes on top of one that waits for it.  An element is
   deleted once, and dies before. *)
LEMMA Pushed ==
  ASSUME NEW s, NEW lf, NEW lists, NEW global, NEW asked, NEW fn, NEW hs,
         Stack(s, lf, lists, global, asked, fn, hs), Calling(s), NEW f, NEW new,
         FrameAgrees(f, new, lists, global, asked, fn, hs),
         \A e : lf[e] = "deleting" => new[e] = "deleting",
         \A e : lf[e] = "dying" /\ new[e] # "dying" => new[e] = "deleting" /\ f.call = "Delete" /\ f.element = e,
         f.call = "Delete" => lf[f.element] # "deleting", f.call = "Dying" => new[f.element] = "dying"
  PROVE  Stack(Append(s, f), new, lists, global, asked, fn, hs)
<1> DEFINE t == Append(s, f)
<1>1. s \in Seq(Frame) /\ Nested(s, lf) /\ f \in Frame
  BY DEF Stack, FrameAgrees, Knows
<1>2. /\ t \in Seq(Frame) /\ Len(t) = Len(s) + 1 /\ Len(s) \in Nat /\ t[Len(s) + 1] = f
      /\ \A i \in 1..Len(s) : t[i] = s[i]
  BY <1>1, AppendProperties
<1> HIDE DEF t
<1>3. \A i \in 1..Len(t) : (i = Len(s) + 1 /\ t[i] = f) \/ (i \in 1..Len(s) /\ t[i] = s[i])
  BY <1>2
<1>4. \A i \in 1..Len(t) : FrameAgrees(t[i], new, lists, global, asked, fn, hs)
  <2>1. \A i \in 1..Len(s) : FrameAgrees(s[i], new, lists, global, asked, fn, hs)
    BY LifeChanged DEF Stack
  <2> QED
    BY <1>3, <2>1
<1>5. \A i \in 1..Len(t) : i < Len(t) => t[i].in # nullptr \/ t[i].call = "Delete"
  <2>1. \A i \in 1..Len(s) : s[i].in # nullptr \/ s[i].call = "Delete"
    <3>1. ASSUME NEW i \in 1..Len(s)
          PROVE  s[i].in # nullptr \/ s[i].call = "Delete"
      <4>1. CASE i < Len(s)
        BY <1>1, <4>1 DEF Nested
      <4>2. CASE i = Len(s)
        <5>1. s # <<>>
          BY <1>2, <4>2
        <5> QED
          BY <4>2, <5>1 DEF Calling
      <4> QED
        BY <1>2, <4>1, <4>2
    <3> QED
      BY <3>1
  <2> QED
    BY <1>2, <1>3, <2>1
<1>6. \A i \in 1..Len(s) : s[i].call = "Delete" => lf[s[i].element] = "deleting"
  BY DEF Stack, FrameAgrees, Deletes, Leaving
<1>7. ASSUME NEW i \in 1..Len(t), NEW j \in 1..Len(t),
             t[i].call = "Delete", t[j].call = "Delete", t[i].element = t[j].element
      PROVE  i = j
  <2>1. CASE i \in 1..Len(s) /\ j \in 1..Len(s)
    BY <1>1, <1>2, <1>7, <2>1 DEF Nested
  <2>2. CASE i \in 1..Len(s) /\ j \notin 1..Len(s)
    BY <1>3, <1>6, <1>7, <2>2
  <2>3. CASE i \notin 1..Len(s) /\ j \in 1..Len(s)
    BY <1>3, <1>6, <1>7, <2>3
  <2>4. CASE i \notin 1..Len(s) /\ j \notin 1..Len(s)
    BY <1>3, <2>4
  <2> QED
    BY <2>1, <2>2, <2>3, <2>4
<1>8. ASSUME NEW i \in 1..Len(t), t[i].call = "Dying", t[i].element # nullptr
      PROVE  \/ new[t[i].element] = "dying"
             \/ /\ new[t[i].element] = "deleting"
                /\ \E j \in 1..Len(t) : j > i /\ t[j].call = "Delete" /\ t[j].element = t[i].element
  <2>1. CASE i \notin 1..Len(s)
    BY <1>3, <1>8, <2>1
  <2>2. CASE i \in 1..Len(s) /\ lf[s[i].element] = "dying"
    <3>1. t[i] = s[i] /\ Len(s) + 1 \in 1..Len(t) /\ Len(s) + 1 > i
      BY <1>2, <2>2
    <3> QED
      BY <1>2, <2>2, <3>1
  <2>3. CASE i \in 1..Len(s) /\ lf[s[i].element] # "dying"
    <3>1. t[i] = s[i] /\ lf[s[i].element] = "deleting"
      BY <1>1, <1>2, <1>8, <2>3 DEF Nested
    <3>2. PICK j \in 1..Len(s) : j > i /\ s[j].call = "Delete" /\ s[j].element = s[i].element
      BY <1>1, <1>2, <1>8, <2>3 DEF Nested
    <3>3. j \in 1..Len(t) /\ t[j] = s[j]
      BY <1>2
    <3> QED
      BY <3>1, <3>2, <3>3
  <2> QED
    BY <2>1, <2>2, <2>3
<1> QED
  BY <1>2, <1>4, <1>5, <1>7, <1>8 DEF Stack, Nested, t
(* When an element is gone the calls under way know. *)
LEMMA Forgotten ==
  ASSUME NEW s, NEW lf, NEW lists, NEW global, NEW old, NEW fn, NEW hs,
         Stack(s, lf, lists, global, old, fn, hs), s # <<>>, s[Len(s)].call = "Delete",
         NEW e \in Element, s[Len(s)].element = e,
         NEW new, \A d \in Element \ {e} : new[d] = lf[d],
         NEW asked, \A d \in Element \ {e} : asked[d] = old[d]
  PROVE  LET below == SubSeq(s, 1, Len(s) - 1)
             t == [i \in DOMAIN below |-> Forget(below[i], e)]
         IN  /\ Stack(t, new, lists, global, asked, fn, hs)
             /\ \A i \in 1..Len(t) : t[i].in = s[i].in
<1> DEFINE below == SubSeq(s, 1, Len(s) - 1)
           t == [i \in DOMAIN below |-> Forget(below[i], e)]
<1>1. s \in Seq(Frame) /\ Nested(s, lf)
  BY DEF Stack
<1>2. /\ Len(s) \in Nat /\ Len(s) \in 1..Len(s) /\ below \in Seq(Frame) /\ Len(below) = Len(s) - 1
      /\ \A i \in 1..Len(s) - 1 : i \in 1..Len(s) /\ below[i] = s[i]
  BY <1>1, PopProperties
<1>3. DOMAIN below = 1..Len(below)
  BY <1>2
<1> HIDE DEF below
<1>4. t = [i \in DOMAIN below |-> t[i]] /\ \A i \in 1..Len(below) : t[i] = Forget(below[i], e)
  BY <1>3
<1> HIDE DEF t
<1>5. \A i \in 1..Len(below) : i \in 1..Len(s) /\ i < Len(s) /\ below[i] = s[i] /\ i # Len(s)
  BY <1>2
<1>6. ASSUME NEW i \in 1..Len(below)
      PROVE  /\ FrameAgrees(t[i], new, lists, global, asked, fn, hs)
             /\ t[i].call = s[i].call /\ t[i].in = s[i].in
             /\ t[i].element = IF s[i].element = e THEN nullptr ELSE s[i].element
             /\ s[i].call = "Delete" => s[i].element # e
             /\ s[i].in # nullptr \/ s[i].call = "Delete"
  <2>1. FrameAgrees(s[i], lf, lists, global, old, fn, hs)
    BY <1>5 DEF Stack
  <2>2. s[i].in # nullptr \/ s[i].call = "Delete"
    BY <1>1, <1>5 DEF Nested
  <2>3. s[i].call = "Delete" => s[i].element # e
    BY <1>1, <1>2, <1>5 DEF Nested
  <2>4. t[i] = Forget(s[i], e)
    BY <1>4, <1>5
  <2> QED
    BY <2>1, <2>2, <2>3, <2>4, ForgetAgrees
<1>7. t \in Seq(Frame) /\ Len(t) = Len(below)
  <2>1. \A i \in 1..Len(below) : t[i] \in Frame
    BY <1>6 DEF FrameAgrees, Knows
  <2> QED
    BY <1>2, <1>4, <2>1, Mapped
<1>8. \A i \in 1..Len(t) : i < Len(t) => t[i].in # nullptr \/ t[i].call = "Delete"
  BY <1>6, <1>7
<1>9. ASSUME NEW i \in 1..Len(t), NEW j \in 1..Len(t),
             t[i].call = "Delete", t[j].call = "Delete", t[i].element = t[j].element
      PROVE  i = j
  <2>1. i \in 1..Len(s) /\ j \in 1..Len(s)
    BY <1>5, <1>7
  <2>2. s[i].call = "Delete" /\ s[j].call = "Delete" /\ s[i].element = s[j].element
    BY <1>6, <1>7, <1>9
  <2> QED
    BY <1>1, <2>1, <2>2 DEF Nested
<1>10. ASSUME NEW i \in 1..Len(t), t[i].call = "Dying", t[i].element # nullptr
       PROVE  \/ new[t[i].element] = "dying"
              \/ /\ new[t[i].element] = "deleting"
                 /\ \E j \in 1..Len(t) : j > i /\ t[j].call = "Delete" /\ t[j].element = t[i].element
  <2>1. /\ i \in 1..Len(s) /\ s[i].call = "Dying" /\ s[i].element # e
        /\ t[i].element = s[i].element
    BY <1>5, <1>6, <1>7, <1>10
  <2>2. s[i].element \in Element
    <3>1. s[i] \in Frame
      BY <1>1, <2>1
    <3> QED
      BY <1>10, <2>1, <3>1, FrameKinds
  <2>3. new[s[i].element] = lf[s[i].element]
    BY <2>1, <2>2
  <2>4. CASE lf[s[i].element] = "dying"
    BY <2>1, <2>3, <2>4
  <2>5. CASE lf[s[i].element] # "dying"
    <3>1. lf[s[i].element] = "deleting"
      BY <1>1, <1>10, <2>1, <2>5 DEF Nested
    <3>2. PICK j \in 1..Len(s) : j > i /\ s[j].call = "Delete" /\ s[j].element = s[i].element
      BY <1>1, <1>10, <2>1, <2>5 DEF Nested
    <3>3. j # Len(s)
      BY <2>1, <3>2
    <3>4. Len(t) = Len(s) - 1 /\ Len(s) \in Nat /\ j \in 1..Len(s)
      BY <1>2, <1>7
    <3>5. j \in 1..Len(s) - 1
      BY ONLY <3>3, <3>4
    <3>6. j \in 1..Len(t)
      BY <3>4, <3>5
    <3>7. t[j].call = "Delete" /\ t[j].element = s[j].element
      BY <1>6, <1>7, <2>1, <3>2, <3>6
    <3> QED
      BY <2>1, <2>3, <3>1, <3>2, <3>6, <3>7
  <2> QED
    BY <2>4, <2>5
<1>11. \A i \in 1..Len(t) : FrameAgrees(t[i], new, lists, global, asked, fn, hs)
  BY <1>6, <1>7
<1>12. \A i \in 1..Len(t) : t[i].in = s[i].in
  BY <1>6, <1>7
<1> QED
  BY <1>7, <1>8, <1>9, <1>10, <1>11, <1>12 DEF Stack, Nested, t, below
-----------------------------------------------------------------------------
(* The last call *)

(* The invariant, of the last call *)
LEMMA TopAgrees ==
  ASSUME ListenersIInv, notifying # <<>>
  PROVE  /\ notifying \in Seq(Frame) /\ Len(notifying) \in Nat /\ Len(notifying) \in 1..Len(notifying)
         /\ FrameAgrees(Top, life, m_listeners, g_listeners, event_handlers_, functions, handlers)
         /\ Top \in Frame
<1>1. notifying \in Seq(Frame)
  BY DEF ListenersIInv, FramesAgree, Stack
<1>2. Len(notifying) \in Nat /\ Len(notifying) \in 1..Len(notifying)
  BY <1>1, PopProperties
<1>3. FrameAgrees(Top, life, m_listeners, g_listeners, event_handlers_, functions, handlers)
  BY <1>2 DEF ListenersIInv, FramesAgree, Stack, Top
<1> QED
  BY <1>1, <1>2, <1>3 DEF FrameAgrees, Knows

(* It goes on as g. *)
LEMMA UnderProperties ==
  ASSUME ListenersIInv, notifying # <<>>, NEW g \in Frame, Alike(Top, g)
  PROVE  /\ Under(g) \in Seq(Frame) /\ Len(Under(g)) = Len(notifying) /\ Under(g)[Len(notifying)] = g
         /\ \A i \in 1..Len(notifying) : i # Len(notifying) => Under(g)[i] = notifying[i]
         /\ Nested(Under(g), life)
<1>1. notifying \in Seq(Frame) /\ Nested(notifying, life)
  BY DEF ListenersIInv, FramesAgree, Stack
<1>2. /\ Len(notifying) \in Nat /\ Below \in Seq(Frame) /\ Len(Below) = Len(notifying) - 1
      /\ \A i \in 1..Len(notifying) - 1 : Below[i] = notifying[i]
  BY <1>1, PopProperties DEF Below
<1>3. Under(g) = Append(Below, g)
  BY DEF Under
<1>4. /\ Append(Below, g) \in Seq(Frame) /\ Len(Append(Below, g)) = Len(Below) + 1
      /\ Append(Below, g)[Len(Below) + 1] = g
      /\ \A i \in 1..Len(Below) : Append(Below, g)[i] = Below[i]
  BY <1>2, AppendProperties
<1>5. Len(Below) + 1 = Len(notifying)
  BY <1>2
<1>6. \A i \in 1..Len(notifying) : i # Len(notifying) => i \in 1..Len(notifying) - 1 /\ i \in 1..Len(Below)
  BY <1>2
<1>7. \A i \in 1..Len(notifying) : i # Len(notifying) => Under(g)[i] = notifying[i]
  BY <1>2, <1>3, <1>4, <1>6
<1>8. /\ Under(g) \in Seq(Frame) /\ Len(Under(g)) = Len(notifying) /\ Under(g)[Len(notifying)] = g
  BY <1>3, <1>4, <1>5
<1>9. \A i \in 1..Len(notifying) : Alike(notifying[i], Under(g)[i])
  BY <1>7, <1>8 DEF Alike, Top
<1>10. \A i \in 1..Len(notifying) :
         i < Len(notifying) => Under(g)[i].in = notifying[i].in /\ Under(g)[i].call = notifying[i].call
  BY <1>2, <1>7
<1>11. Nested(Under(g), life)
  BY <1>1, <1>8, <1>9, <1>10, NestedChanged
<1> QED
  BY <1>7, <1>8, <1>11

(* The last call goes on, the lists as they were, and the others stay as they are. *)
LEMMA UnderAgrees ==
  ASSUME ListenersIInv, notifying # <<>>, NEW g, Alike(Top, g),
         FrameAgrees(g, life, m_listeners, g_listeners, event_handlers_, functions, handlers)
  PROVE  Stack(Under(g), life, m_listeners, g_listeners, event_handlers_, functions, handlers)
<1>1. g \in Frame
  BY DEF FrameAgrees, Knows
<1>2. /\ Under(g) \in Seq(Frame) /\ Len(Under(g)) = Len(notifying) /\ Under(g)[Len(notifying)] = g
      /\ \A i \in 1..Len(notifying) : i # Len(notifying) => Under(g)[i] = notifying[i]
      /\ Nested(Under(g), life)
  BY <1>1, UnderProperties
<1>3. \A i \in 1..Len(notifying) :
        FrameAgrees(notifying[i], life, m_listeners, g_listeners, event_handlers_, functions, handlers)
  BY DEF ListenersIInv, FramesAgree, Stack
<1> QED
  BY <1>2, <1>3 DEF Stack

(* A step that changes only who lives and what is under way *)
LEMMA CallsChange ==
  ASSUME ListenersIInv, UNCHANGED <<linked, g_listeners>>,
         Stack(notifying', life', m_listeners, g_listeners, event_handlers_, functions, handlers),
         life' \in [Element -> {"none", "alive", "dying", "deleting"}],
         \A e \in Element : life'[e] = "none" => life[e] = "none",
         \A e \in Element : life[e] = "deleting" => life'[e] = "deleting"
  PROVE  ListenersIInv'
<1>1. /\ m_listeners' = m_listeners /\ m_element' = m_element /\ event_handlers_' = event_handlers_
      /\ handlers' = handlers /\ functions' = functions /\ g_listeners' = g_listeners
  BY DEF linked
<1>2. ListenersTypeOK'
  BY <1>1 DEF ListenersIInv, ListenersTypeOK, Stack
<1>3. ListsAgree'
  BY <1>1 DEF ListenersIInv, ListsAgree, PointersListed, NoneLeft, HandlersListed, HandlersOff
<1>4. FramesAgree'
  BY <1>1 DEF FramesAgree
<1> QED
  BY <1>2, <1>3, <1>4 DEF ListenersIInv

(* A call that ends *)
LEMMA BelowAgrees ==
  ASSUME ListenersIInv, notifying # <<>>, Top.call # "Delete"
  PROVE  /\ Stack(Below, life, m_listeners, g_listeners, event_handlers_, functions, handlers)
         /\ Calling(Below)
<1>1. Stack(notifying, life, m_listeners, g_listeners, event_handlers_, functions, handlers)
  BY DEF ListenersIInv, FramesAgree
<1> QED
  BY <1>1, Popped DEF Below, Top

(* The last call ends: the one below it goes on. *)
LEMMA CallEnds ==
  ASSUME ListenersIInv, notifying # <<>>, Top.call # "Delete", notifying' = Below, UNCHANGED <<life, linked, g_listeners>>
  PROVE  ListenersIInv'
<1>1. life \in [Element -> {"none", "alive", "dying", "deleting"}]
  BY DEF ListenersIInv, ListenersTypeOK
<1> QED
  BY <1>1, BelowAgrees, CallsChange

(* A call that goes on *)
LEMMA CallGoesOn ==
  ASSUME ListenersIInv, notifying # <<>>, NEW g, Alike(Top, g),
         FrameAgrees(g, life, m_listeners, g_listeners, event_handlers_, functions, handlers),
         notifying' = Under(g), UNCHANGED <<life, linked, g_listeners>>
  PROVE  ListenersIInv'
<1>1. life \in [Element -> {"none", "alive", "dying", "deleting"}]
  BY DEF ListenersIInv, ListenersTypeOK
<1> QED
  BY <1>1, UnderAgrees, CallsChange
-----------------------------------------------------------------------------
(* Calls that begin *)

(* The program runs when there is no call, or in a callback of the last one. *)
LEMMA RunsCalling ==
  ASSUME Runs
  PROVE  Calling(notifying)
BY DEF Runs, Calling, Top

(* Anything but the deletion of an element *)
LEMMA CallBegins ==
  ASSUME ListenersIInv, Runs, NEW call \in {"Notify", "InvokeEvent", "Dying"}, NEW e \in Element,
         NEW event \in Event \cup {nullptr}, UNCHANGED <<linked, g_listeners>>,
         notifying' = Append(notifying, Invoke(call, e, event)),
         \/ call # "Dying" /\ UNCHANGED life
         \/ call = "Dying" /\ life[e] = "alive" /\ life' = [life EXCEPT ![e] = "dying"]
  PROVE  ListenersIInv'
<1> DEFINE f == Invoke(call, e, event)
<1>1. ListenersTypeOK /\ life \in [Element -> {"none", "alive", "dying", "deleting"}]
  BY DEF ListenersIInv, ListenersTypeOK
<1>2. /\ life' \in [Element -> {"none", "alive", "dying", "deleting"}]
      /\ \A d \in Element : life'[d] = "none" => life[d] = "none"
      /\ \A d : life[d] = "deleting" => life'[d] = "deleting"
      /\ \A d : life[d] = "dying" => life'[d] = "dying"
      /\ call = "Dying" => life'[e] = "dying"
  <2>1. CASE UNCHANGED life /\ call # "Dying"
    BY <1>1, <2>1
  <2>2. CASE call = "Dying" /\ life[e] = "alive" /\ life' = [life EXCEPT ![e] = "dying"]
    <3>1. life'[e] = "dying" /\ \A d : d # e => life'[d] = life[d]
      BY <1>1, <2>2
    <3> QED
      BY <1>1, <2>2, <3>1
  <2> QED
    BY <2>1, <2>2
<1>3. /\ FrameAgrees(f, life', m_listeners, g_listeners, event_handlers_, functions, handlers)
      /\ f.call = call /\ f.element = e
  <2>1. CASE call = "Notify"
    BY <1>1, <2>1, InvokeAgrees
  <2>2. CASE call = "InvokeEvent"
    BY <1>1, <2>2, InvokeAgrees
  <2>3. CASE call = "Dying"
    BY <1>1, <2>3, InvokeAgrees
  <2> QED
    BY <2>1, <2>2, <2>3
<1>4. Stack(notifying, life, m_listeners, g_listeners, event_handlers_, functions, handlers) /\ Calling(notifying)
  BY RunsCalling DEF ListenersIInv, FramesAgree
<1>5. notifying' = Append(notifying, f)
  OBVIOUS
<1> HIDE DEF f
<1>6. f.call # "Delete" /\ (f.call = "Dying" => life'[f.element] = "dying")
  BY <1>2, <1>3
<1>7. Stack(Append(notifying, f), life', m_listeners, g_listeners, event_handlers_, functions, handlers)
  BY <1>2, <1>3, <1>4, <1>6, Pushed
<1> QED
  BY <1>2, <1>5, <1>7, CallsChange

(* The deletion of an element, in the course of s *)
LEMMA DeleteBegins ==
  ASSUME ListenersIInv, NEW s, Stack(s, life, m_listeners, g_listeners, event_handlers_, functions, handlers), Calling(s),
         NEW e \in Element, life[e] \in {"alive", "dying"}, DeleteOver(s, e)
  PROVE  ListenersIInv'
<1> DEFINE f == Invoke("Delete", e, nullptr)
<1>1. ListenersTypeOK /\ life \in [Element -> {"none", "alive", "dying", "deleting"}]
  BY DEF ListenersIInv, ListenersTypeOK
<1>2. /\ life' = [life EXCEPT ![e] = "deleting"] /\ notifying' = Append(s, f)
      /\ UNCHANGED <<linked, g_listeners>>
  BY DEF DeleteOver
<1>3. life'[e] = "deleting" /\ \A d : d # e => life'[d] = life[d]
  BY <1>1, <1>2
<1>4. life' \in [Element -> {"none", "alive", "dying", "deleting"}]
  BY <1>1, <1>2
<1>5. /\ FrameAgrees(f, life', m_listeners, g_listeners, event_handlers_, functions, handlers)
      /\ f.call = "Delete" /\ f.element = e
  BY <1>1, <1>3, InvokeAgrees
<1> HIDE DEF f
<1>6. /\ \A d : life[d] = "deleting" => life'[d] = "deleting"
      /\ \A d : life[d] = "dying" /\ life'[d] # "dying" => life'[d] = "deleting" /\ f.call = "Delete" /\ f.element = d
      /\ \A d \in Element : life'[d] = "none" => life[d] = "none"
      /\ f.call = "Delete" => life[f.element] # "deleting"
      /\ f.call # "Dying"
  BY <1>3, <1>5
<1>7. Stack(Append(s, f), life', m_listeners, g_listeners, event_handlers_, functions, handlers)
  BY <1>5, <1>6, Pushed
<1> QED
  BY <1>2, <1>4, <1>6, <1>7, CallsChange

(* Every call that begins takes its iterators at the first of each list, and owes all of it. *)
LEMMA BeginSteps ==
  ASSUME ListenersIInv, NEW e \in Element, Notify(e) \/ Die(e) \/ Delete(e) \/ \E event \in Event : InvokeEvent(e, event)
  PROVE  ListenersIInv'
<1>1. CASE Notify(e)
  BY <1>1, CallBegins DEF Notify, Starts
<1>2. CASE \E event \in Event : InvokeEvent(e, event)
  BY <1>2, CallBegins DEF InvokeEvent, Starts
<1>3. CASE Die(e)
  BY <1>3, CallBegins DEF Die, Starts
<1>4. CASE Delete(e)
  <2>1. Stack(notifying, life, m_listeners, g_listeners, event_handlers_, functions, handlers) /\ Calling(notifying)
    BY <1>4, RunsCalling DEF ListenersIInv, FramesAgree, Delete, Starts
  <2> QED
    BY <1>4, <2>1, DeleteBegins DEF Delete
<1> QED
  BY <1>1, <1>2, <1>3, <1>4

(* A new element takes the place of one that left nothing behind. *)
LEMMA CreateStep ==
  ASSUME ListenersIInv, NEW e \in Element, Create(e)
  PROVE  ListenersIInv'
<1>1. /\ life[e] = "none" /\ life' = [life EXCEPT ![e] = "alive"]
      /\ UNCHANGED <<linked, g_listeners, notifying>>
  BY DEF Create
<1>2. ListenersTypeOK /\ life \in [Element -> {"none", "alive", "dying", "deleting"}]
  BY DEF ListenersIInv, ListenersTypeOK
<1>3. life'[e] = "alive" /\ \A d : d # e => life'[d] = life[d]
  BY <1>1, <1>2
<1>4. /\ life' \in [Element -> {"none", "alive", "dying", "deleting"}]
      /\ \A d \in Element : life'[d] = "none" => life[d] = "none"
      /\ \A d : life[d] = "deleting" => life'[d] = "deleting"
      /\ \A d : life[d] = "dying" => life'[d] = "dying"
  BY <1>1, <1>2, <1>3
<1>5. Stack(notifying, life, m_listeners, g_listeners, event_handlers_, functions, handlers)
  BY DEF ListenersIInv, FramesAgree
<1>6. Stack(notifying', life', m_listeners, g_listeners, event_handlers_, functions, handlers)
  <2>1. \A i \in 1..Len(notifying) :
          FrameAgrees(notifying[i], life', m_listeners, g_listeners, event_handlers_, functions, handlers)
    BY <1>4, <1>5, LifeChanged DEF Stack
  <2>2. Nested(notifying, life')
    BY <1>4, <1>5 DEF Stack, Nested
  <2> QED
    BY <1>1, <1>5, <2>1, <2>2 DEF Stack
<1> QED
  BY <1>1, <1>4, <1>6, CallsChange
-----------------------------------------------------------------------------
(* Notifications and events that go on and end *)

(* A listener returns; one of an element that is deleted has left its list. *)
LEMMA ReturnStep ==
  ASSUME ListenersIInv, NEW handled \in BOOLEAN, Return(handled)
  PROVE  ListenersIInv'
<1> DEFINE g == [Top EXCEPT !.in = nullptr, !.handled = @ \/ handled]
<1>1. /\ notifying # <<>> /\ Top.call # "OnEvent" /\ Top.in # nullptr
      /\ Top.call = "Delete" => Top.in \notin ToSet(m_listeners[Top.element])
      /\ Top.call = "Dying" /\ Top.element = nullptr => handled
      /\ notifying' = Under(g) /\ UNCHANGED <<life, linked, g_listeners>>
  BY DEF Return, Telling
<1>2. /\ FrameAgrees(Top, life, m_listeners, g_listeners, event_handlers_, functions, handlers)
      /\ Top \in TellingFrame
  BY <1>1, TopAgrees, FrameKinds
<1> DEFINE top == Top
<1>3. /\ g = Going(top, top.element, top.local, top.locals, top.global, top.globals, nullptr, top.handled \/ handled)
      /\ top \in TellingFrame
  BY <1>2 DEF Going, TellingFrame
<1> HIDE DEF g, top
<1>4. /\ g \in Frame /\ g.call = top.call /\ g.element = top.element /\ g.in = nullptr
      /\ g.local = top.local /\ g.locals = top.locals /\ g.global = top.global /\ g.globals = top.globals
      /\ g.handled = (top.handled \/ handled)
  BY ONLY <1>3, handled \in BOOLEAN DEF Going, TellingFrame, Frame
<1>5. /\ top.call # "OnEvent" /\ top.in # nullptr
      /\ top.call = "Delete" => top.in \notin ToSet(m_listeners[top.element])
      /\ top.call = "Dying" /\ top.element = nullptr => handled
      /\ FrameAgrees(top, life, m_listeners, g_listeners, event_handlers_, functions, handlers)
  BY <1>1, <1>2 DEF top
<1>6. TellsLocals(g, m_listeners) /\ TellsGlobals(g, g_listeners) /\ Asks(g, event_handlers_, functions, handlers)
  BY <1>4, <1>5 DEF FrameAgrees, Knows, TellsLocals, TellsGlobals, Asks
<1>7. Dies(g)
  BY <1>4, <1>5 DEF Dies
<1>8. Deletes(g, life, m_listeners)
  BY <1>4, <1>5 DEF FrameAgrees, Deletes, Leaving
<1>9. FrameAgrees(g, life, m_listeners, g_listeners, event_handlers_, functions, handlers) /\ Alike(Top, g)
  BY <1>4, <1>6, <1>7, <1>8 DEF FrameAgrees, Knows, Alike, top
<1> QED
  BY <1>1, <1>9, CallGoesOn

(* The next global listener is told, and ahead of the iterator are those after it. *)
LEMMA TellGlobalStep ==
  ASSUME ListenersIInv, TellGlobal
  PROVE  ListenersIInv'
<1>1. PICK l \in Listener :
        /\ notifying # <<>> /\ Top.call # "OnEvent" /\ Top.in = nullptr /\ Top.local = nullptr /\ l = Top.global
        /\ notifying' = Under([Top EXCEPT !.global = After(g_listeners, l, nullptr), !.globals = @ \ {l}, !.in = l])
        /\ UNCHANGED <<life, linked, g_listeners>>
  BY DEF TellGlobal, Telling
<1> DEFINE next == After(g_listeners, l, nullptr)
           g == [Top EXCEPT !.global = next, !.globals = @ \ {l}, !.in = l]
           top == Top
           globals == top.globals \ {l}
<1>2. /\ FrameAgrees(top, life, m_listeners, g_listeners, event_handlers_, functions, handlers)
      /\ top \in TellingFrame /\ top.call # "OnEvent" /\ top.in = nullptr /\ top.local = nullptr /\ l = top.global
  BY <1>1, TopAgrees, FrameKinds
<1>3. g_listeners \in Seq(Listener) /\ IsInjective(g_listeners)
  BY DEF ListenersIInv, ListenersTypeOK
<1>4. Iterates(g_listeners, l, nullptr) /\ top.globals \subseteq Rest(g_listeners, l, nullptr) /\ l # nullptr
  BY <1>2, Nobody DEF FrameAgrees, Knows, TellsGlobals
<1>5. l \in ToSet(g_listeners)
  BY <1>4 DEF Iterates
<1>6. Iterates(g_listeners, next, nullptr) /\ Rest(g_listeners, l, nullptr) = {l} \cup Rest(g_listeners, next, nullptr)
  BY <1>3, <1>5, Nobody, RestAfter
<1>7. ToSet(g_listeners) \subseteq Listener
  BY <1>3, Nobody, FirstProperties
<1>8. /\ g = Going(top, top.element, top.local, top.locals, next, globals, l, top.handled)
      /\ globals = top.globals \ {l}
  BY <1>2 DEF Going, TellingFrame
<1>9. notifying' = Under(g)
  BY <1>1
<1> HIDE DEF g, top, next, globals
<1>10. next \in Listener \cup {nullptr}
  BY <1>6, <1>7 DEF Iterates
<1>11. /\ g \in Frame /\ g.call = top.call /\ g.element = top.element /\ g.in = l
       /\ g.local = top.local /\ g.locals = top.locals /\ g.global = next /\ g.globals = globals
       /\ g.handled = top.handled
  <2>1. globals \in SUBSET Listener
    BY <1>2, <1>8 DEF TellingFrame
  <2> QED
    BY ONLY <1>2, <1>8, <1>10, <2>1, l \in Listener DEF Going, TellingFrame, Frame
<1>12. TellsGlobals(g, g_listeners)
  BY <1>4, <1>6, <1>8, <1>11 DEF TellsGlobals
<1>13. TellsLocals(g, m_listeners) /\ Dies(g) /\ Asks(g, event_handlers_, functions, handlers)
  BY <1>2, <1>4, <1>11 DEF FrameAgrees, Knows, TellsLocals, Dies, Asks
<1>14. Deletes(g, life, m_listeners)
  <2>1. top.call = "Delete" => Rest(m_listeners[top.element], nullptr, nullptr) = {}
    BY DEF Rest
  <2>2. top.call = "Delete" => ToSet(m_listeners[top.element]) = {}
    <3>1. ASSUME top.call = "Delete"
          PROVE  ToSet(m_listeners[top.element]) \subseteq {nullptr} /\ nullptr \notin ToSet(m_listeners[top.element])
      <4>1. ToSet(m_listeners[top.element]) \subseteq {nullptr} /\ top.element # nullptr
        BY <1>2, <2>1, <3>1 DEF FrameAgrees, Deletes, Leaving
      <4>2. top.element \in Element
        BY <1>2, <4>1 DEF TellingFrame
      <4>3. m_listeners[top.element] \in Seq(Local)
        BY <4>2 DEF ListenersIInv, ListenersTypeOK
      <4> QED
        BY <4>1, <4>3, Nobody, FirstProperties
    <3> QED
      BY <3>1
  <2> QED
    BY <1>2, <1>11, <2>2 DEF FrameAgrees, Deletes, Leaving
<1>15. FrameAgrees(g, life, m_listeners, g_listeners, event_handlers_, functions, handlers) /\ Alike(Top, g)
  BY <1>11, <1>12, <1>13, <1>14 DEF FrameAgrees, Knows, Alike, top
<1> QED
  BY <1>1, <1>9, <1>15, CallGoesOn

(* A call ends, or goes over into the one that follows it. *)
LEMMA EndSteps ==
  ASSUME ListenersIInv, Notified \/ Died \/ Invoked \/ Handled
  PROVE  ListenersIInv'
<1>1. CASE Notified
  BY <1>1, CallEnds DEF Notified, Told, Telling
<1>2. CASE Handled
  <2>1. notifying # <<>> /\ Top.call # "Delete"
    BY <1>2 DEF Handled, Asking
  <2> QED
    BY <1>2, <2>1, CallEnds DEF Handled
<1>3. CASE Died
  <2>1. notifying # <<>> /\ Top.call = "Dying" /\ Top.in = nullptr
    BY <1>3 DEF Died, Told, Telling
  <2>2. CASE ~Top.handled /\ DeleteOver(Below, Top.element)
    <3>1. Top \in Frame /\ Dies(Top)
      BY <2>1, TopAgrees DEF FrameAgrees, Knows
    <3>2. Top.element \in Element
      BY <2>1, <2>2, <3>1, FrameKinds DEF Dies
    <3>3. life[Top.element] = "dying"
      <4>1. Len(notifying) \in 1..Len(notifying) /\ Len(notifying) \in Nat
        BY <2>1, TopAgrees
      <4>2. \A j \in 1..Len(notifying) : ~(j > Len(notifying))
        BY <4>1
      <4>3. Nested(notifying, life) /\ Top = notifying[Len(notifying)]
        BY DEF ListenersIInv, FramesAgree, Stack, Top
      <4> QED
        BY <2>1, <3>2, <4>1, <4>2, <4>3, Nobody DEF Nested
    <3>4. /\ Stack(Below, life, m_listeners, g_listeners, event_handlers_, functions, handlers)
          /\ Calling(Below)
      BY <2>1, BelowAgrees
    <3> QED
      BY <2>2, <3>2, <3>3, <3>4, DeleteBegins
  <2>3. CASE notifying' = Below /\ UNCHANGED <<life, linked, g_listeners>>
    BY <2>1, <2>3, CallEnds
  <2> QED
    BY <1>3, <2>2, <2>3 DEF Died
<1>4. CASE Invoked
  <2>1. notifying # <<>> /\ Top.call = "InvokeEvent" /\ UNCHANGED <<life, linked, g_listeners>>
    BY <1>4 DEF Invoked, Told, Telling
  <2>2. CASE Top.handled \/ Top.element = nullptr
    BY <1>4, <2>1, <2>2, CallEnds DEF Invoked
  <2>3. CASE ~(Top.handled \/ Top.element = nullptr)
    <3> DEFINE g == OnEvent(Top.element, Top.event, Top.element)
    <3>1. Top \in Frame /\ ListenersTypeOK
      BY <2>1, TopAgrees DEF ListenersIInv
    <3>2. Top.element \in Element /\ Top.event \in Event \cup {nullptr}
      BY <2>3, <3>1, FrameKinds
    <3>3. /\ FrameAgrees(g, life, m_listeners, g_listeners, event_handlers_, functions, handlers)
          /\ g.call = "OnEvent"
      BY <3>1, <3>2, OnEventAgrees
    <3>4. notifying' = Under(g)
      BY <1>4, <2>3 DEF Invoked
    <3> HIDE DEF g
    <3>5. Alike(Top, g)
      BY <2>1, <3>3 DEF Alike
    <3> QED
      BY <2>1, <3>3, <3>4, <3>5, CallGoesOn
  <2> QED
    BY <2>2, <2>3
<1> QED
  BY <1>1, <1>2, <1>3, <1>4
(* The next function is the first that matches. *)
LEMMA NextMatches ==
  ASSUME ListenersTypeOK, NEW h \in Handler, NEW m \in Nat
  PROVE  LET n == NextMatch(h, m)
             matching == Matching(h, Top.event, Top.target)
         IN  /\ n \in Nat
             /\ \A i \in matching : i > m => n # 0 /\ n <= i
<1> DEFINE matching == Matching(h, Top.event, Top.target)
           ahead == {i \in matching : i > m}
           n == NextMatch(h, m)
<1>1. functions[h] \in Seq(Function)
  BY DEF ListenersTypeOK
<1>2. DOMAIN functions[h] \subseteq Nat
  BY <1>1
<1>3. ahead \subseteq Nat
  BY <1>2 DEF Matching
<1>4. n = IF ahead = {} THEN 0 ELSE CHOOSE i \in ahead : \A j \in ahead : i <= j
  BY DEF NextMatch
<1> HIDE DEF n, matching
<1>5. CASE ahead = {}
  <2>1. n = 0 /\ \A i \in matching : ~(i > m)
    BY <1>4, <1>5
  <2> QED
    BY <2>1 DEF n, matching
<1>6. CASE ahead # {}
  <2>1. \E i \in ahead : \A j \in ahead : i <= j
    BY <1>3, <1>6, LeastNatural
  <2> DEFINE least == CHOOSE i \in ahead : \A j \in ahead : i <= j
  <2>2. least \in ahead /\ \A j \in ahead : least <= j
    BY <2>1
  <2>3. n = least
    BY <1>4, <1>6
  <2> HIDE DEF least
  <2>4. n \in Nat /\ n \in ahead /\ \A j \in ahead : n <= j
    BY <1>3, <2>2, <2>3
  <2>5. n > m
    BY <2>4
  <2>6. n # 0
    BY ONLY <2>4, <2>5, m \in Nat
  <2> QED
    BY <2>4, <2>6 DEF n, matching
<1> QED
  BY <1>5, <1>6 DEF n, matching

(* An event goes on with the functions of h after the one at m. *)
LEMMA AskAgrees ==
  ASSUME ListenersIInv, notifying # <<>>, Top.call = "OnEvent", Top.element # nullptr, Top.target # nullptr,
         NEW h \in Handler, h \in handlers, NEW m \in Nat,
         NEW frame \in AskingFrame, frame.call = "OnEvent", frame.element = Top.element,
         frame.event = Top.event, frame.target = Top.target,
         Iterates(event_handlers_[Top.element], frame.handler, nullptr),
         h \notin Rest(event_handlers_[Top.element], frame.handler, nullptr),
         \A o \in frame.owed :
           /\ o[1] \in ToSet(event_handlers_[Top.element])
           /\ o[1] \in Rest(event_handlers_[Top.element], frame.handler, nullptr) \/ (o[1] = h /\ o[2] > m)
           /\ o[2] \in DOMAIN functions[o[1]]
           /\ Matches(functions[o[1]][o[2]], Top.event, Top.target),
         Ask(frame, h, NextMatch(h, m)), UNCHANGED <<life, linked, g_listeners>>
  PROVE  ListenersIInv'
<1> DEFINE n == NextMatch(h, m)
           in == IF n = 0 THEN nullptr ELSE h
           owed == frame.owed \ {<<h, n>>}
           g == [frame EXCEPT !.in = in, !.at = n, !.owed = owed]
           e == Top.element
           rest == Rest(event_handlers_[e], frame.handler, nullptr)
<1>1. /\ n \in Nat
      /\ \A i \in Matching(h, Top.event, Top.target) : i > m => n # 0 /\ n <= i
  BY NextMatches DEF ListenersIInv
<1>2. notifying' = Under(g)
  BY DEF Ask
<1>3. in \in Handler \cup {nullptr} /\ (in # nullptr => in = h /\ in \in handlers) /\ (n # 0 => in = h)
  BY Nobody
<1>4. g = AskingGoing(frame, frame.element, frame.target, in, n, frame.handler, owed)
  BY DEF AskingGoing, AskingFrame
<1>5. \A o \in owed : o \in frame.owed /\ o # <<h, n>>
  OBVIOUS
<1>6. /\ e \in Element
      /\ event_handlers_[e] \in Seq(Handler)
  <2>1. Top \in Frame
    BY TopAgrees
  <2>2. e \in Element
    BY <2>1, FrameKinds
  <2> QED
    BY <2>2 DEF ListenersIInv, ListenersTypeOK
<1>7. ToSet(event_handlers_[e]) \subseteq Handler
  BY <1>6, Nobody, FirstProperties
<1>8. nullptr \notin rest
  BY <1>7, Nobody DEF Rest
<1>9. frame.owed \in SUBSET (Handler \X Nat)
  BY DEF AskingFrame
<1>10. /\ frame.element = e /\ h \notin rest /\ Iterates(event_handlers_[e], frame.handler, nullptr)
       /\ \A o \in frame.owed :
            /\ o[1] \in ToSet(event_handlers_[e])
            /\ o[1] \in rest \/ (o[1] = h /\ o[2] > m)
            /\ o[2] \in DOMAIN functions[o[1]]
            /\ Matches(functions[o[1]][o[2]], Top.event, Top.target)
  OBVIOUS
<1> HIDE DEF n, in, owed, g, e, rest
<1>11. /\ g \in Frame /\ g.call = "OnEvent" /\ g.element = e /\ g.event = frame.event
       /\ g.target = frame.target /\ g.in = in /\ g.at = n /\ g.handler = frame.handler /\ g.owed = owed
  <2>1. owed \in SUBSET (Handler \X Nat)
    BY <1>5, <1>9
  <2>2. frame \in AskingFrame /\ frame.call = "OnEvent"
    OBVIOUS
  <2> QED
    BY ONLY <1>1, <1>3, <1>4, <1>10, <2>1, <2>2 DEF AskingGoing, AskingFrame, Frame
<1>12. ASSUME NEW o \in owed
       PROVE  o[1] \in rest \/ (o[1] = in /\ o[2] > n)
  <2>1. o \in frame.owed /\ o # <<h, n>> /\ o = <<o[1], o[2]>> /\ o[2] \in Nat
    BY <1>5, <1>9
  <2>2. CASE o[1] = h /\ o[2] > m
    <3>1. o[2] \in Matching(h, Top.event, Top.target)
      BY <1>10, <2>1, <2>2 DEF Matching
    <3>2. n # 0 /\ n <= o[2]
      BY <1>1, <2>2, <3>1
    <3>3. o[2] # n
      BY <2>1, <2>2
    <3>4. o[2] > n
      BY ONLY <1>1, <2>1, <3>2, <3>3
    <3> QED
      BY <1>3, <2>2, <3>2, <3>4
  <2> QED
    BY <1>10, <2>1, <2>2
<1>13. in \notin rest
  BY <1>3, <1>8, <1>10
<1>14. Asks(g, event_handlers_, functions, handlers)
  <2>1. g.element = e /\ e # nullptr /\ g.target = Top.target /\ g.event = Top.event /\ g.target # nullptr
    BY <1>11 DEF e
  <2>2. Rest(event_handlers_[e], g.handler, nullptr) = rest /\ Iterates(event_handlers_[e], g.handler, nullptr)
    BY <1>10, <1>11 DEF rest
  <2>3. \A o \in g.owed :
          /\ o[1] \in ToSet(event_handlers_[e])
          /\ o[1] \in rest \/ (o[1] = g.in /\ o[2] > g.at)
          /\ o[2] \in DOMAIN functions[o[1]]
          /\ Matches(functions[o[1]][o[2]], g.event, g.target)
    BY <1>5, <1>10, <1>11, <1>12, <2>1
  <2>4. g.in \notin rest /\ (g.in # nullptr => g.in \in handlers)
    BY <1>3, <1>11, <1>13
  <2> QED
    BY <2>1, <2>2, <2>3, <2>4 DEF Asks
<1>15. TellsLocals(g, m_listeners) /\ TellsGlobals(g, g_listeners) /\ Dies(g) /\ Deletes(g, life, m_listeners)
  BY <1>11 DEF TellsLocals, TellsGlobals, Dies, Deletes, Leaving
<1>16. FrameAgrees(g, life, m_listeners, g_listeners, event_handlers_, functions, handlers) /\ Alike(Top, g)
  BY <1>11, <1>14, <1>15 DEF FrameAgrees, Knows, Alike
<1> QED
  BY <1>2, <1>16, CallGoesOn

(* A handler calls its next function, and after its last one the next handler is asked,
   or the parent. *)
LEMMA AskSteps ==
  ASSUME ListenersIInv, AskHandler \/ Unhandled \/ Propagate
  PROVE  ListenersIInv'
<1> DEFINE top == Top
<1>1. /\ notifying # <<>> /\ top.call = "OnEvent" /\ UNCHANGED <<life, linked, g_listeners>>
  BY DEF AskHandler, Unhandled, Propagate, Asking, Asked
<1>2. top \in AskingFrame /\ Asks(top, event_handlers_, functions, handlers) /\ top \in Frame
  BY <1>1, TopAgrees, FrameKinds DEF FrameAgrees, Knows
<1>3. (top.in = nullptr => top.element # nullptr /\ top.target # nullptr)
  BY <1>1, <1>2 DEF Asks
<1>4. ASSUME top.element # nullptr
      PROVE  /\ top.element \in Element
             /\ event_handlers_[top.element] \in Seq(Handler) /\ IsInjective(event_handlers_[top.element])
             /\ ToSet(event_handlers_[top.element]) \subseteq Handler \cap handlers
  <2>1. top.element \in Element
    BY <1>2, <1>4, FrameKinds
  <2>2. event_handlers_[top.element] \in Seq(Handler) /\ IsInjective(event_handlers_[top.element])
    BY <2>1 DEF ListenersIInv, ListenersTypeOK
  <2>3. ToSet(event_handlers_[top.element]) \subseteq Handler
    BY <2>2, Nobody, FirstProperties
  <2>4. ToSet(event_handlers_[top.element]) \subseteq handlers
    BY <2>1, <2>3 DEF ListenersIInv, ListsAgree, HandlersListed
  <2> QED
    BY <2>1, <2>2, <2>3, <2>4
<1>5. CASE AskHandler
  <2>1. PICK h \in Handler :
          /\ h = top.handler
          /\ Ask([top EXCEPT !.handler = After(event_handlers_[top.element], h, nullptr)], h, NextMatch(h, 0))
    BY <1>5 DEF AskHandler
  <2> DEFINE list == event_handlers_[top.element]
             next == After(list, h, nullptr)
             frame == [top EXCEPT !.handler = next]
  <2>2. top.in = nullptr /\ top.element # nullptr /\ top.target # nullptr
    BY <1>3, <1>5 DEF AskHandler
  <2>3. /\ Iterates(list, h, nullptr) /\ h # nullptr
        /\ \A o \in top.owed :
             /\ o[1] \in ToSet(list)
             /\ o[1] \in Rest(list, h, nullptr)
             /\ o[2] \in DOMAIN functions[o[1]]
             /\ Matches(functions[o[1]][o[2]], top.event, top.target)
    <3>1. /\ Iterates(list, h, nullptr) /\ h # nullptr
          /\ \A o \in top.owed :
               /\ o[1] \in ToSet(list)
               /\ o[1] \in Rest(list, h, nullptr) \/ o[1] = nullptr
               /\ o[2] \in DOMAIN functions[o[1]]
               /\ Matches(functions[o[1]][o[2]], top.event, top.target)
      BY <1>1, <1>2, <2>1, <2>2, Nobody DEF Asks
    <3> QED
      BY <1>4, <2>2, <3>1, Nobody
  <2>4. h \in ToSet(list)
    BY <2>3 DEF Iterates
  <2>5. /\ Iterates(list, next, nullptr) /\ h \notin Rest(list, next, nullptr)
        /\ Rest(list, h, nullptr) = {h} \cup Rest(list, next, nullptr)
    BY <1>4, <2>2, <2>4, Nobody, RestAfter
  <2>6. h \in handlers
    BY <1>4, <2>2, <2>4
  <2>7. next \in Handler \cup {nullptr}
    <3> HIDE DEF next
    <3> QED
      BY <1>4, <2>2, <2>5 DEF Iterates
  <2> HIDE DEF next
  <2>8. /\ frame \in AskingFrame /\ frame.call = "OnEvent" /\ frame.element = top.element
        /\ frame.event = top.event /\ frame.target = top.target /\ frame.handler = next /\ frame.owed = top.owed
    <3> HIDE DEF top
    <3> QED
      BY <1>1, <1>2, <2>7 DEF AskingFrame
  <2>9. ASSUME NEW o \in top.owed
        PROVE  /\ o[1] \in ToSet(list)
               /\ o[1] \in Rest(list, next, nullptr) \/ (o[1] = h /\ o[2] > 0)
               /\ o[2] \in DOMAIN functions[o[1]]
               /\ Matches(functions[o[1]][o[2]], top.event, top.target)
    <3>1. o[1] \in Handler
      BY <1>4, <2>2, <2>3
    <3>2. functions[o[1]] \in Seq(Function)
      BY <3>1 DEF ListenersIInv, ListenersTypeOK
    <3>3. o[2] > 0
      BY <2>3, <3>2
    <3> QED
      BY <2>3, <2>5, <3>3
  <2>10. Ask(frame, h, NextMatch(h, 0)) /\ 0 \in Nat
    BY <2>1 DEF next
  <2> HIDE DEF frame
  <2>11. \A o \in frame.owed :
           /\ o[1] \in ToSet(list)
           /\ o[1] \in Rest(list, frame.handler, nullptr) \/ (o[1] = h /\ o[2] > 0)
           /\ o[2] \in DOMAIN functions[o[1]]
           /\ Matches(functions[o[1]][o[2]], top.event, top.target)
    BY <2>8, <2>9
  <2>12. Iterates(list, frame.handler, nullptr) /\ h \notin Rest(list, frame.handler, nullptr)
    BY <2>5, <2>8
  <2> QED
    BY <1>1, <2>2, <2>6, <2>8, <2>10, <2>11, <2>12, AskAgrees
<1>6. CASE Unhandled
  <2> DEFINE h == top.in
             m == top.at
             list == event_handlers_[top.element]
  <2>1. /\ h # nullptr /\ top.element # nullptr /\ top.target # nullptr
        /\ Ask(top, h, NextMatch(h, m))
    BY <1>6 DEF Unhandled
  <2>2. h \in Handler /\ m \in Nat
    BY <1>2, <2>1 DEF AskingFrame
  <2>3. /\ h \in handlers
        /\ Iterates(list, top.handler, nullptr) /\ h \notin Rest(list, top.handler, nullptr)
        /\ \A o \in top.owed :
             /\ o[1] \in ToSet(list)
             /\ o[1] \in Rest(list, top.handler, nullptr) \/ (o[1] = h /\ o[2] > m)
             /\ o[2] \in DOMAIN functions[o[1]]
             /\ Matches(functions[o[1]][o[2]], top.event, top.target)
    BY <1>1, <1>2, <2>1 DEF Asks
  <2> HIDE DEF h, m
  <2> QED
    BY <1>1, <1>2, <2>1, <2>2, <2>3, AskAgrees
<1>7. CASE Propagate
  <2>1. top.in = nullptr /\ top.element # nullptr /\ top.target # nullptr
    BY <1>3, <1>7 DEF Propagate, Asked
  <2> DEFINE e == EventDestination(top.element)
  <2>2. notifying' = IF e = nullptr THEN Below ELSE Under(OnEvent(e, top.event, top.target))
    BY <1>7 DEF Propagate
  <2>3. CASE e = nullptr
    BY <1>1, <2>2, <2>3, CallEnds
  <2>4. CASE e # nullptr
    <3> DEFINE g == OnEvent(e, top.event, top.target)
    <3>1. e \in Element
      BY <1>4, <2>1, <2>4, ListenersAssumption DEF EventDestination
    <3>2. top.target \in Element /\ top.event \in Event \cup {nullptr} /\ ListenersTypeOK
      BY <1>2, <2>1 DEF AskingFrame, ListenersIInv
    <3> HIDE DEF e
    <3>3. /\ FrameAgrees(g, life, m_listeners, g_listeners, event_handlers_, functions, handlers)
          /\ g.call = "OnEvent"
      BY <3>1, <3>2, OnEventAgrees
    <3>4. notifying' = Under(g)
      BY <2>2, <2>4
    <3> HIDE DEF g
    <3>5. Alike(Top, g)
      BY <1>1, <3>3 DEF Alike
    <3> QED
      BY <1>1, <3>3, <3>4, <3>5, CallGoesOn
  <2> QED
    BY <2>3, <2>4
<1> QED
  BY <1>5, <1>6, <1>7

(* A removal from another list takes nothing from what Deletes says. *)
LEMMA DeletesLeaving ==
  ASSUME NEW f, NEW lf, NEW lists, Deletes(f, lf, lists), NEW e, NEW gone
  PROVE  Leaving(f, lf, lists, e, gone)
BY DEF Deletes, Leaving

(* A weak pointer lets go in the course of frames, and nothing else changes. *)
LEMMA ReleaseStep ==
  ASSUME ListenersIInv, NEW p \in Pointer, NEW frames \in Seq(Frame), Nested(frames, life),
         \A i \in 1..Len(frames) :
           /\ Knows(frames[i], m_listeners, g_listeners, event_handlers_, functions, handlers)
           /\ Leaving(frames[i], life, m_listeners, m_element[p], {p}),
         Release(p, frames), UNCHANGED <<life, g_listeners, event_handlers_, handlers, functions>>,
         p \in Handler /\ m_element[p] # nullptr => life[m_element[p]] = "deleting"
  PROVE  ListenersIInv'
<1>1. ListenersTypeOK /\ PointersListed
  BY DEF ListenersIInv, ListsAgree
<1>2. /\ Stack(notifying', life, m_listeners', g_listeners, event_handlers_, functions, handlers)
      /\ m_listeners' \in [Element -> Seq(Local)] /\ \A d \in Element : IsInjective(m_listeners'[d])
      /\ m_element' \in [Pointer -> Element \cup {nullptr}] /\ m_element'[p] = nullptr
      /\ \A q \in Pointer : q # p => m_element'[q] = m_element[q]
      /\ PointersListed'
      /\ \A d \in Element : m_listeners[d] = <<>> => m_listeners'[d] = <<>>
  BY <1>1, ReleaseAgrees
<1>3. ListenersTypeOK'
  BY <1>1, <1>2 DEF ListenersTypeOK, Stack
<1>4. NoneLeft'
  BY <1>2 DEF ListenersIInv, ListsAgree, NoneLeft
<1>5. HandlersOff'
  <2>1. \A h \in Handler : m_element'[h] = m_element[h] \/ m_element'[h] = nullptr
    BY <1>2, Nobody
  <2> QED
    BY <2>1 DEF ListenersIInv, ListsAgree, HandlersOff
<1>6. HandlersListed'
  <2>1. ASSUME NEW h \in Handler, NEW e \in Element
        PROVE  /\ m_element'[h] = e => h \in ToSet(event_handlers_[e])
               /\ h \in ToSet(event_handlers_[e]) => h \in handlers /\ (m_element'[h] = e \/ life[e] = "deleting")
    <3>1. /\ m_element[h] = e => h \in ToSet(event_handlers_[e])
          /\ h \in ToSet(event_handlers_[e]) => h \in handlers /\ (m_element[h] = e \/ life[e] = "deleting")
          /\ e # nullptr /\ h \in Pointer
      BY Nobody DEF ListenersIInv, ListsAgree, HandlersListed
    <3>2. CASE h = p
      BY <1>2, <3>1, <3>2
    <3>3. CASE h # p
      BY <1>2, <3>1, <3>3
    <3> QED
      BY <3>2, <3>3
  <2> QED
    BY <2>1 DEF HandlersListed
<1>7. FramesAgree'
  BY <1>2 DEF FramesAgree
<1> QED
  BY <1>2, <1>3, <1>4, <1>5, <1>6, <1>7 DEF ListenersIInv, ListsAgree

(* The next local listener is told; a weak pointer to the element that is deleted leaves
   its list. *)
LEMMA TellLocalStep ==
  ASSUME ListenersIInv, TellLocal
  PROVE  ListenersIInv'
<1> DEFINE top == Top
           list == m_listeners[top.element]
<1>1. PICK l \in Local :
        /\ l = top.local
        /\ LET next == [top EXCEPT !.local = After(list, l, nullptr), !.locals = @ \ {l}]
           IN  \/ l \in Pointer /\ TellPointer(l, Under(next))
               \/ /\ l \in Listener
                  /\ notifying' = Under([next EXCEPT !.in = l])
                  /\ UNCHANGED <<m_listeners, m_element>>
  BY DEF TellLocal
<1> DEFINE at == After(list, l, nullptr)
           locals == top.locals \ {l}
           next == [top EXCEPT !.local = at, !.locals = @ \ {l}]
           next2 == [next EXCEPT !.in = l]
<1>2. /\ notifying # <<>> /\ top.call # "OnEvent" /\ top.in = nullptr
      /\ UNCHANGED <<life, g_listeners, event_handlers_, handlers, functions>>
  BY DEF TellLocal, Telling
<1>3. /\ FrameAgrees(top, life, m_listeners, g_listeners, event_handlers_, functions, handlers)
      /\ top \in TellingFrame
  BY <1>2, TopAgrees, FrameKinds
<1>4. l # nullptr /\ top.element \in Element
  <2>1. l # nullptr
    BY Nobody
  <2>2. top.element # nullptr
    BY <1>1, <1>2, <1>3, <2>1 DEF FrameAgrees, Knows, TellsLocals
  <2> QED
    BY <1>3, <2>1, <2>2 DEF TellingFrame
<1>5. list \in Seq(Local) /\ IsInjective(list)
  BY <1>4 DEF ListenersIInv, ListenersTypeOK
<1>6. Iterates(list, l, nullptr) /\ top.locals \subseteq Rest(list, l, nullptr)
  BY <1>1, <1>2, <1>3, <1>4, Nobody DEF FrameAgrees, Knows, TellsLocals
<1>7. l \in ToSet(list) /\ ToSet(list) \subseteq Local
  BY <1>4, <1>5, <1>6, Nobody, FirstProperties DEF Iterates
<1>8. Iterates(list, at, nullptr) /\ Rest(list, l, nullptr) = {l} \cup Rest(list, at, nullptr)
  BY <1>5, <1>7, Nobody, RestAfter
<1>9. at \in Local \cup {nullptr} /\ locals \in SUBSET Local
  <2> HIDE DEF at, list
  <2>1. top.locals \in SUBSET Local
    BY <1>3 DEF TellingFrame
  <2> QED
    BY <1>7, <1>8, <2>1 DEF Iterates
<1>10. /\ next = Going(top, top.element, at, locals, top.global, top.globals, top.in, top.handled)
       /\ next2 = Going(top, top.element, at, locals, top.global, top.globals, l, top.handled)
  <2> HIDE DEF at, top
  <2> QED
    BY <1>3 DEF Going, TellingFrame
<1>11. \/ l \in Pointer /\ TellPointer(l, Under(next))
       \/ l \in Listener /\ notifying' = Under(next2) /\ UNCHANGED <<m_listeners, m_element>>
  BY <1>1
<1>12. locals \subseteq Rest(list, at, nullptr)
  BY <1>6, <1>8
<1> HIDE DEF top, list, at, locals, next, next2
<1>13. /\ next \in Frame /\ next.call = top.call /\ next.element = top.element /\ next.in = nullptr
       /\ next.local = at /\ next.locals = locals /\ next.global = top.global /\ next.globals = top.globals
       /\ next.handled = top.handled
  BY ONLY <1>2, <1>3, <1>4, <1>9, <1>10 DEF Going, TellingFrame, Frame
<1>14. Knows(next, m_listeners, g_listeners, event_handlers_, functions, handlers)
  <2>1. TellsLocals(next, m_listeners)
    BY <1>4, <1>8, <1>12, <1>13, Nobody DEF TellsLocals, list
  <2>2. TellsGlobals(next, g_listeners) /\ Dies(next) /\ Asks(next, event_handlers_, functions, handlers)
    BY <1>2, <1>3, <1>4, <1>13, Nobody DEF FrameAgrees, Knows, TellsGlobals, Dies, Asks
  <2> QED
    BY <1>13, <2>1, <2>2 DEF Knows
<1>15. top.call = "Delete" => /\ life[top.element] = "deleting"
                             /\ ToSet(list) \subseteq {l} \cup Rest(list, at, nullptr)
  <2>1. top.call = "Delete" => /\ life[top.element] = "deleting"
                              /\ ToSet(list) \subseteq Rest(list, l, nullptr) \cup {nullptr}
    BY <1>1, <1>2, <1>3 DEF FrameAgrees, Deletes, Leaving, list
  <2>2. nullptr \notin ToSet(list)
    BY <1>7, Nobody
  <2> QED
    BY <1>8, <2>1, <2>2
<1>16. CASE l \in Pointer
  <2>1. l \notin Listener
    BY <1>16, Nobody
  <2>2. TellPointer(l, Under(next))
    BY <1>11, <2>1
  <2>3. m_element[l] = top.element
    BY <1>4, <1>7, <1>16 DEF ListenersIInv, ListsAgree, PointersListed, list
  <2>4. Alike(Top, next)
    BY <1>13 DEF Alike, top
  <2>5. CASE top.call = "Delete"
    <3>1. Release(l, Under(next))
      BY <2>2, <2>3, <2>5 DEF TellPointer, top
    <3>2. /\ Under(next) \in Seq(Frame) /\ Len(Under(next)) = Len(notifying) /\ Under(next)[Len(notifying)] = next
          /\ \A i \in 1..Len(notifying) : i # Len(notifying) => Under(next)[i] = notifying[i]
          /\ Nested(Under(next), life)
      BY <1>2, <1>13, <2>4, UnderProperties
    <3>3. Leaving(next, life, m_listeners, m_element[l], {l})
      <4>1. next.element # nullptr /\ next.element = m_element[l] /\ life[next.element] = "deleting"
        BY <1>4, <1>13, <1>15, <2>3, <2>5, Nobody
      <4>2. ToSet(m_listeners[next.element]) \subseteq {l} \cup Rest(m_listeners[next.element], next.local, nullptr)
        BY <1>13, <1>15, <2>5 DEF list
      <4> QED
        BY <4>1, <4>2 DEF Leaving
    <3>4. ASSUME NEW i \in 1..Len(Under(next))
          PROVE  /\ Knows(Under(next)[i], m_listeners, g_listeners, event_handlers_, functions, handlers)
                 /\ Leaving(Under(next)[i], life, m_listeners, m_element[l], {l})
      <4>1. CASE i = Len(notifying)
        BY <1>14, <3>2, <3>3, <4>1
      <4>2. CASE i # Len(notifying)
        <5>1. /\ Under(next)[i] = notifying[i]
              /\ FrameAgrees(notifying[i], life, m_listeners, g_listeners, event_handlers_, functions, handlers)
          BY <3>2, <4>2 DEF ListenersIInv, FramesAgree, Stack
        <5> QED
          BY <5>1, DeletesLeaving DEF FrameAgrees
      <4> QED
        BY <4>1, <4>2
    <3>5. life[m_element[l]] = "deleting"
      BY <1>15, <2>3, <2>5
    <3> QED
      BY <1>2, <1>16, <3>1, <3>2, <3>4, <3>5, ReleaseStep
  <2>6. CASE top.call # "Delete"
    <3>1. notifying' = Under(next) /\ UNCHANGED <<life, linked, g_listeners>>
      BY <1>2, <2>2, <2>6 DEF TellPointer, linked, top
    <3>2. Deletes(next, life, m_listeners)
      BY <1>13, <2>6 DEF Deletes, Leaving
    <3> QED
      BY <1>2, <1>14, <2>4, <3>1, <3>2, CallGoesOn DEF FrameAgrees
  <2> QED
    BY <2>5, <2>6
<1>17. CASE l \notin Pointer
  <2>1. l \in Listener /\ notifying' = Under(next2) /\ UNCHANGED <<life, linked, g_listeners>>
    BY <1>2, <1>11, <1>17 DEF linked
  <2>2. /\ next2 \in Frame /\ next2.call = top.call /\ next2.element = top.element /\ next2.in = l
        /\ next2.local = at /\ next2.locals = locals /\ next2.global = top.global /\ next2.globals = top.globals
        /\ next2.handled = top.handled
    <3>1. l \in Listener
      BY <2>1
    <3> QED
      BY ONLY <1>3, <1>4, <1>9, <1>10, <3>1 DEF Going, TellingFrame, Frame
  <2>3. TellsLocals(next2, m_listeners)
    BY <1>4, <1>8, <1>12, <2>2, Nobody DEF TellsLocals, list
  <2>4. TellsGlobals(next2, g_listeners) /\ Dies(next2) /\ Asks(next2, event_handlers_, functions, handlers)
    BY <1>2, <1>3, <1>4, <2>2, Nobody DEF FrameAgrees, Knows, TellsGlobals, Dies, Asks
  <2>5. Deletes(next2, life, m_listeners)
    BY <1>4, <1>15, <2>2, Nobody DEF Deletes, Leaving, list
  <2>6. /\ FrameAgrees(next2, life, m_listeners, g_listeners, event_handlers_, functions, handlers)
        /\ Alike(Top, next2)
    BY <2>2, <2>3, <2>4, <2>5 DEF FrameAgrees, Knows, Alike, top
  <2> QED
    BY <1>2, <2>1, <2>6, CallGoesOn
<1> QED
  BY <1>16, <1>17

(* The destructor ends only when the element has no listener left: a child goes first, then
   the lists, and who still walks them forgets the element. *)
LEMMA DeletedStep ==
  ASSUME ListenersIInv, Deleted
  PROVE  ListenersIInv'
<1> DEFINE e == Top.element
<1>1. notifying # <<>> /\ Top.call = "Delete" /\ Top.in = nullptr /\ Top.local = nullptr
  BY DEF Deleted, Told, Telling
<1>2. /\ FrameAgrees(Top, life, m_listeners, g_listeners, event_handlers_, functions, handlers) /\ Top \in Frame
      /\ Stack(notifying, life, m_listeners, g_listeners, event_handlers_, functions, handlers)
  BY <1>1, TopAgrees DEF ListenersIInv, FramesAgree
<1>3. CASE \E c \in Element :
             /\ Parent[c] = Top.element /\ life[c] \in {"alive", "dying"}
             /\ DeleteOver(notifying, c)
  <2>1. Calling(notifying)
    BY <1>1 DEF Calling, Top
  <2> QED
    BY <1>2, <1>3, <2>1, DeleteBegins
<1>4. CASE /\ life' = [life EXCEPT ![e] = "none"]
           /\ event_handlers_' = [event_handlers_ EXCEPT ![e] = <<>>]
           /\ notifying' = [i \in DOMAIN Below |-> Forget(Below[i], e)]
           /\ UNCHANGED <<m_listeners, m_element, handlers, functions, g_listeners>>
  <2>1. /\ e # nullptr /\ life[e] = "deleting"
        /\ ToSet(m_listeners[e]) \subseteq Rest(m_listeners[e], nullptr, nullptr) \cup {nullptr}
    BY <1>1, <1>2 DEF FrameAgrees, Deletes, Leaving
  <2>2. e \in Element
    BY <1>2, <2>1, FrameKinds
  <2> HIDE DEF e
  <2>3. m_listeners[e] = <<>>
    <3>1. m_listeners[e] \in Seq(Local)
      BY <2>2 DEF ListenersIInv, ListenersTypeOK
    <3>2. Rest(m_listeners[e], nullptr, nullptr) = {}
      BY DEF Rest
    <3>3. nullptr \notin ToSet(m_listeners[e])
      BY <3>1, Nobody, FirstProperties
    <3>4. ToSet(m_listeners[e]) = {}
      BY <2>1, <3>2, <3>3
    <3> QED
      BY <3>1, <3>4, Nobody, FirstProperties
  <2>4. /\ life \in [Element -> {"none", "alive", "dying", "deleting"}]
        /\ event_handlers_ \in [Element -> Seq(Handler)] /\ \A d \in Element : IsInjective(event_handlers_[d])
    BY DEF ListenersIInv, ListenersTypeOK
  <2>5. /\ life'[e] = "none" /\ \A d \in Element \ {e} : life'[d] = life[d]
        /\ event_handlers_'[e] = <<>> /\ \A d \in Element \ {e} : event_handlers_'[d] = event_handlers_[d]
    BY <1>4, <2>2, <2>4
  <2>6. /\ life' \in [Element -> {"none", "alive", "dying", "deleting"}]
        /\ event_handlers_' \in [Element -> Seq(Handler)]
    BY <1>4, <2>2, <2>4
  <2>7. \A d \in Element : IsInjective(event_handlers_'[d])
    <3>1. IsInjective(<<>>)
      BY DEF IsInjective
    <3> QED
      BY <2>4, <2>5, <3>1
  <2>8. Stack(notifying', life', m_listeners, g_listeners, event_handlers_', functions, handlers)
    <3>1. notifying[Len(notifying)].call = "Delete" /\ notifying[Len(notifying)].element = e
      BY <1>1 DEF Top, e
    <3>2. Stack([i \in DOMAIN Below |-> Forget(Below[i], e)],
                life', m_listeners, g_listeners, event_handlers_', functions, handlers)
      <4>1. Below = SubSeq(notifying, 1, Len(notifying) - 1)
        BY DEF Below
      <4>2. Stack(notifying, life, m_listeners, g_listeners, event_handlers_, functions, handlers) /\ notifying # <<>>
        BY <1>1, <1>2
      <4> QED
        BY ONLY <2>2, <2>5, <3>1, <4>1, <4>2, Forgotten
    <3> QED
      BY <1>4, <3>2
  <2>9. ListenersTypeOK'
    BY <1>4, <2>6, <2>7, <2>8 DEF ListenersIInv, ListenersTypeOK, Stack
  <2>10. PointersListed' /\ HandlersOff'
    BY <1>4 DEF ListenersIInv, ListsAgree, PointersListed, HandlersOff
  <2>11. NoneLeft'
    BY <1>4, <2>3, <2>5 DEF ListenersIInv, ListsAgree, NoneLeft
  <2>12. HandlersListed'
    <3>1. ASSUME NEW h \in Handler, NEW d \in Element
          PROVE  /\ m_element[h] = d => h \in ToSet(event_handlers_'[d])
                 /\ h \in ToSet(event_handlers_'[d]) => h \in handlers /\ (m_element[h] = d \/ life'[d] = "deleting")
      <4>1. CASE d = e
        <5>1. ToSet(m_listeners[e]) = {} /\ ToSet(event_handlers_'[e]) = {}
          BY <2>3, <2>5 DEF ToSet
        <5>2. m_element[h] # e
          BY <2>2, <5>1, Nobody DEF ListenersIInv, ListsAgree, PointersListed
        <5> QED
          BY <4>1, <5>1, <5>2
      <4>2. CASE d # e
        BY <2>5, <4>2 DEF ListenersIInv, ListsAgree, HandlersListed
      <4> QED
        BY <4>1, <4>2
    <3> QED
      BY <1>4, <3>1 DEF HandlersListed
  <2>13. FramesAgree'
    BY <1>4, <2>8 DEF FramesAgree
  <2> QED
    BY <2>9, <2>10, <2>11, <2>12, <2>13 DEF ListenersIInv, ListsAgree
<1> QED
  BY <1>3, <1>4 DEF Deleted

-----------------------------------------------------------------------------
(* The lists change. *)

(* A listener is added at the end, ahead of every iterator that is not past it. *)
LEMMA AddListenerStep ==
  ASSUME ListenersIInv, NEW e \in Element, NEW l \in Listener, AddListener(e, l)
  PROVE  ListenersIInv'
<1>1. /\ life[e] \in {"alive", "dying"} /\ l \notin ToSet(m_listeners[e])
      /\ m_listeners' = [m_listeners EXCEPT ![e] = Append(@, l)]
      /\ UNCHANGED <<life, g_listeners, m_element, event_handlers_, handlers, functions, notifying>>
  BY DEF AddListener, Unheard
<1>2. /\ m_listeners \in [Element -> Seq(Local)] /\ \A d \in Element : IsInjective(m_listeners[d])
  BY DEF ListenersIInv, ListenersTypeOK
<1>3. m_listeners'[e] = Append(m_listeners[e], l) /\ \A d \in Element \ {e} : m_listeners'[d] = m_listeners[d]
  BY <1>1, <1>2
<1>4. /\ Append(m_listeners[e], l) \in Seq(Local) /\ IsInjective(Append(m_listeners[e], l))
      /\ ToSet(Append(m_listeners[e], l)) = ToSet(m_listeners[e]) \cup {l}
  BY <1>1, <1>2, Nobody, AppendedProperties
<1>5. /\ m_listeners' \in [Element -> Seq(Local)] /\ \A d \in Element : IsInjective(m_listeners'[d])
  BY <1>1, <1>2, <1>3, <1>4
<1>6. Stack(notifying', life, m_listeners', g_listeners, event_handlers_, functions, handlers)
  <2>1. Stack(notifying, life, m_listeners, g_listeners, event_handlers_, functions, handlers)
    BY DEF ListenersIInv, FramesAgree
  <2>2. \A i \in 1..Len(notifying) :
          FrameAgrees(notifying[i], life, m_listeners', g_listeners, event_handlers_, functions, handlers)
    BY <1>1, <1>2, <1>3, <2>1, Nobody, LocalAdded DEF Stack
  <2> QED
    BY <1>1, <2>1, <2>2 DEF Stack
<1>7. ListenersTypeOK'
  BY <1>1, <1>5, <1>6 DEF ListenersIInv, ListenersTypeOK, Stack
<1>8. PointersListed'
  <2>1. ASSUME NEW p \in Pointer, NEW d \in Element
        PROVE  p \in ToSet(m_listeners'[d]) <=> m_element[p] = d
    <3>1. p # l /\ (p \in ToSet(m_listeners[d]) <=> m_element[p] = d)
      BY Nobody DEF ListenersIInv, ListsAgree, PointersListed
    <3> QED
      BY <1>3, <1>4, <3>1
  <2> QED
    BY <1>1, <2>1 DEF PointersListed
<1>9. NoneLeft'
  BY <1>1, <1>3 DEF ListenersIInv, ListsAgree, NoneLeft
<1>10. HandlersListed' /\ HandlersOff'
  BY <1>1 DEF ListenersIInv, ListsAgree, HandlersListed, HandlersOff
<1>11. FramesAgree'
  BY <1>1, <1>6 DEF FramesAgree
<1> QED
  BY <1>7, <1>8, <1>9, <1>10, <1>11 DEF ListenersIInv, ListsAgree

(* A listener is removed: iterators that stand at it step on. *)
LEMMA RemoveListenerStep ==
  ASSUME ListenersIInv, NEW e \in Element, NEW l \in Listener, RemoveListener(e, l)
  PROVE  ListenersIInv'
<1>1. /\ RemoveLocal(notifying, e, {l})
      /\ UNCHANGED <<life, g_listeners, m_element, event_handlers_, handlers, functions>>
  BY DEF RemoveListener
<1>2. ListenersTypeOK /\ Stack(notifying, life, m_listeners, g_listeners, event_handlers_, functions, handlers)
  BY DEF ListenersIInv, FramesAgree
<1>3. /\ Stack(notifying', life, m_listeners', g_listeners, event_handlers_, functions, handlers)
      /\ m_listeners' \in [Element -> Seq(Local)] /\ \A d \in Element : IsInjective(m_listeners'[d])
      /\ \A d \in Element : d # e => m_listeners'[d] = m_listeners[d]
      /\ ToSet(m_listeners'[e]) = ToSet(m_listeners[e]) \ {l}
  <2>1. \A i \in 1..Len(notifying) :
          /\ Knows(notifying[i], m_listeners, g_listeners, event_handlers_, functions, handlers)
          /\ Leaving(notifying[i], life, m_listeners, e, {l})
    BY <1>2, DeletesLeaving DEF Stack, FrameAgrees
  <2> QED
    BY <1>1, <1>2, <2>1, RemoveLocalAgrees DEF Stack
<1>4. ListenersTypeOK'
  BY <1>1, <1>2, <1>3 DEF ListenersTypeOK, Stack
<1>5. PointersListed'
  <2>1. ASSUME NEW p \in Pointer, NEW d \in Element
        PROVE  p \in ToSet(m_listeners'[d]) <=> m_element[p] = d
    <3>1. p # l /\ (p \in ToSet(m_listeners[d]) <=> m_element[p] = d)
      BY Nobody DEF ListenersIInv, ListsAgree, PointersListed
    <3> QED
      BY <1>3, <3>1
  <2> QED
    BY <1>1, <2>1 DEF PointersListed
<1>6. NoneLeft'
  <2>1. ASSUME NEW d \in Element, m_listeners[d] = <<>>
        PROVE  m_listeners'[d] = <<>>
    <3>1. CASE d = e
      <4>1. m_listeners'[e] \in Seq(Local) /\ ToSet(m_listeners'[e]) = {}
        <5>1. ToSet(m_listeners[e]) = {}
          BY <2>1, <3>1 DEF ToSet
        <5> QED
          BY <1>3, <5>1
      <4> QED
        BY <3>1, <4>1, Nobody, FirstProperties
    <3> QED
      BY <1>3, <2>1, <3>1
  <2> QED
    BY <1>1, <2>1 DEF ListenersIInv, ListsAgree, NoneLeft
<1>7. HandlersListed' /\ HandlersOff'
  BY <1>1 DEF ListenersIInv, ListsAgree, HandlersListed, HandlersOff
<1>8. FramesAgree'
  BY <1>1, <1>3 DEF FramesAgree
<1> QED
  BY <1>4, <1>5, <1>6, <1>7, <1>8 DEF ListenersIInv, ListsAgree

(* The same of global listeners *)
LEMMA GlobalListenerSteps ==
  ASSUME ListenersIInv, NEW l \in Listener, AddGlobalListener(l) \/ RemoveGlobalListener(l)
  PROVE  ListenersIInv'
<1>1. /\ UNCHANGED <<life, linked>>
  BY DEF AddGlobalListener, RemoveGlobalListener
<1>2. g_listeners \in Seq(Listener) /\ IsInjective(g_listeners)
  BY DEF ListenersIInv, ListenersTypeOK
<1>3. Stack(notifying, life, m_listeners, g_listeners, event_handlers_, functions, handlers)
  BY DEF ListenersIInv, FramesAgree
<1>4. /\ Stack(notifying', life, m_listeners, g_listeners', event_handlers_, functions, handlers)
      /\ g_listeners' \in Seq(Listener) /\ IsInjective(g_listeners')
  <2>1. CASE AddGlobalListener(l)
    <3>1. l \notin ToSet(g_listeners) /\ g_listeners' = Append(g_listeners, l) /\ notifying' = notifying
      BY <2>1 DEF AddGlobalListener
    <3>2. g_listeners' \in Seq(Listener) /\ IsInjective(g_listeners')
      BY <1>2, <3>1, AppendedProperties
    <3>3. \A i \in 1..Len(notifying) :
            FrameAgrees(notifying[i], life, m_listeners, g_listeners', event_handlers_, functions, handlers)
      BY <1>2, <1>3, <3>1, GlobalAdded DEF Stack
    <3> QED
      BY <1>3, <3>1, <3>2, <3>3 DEF Stack
  <2>2. CASE RemoveGlobalListener(l)
    <3>1. /\ g_listeners' = Without(g_listeners, {l})
          /\ notifying' = [i \in DOMAIN notifying |-> GlobalsLeft(notifying[i], {l})]
      BY <2>2 DEF RemoveGlobalListener
    <3>2. g_listeners' \in Seq(Listener) /\ IsInjective(g_listeners')
      BY <1>2, <3>1, WithoutProperties
    <3>3. notifying \in Seq(Frame) /\ DOMAIN notifying = 1..Len(notifying)
      BY <1>3 DEF Stack
    <3>4. ASSUME NEW i \in 1..Len(notifying)
          PROVE  /\ FrameAgrees(notifying'[i], life, m_listeners, g_listeners', event_handlers_, functions, handlers)
                 /\ notifying'[i].call = notifying[i].call /\ notifying'[i].element = notifying[i].element
                 /\ notifying'[i].in = notifying[i].in
      <4>1. notifying'[i] = GlobalsLeft(notifying[i], {l})
        BY <3>1, <3>3
      <4>2. FrameAgrees(notifying[i], life, m_listeners, g_listeners, event_handlers_, functions, handlers)
        BY <1>3 DEF Stack
      <4> QED
        BY <1>2, <3>1, <4>1, <4>2, GlobalsLeftAgrees
    <3>5. notifying' \in Seq(Frame) /\ Len(notifying') = Len(notifying)
      <4>1. \A i \in 1..Len(notifying) : notifying'[i] \in Frame
        BY <3>4 DEF FrameAgrees, Knows
      <4>2. notifying' = [i \in DOMAIN notifying |-> notifying'[i]]
        BY <3>1
      <4> QED
        BY <3>3, <4>1, <4>2, Mapped
    <3>6. Nested(notifying', life)
      <4>1. \A i \in 1..Len(notifying) : Alike(notifying[i], notifying'[i])
        BY <3>4 DEF Alike
      <4>2. \A i \in 1..Len(notifying) :
              i < Len(notifying) => notifying'[i].in = notifying[i].in /\ notifying'[i].call = notifying[i].call
        BY <3>4
      <4> QED
        BY <1>3, <3>5, <4>1, <4>2, NestedChanged DEF Stack
    <3> QED
      BY <3>2, <3>4, <3>5, <3>6 DEF Stack
  <2> QED
    BY <2>1, <2>2
<1>5. /\ life' = life /\ m_listeners' = m_listeners /\ m_element' = m_element
      /\ event_handlers_' = event_handlers_ /\ handlers' = handlers /\ functions' = functions
  BY <1>1 DEF linked
<1>6. ListenersTypeOK'
  BY <1>4, <1>5 DEF ListenersIInv, ListenersTypeOK, Stack
<1>7. ListsAgree'
  BY <1>5 DEF ListenersIInv, ListsAgree, PointersListed, NoneLeft, HandlersListed, HandlersOff
<1>8. FramesAgree'
  BY <1>4, <1>5 DEF FramesAgree
<1> QED
  BY <1>6, <1>7, <1>8 DEF ListenersIInv

(* A weak pointer leaves the list of one element and joins that of another. *)
LEMMA ResetSteps ==
  ASSUME ListenersIInv, NEW w \in Weak, ResetToNull(w) \/ \E e \in Element : ResetTo(w, e)
  PROVE  ListenersIInv'
<1> DEFINE old == m_element[w]
<1>1. /\ w \in Pointer /\ w \in Local /\ w \notin Handler
      /\ m_listeners \in [Element -> Seq(Local)] /\ \A d \in Element : IsInjective(m_listeners[d])
      /\ m_element \in [Pointer -> Element \cup {nullptr}]
  BY Nobody DEF ListenersIInv, ListenersTypeOK, Pointer, Local
<1>2. Stack(notifying, life, m_listeners, g_listeners, event_handlers_, functions, handlers)
  BY DEF ListenersIInv, FramesAgree
<1>3. /\ notifying \in Seq(Frame) /\ Nested(notifying, life) /\ DOMAIN notifying = 1..Len(notifying)
      /\ \A i \in 1..Len(notifying) :
           FrameAgrees(notifying[i], life, m_listeners, g_listeners, event_handlers_, functions, handlers)
  BY <1>2 DEF Stack
<1>4. \A i \in 1..Len(notifying) :
        /\ Knows(notifying[i], m_listeners, g_listeners, event_handlers_, functions, handlers)
        /\ Leaving(notifying[i], life, m_listeners, old, {w})
  BY <1>3, DeletesLeaving DEF FrameAgrees
<1>5. \A d \in Element : w \in ToSet(m_listeners[d]) <=> old = d
  BY <1>1 DEF ListenersIInv, ListsAgree, PointersListed
<1>6. CASE ResetToNull(w)
  <2>1. Release(w, notifying) /\ UNCHANGED <<life, g_listeners, event_handlers_, handlers, functions>>
    BY <1>6 DEF ResetToNull
  <2> QED
    BY <1>1, <1>3, <1>4, <2>1, ReleaseStep
<1>7. CASE \E e \in Element : ResetTo(w, e)
  <2>0. PICK e \in Element : ResetTo(w, e)
    BY <1>7
  <2>1. /\ life[e] \in {"alive", "dying"} /\ old # e /\ m_element' = [m_element EXCEPT ![w] = e]
        /\ UNCHANGED <<life, g_listeners, event_handlers_, handlers, functions>>
    BY <2>0 DEF ResetTo
  <2> DEFINE mid == IF old = nullptr THEN m_listeners ELSE [m_listeners EXCEPT ![old] = Without(@, {w})]
  <2>2. /\ mid \in [Element -> Seq(Local)] /\ \A d \in Element : IsInjective(mid[d])
        /\ \A d \in Element : ToSet(mid[d]) = ToSet(m_listeners[d]) \ {w}
        /\ old # nullptr => mid[old] = Without(m_listeners[old], {w}) /\ \A d \in Element \ {old} : mid[d] = m_listeners[d]
    <3>1. CASE old = nullptr
      <4>1. mid = m_listeners
        BY <3>1
      <4>2. \A d \in Element : w \notin ToSet(m_listeners[d])
        BY <1>5, <3>1, Nobody
      <4> HIDE DEF mid, old
      <4> QED
        BY <1>1, <3>1, <4>1, <4>2
    <3>2. CASE old # nullptr
      <4>1. old \in Element
        BY <1>1, <3>2
      <4>2. mid = [m_listeners EXCEPT ![old] = Without(@, {w})]
        BY <3>2
      <4> HIDE DEF mid, old
      <4>3. mid[old] = Without(m_listeners[old], {w}) /\ \A d \in Element \ {old} : mid[d] = m_listeners[d]
        BY <1>1, <4>1, <4>2
      <4>4. /\ Without(m_listeners[old], {w}) \in Seq(Local) /\ IsInjective(Without(m_listeners[old], {w}))
            /\ ToSet(Without(m_listeners[old], {w})) = ToSet(m_listeners[old]) \ {w}
        BY <1>1, <4>1, WithoutProperties
      <4>5. mid \in [Element -> Seq(Local)] /\ \A d \in Element : IsInjective(mid[d])
        BY <1>1, <4>1, <4>2, <4>3, <4>4
      <4>6. \A d \in Element : ToSet(mid[d]) = ToSet(m_listeners[d]) \ {w}
        BY <1>5, <4>3, <4>4
      <4> QED
        BY <4>3, <4>5, <4>6
    <3> QED
      BY <3>1, <3>2
  <2>3. m_listeners' = [mid EXCEPT ![e] = Append(@, w)]
    <3>1. CASE old = nullptr
      BY <2>0, <3>1 DEF ResetTo
    <3>2. CASE old # nullptr
      <4>1. m_listeners' = [m_listeners EXCEPT ![old] = Without(@, {w}), ![e] = Append(@, w)]
        BY <2>0, <3>2 DEF ResetTo
      <4>2. mid = [m_listeners EXCEPT ![old] = Without(@, {w})]
        BY <3>2
      <4>3. old \in Element
        BY <1>1, <3>2
      <4> HIDE DEF old, mid
      <4>4. m_listeners' = [[m_listeners EXCEPT ![old] = Without(@, {w})] EXCEPT ![e] = Append(@, w)]
        BY <1>1, <2>1, <4>1, <4>3
      <4> QED
        BY <4>2, <4>4
    <3> QED
      BY <3>1, <3>2
  <2>4. \/ old = nullptr /\ notifying' = notifying
        \/ old # nullptr /\ notifying' = [i \in DOMAIN notifying |-> LocalsLeft(notifying[i], old, {w})]
    BY <2>0 DEF ResetTo
  <2>5. old # nullptr => old \in Element
    BY <1>1
  <2>6. old = nullptr => mid = m_listeners
    OBVIOUS
  <2> HIDE DEF mid, old
  <2>7. /\ m_listeners'[e] = Append(mid[e], w) /\ \A d \in Element \ {e} : m_listeners'[d] = mid[d]
    BY <2>2, <2>3
  <2>8. /\ Append(mid[e], w) \in Seq(Local) /\ IsInjective(Append(mid[e], w))
        /\ ToSet(Append(mid[e], w)) = ToSet(m_listeners[e]) \cup {w}
    <3>1. ToSet(mid[e]) = ToSet(m_listeners[e]) \ {w}
      BY <2>2
    <3> QED
      BY <1>1, <2>2, <3>1, AppendedProperties
  <2>9. m_listeners' \in [Element -> Seq(Local)] /\ \A d \in Element : IsInjective(m_listeners'[d])
    BY <2>2, <2>3, <2>7, <2>8
  <2>10. ASSUME NEW i \in 1..Len(notifying)
         PROVE  /\ FrameAgrees(notifying'[i], life, mid, g_listeners, event_handlers_, functions, handlers)
                /\ notifying'[i].call = notifying[i].call /\ notifying'[i].element = notifying[i].element
                /\ notifying'[i].in = notifying[i].in
    <3>1. CASE old = nullptr
      BY <1>3, <2>4, <2>6, <3>1
    <3>2. CASE old # nullptr
      <4>1. notifying'[i] = LocalsLeft(notifying[i], old, {w})
        BY <1>3, <2>4, <3>2
      <4>2. /\ old \in Element /\ m_listeners[old] \in Seq(Local) /\ IsInjective(m_listeners[old])
            /\ mid[old] = Without(m_listeners[old], {w}) /\ \A d \in Element \ {old} : mid[d] = m_listeners[d]
        BY <1>1, <2>2, <2>5, <3>2
      <4>3. /\ Knows(notifying[i], m_listeners, g_listeners, event_handlers_, functions, handlers)
            /\ Leaving(notifying[i], life, m_listeners, old, {w})
        BY <1>4
      <4> QED
        BY ONLY <4>1, <4>2, <4>3, LocalsLeftAgrees
    <3> QED
      BY <3>1, <3>2
  <2>11. notifying' \in Seq(Frame) /\ Len(notifying') = Len(notifying)
    <3>1. \A i \in 1..Len(notifying) : notifying'[i] \in Frame
      BY <2>10 DEF FrameAgrees, Knows
    <3>2. notifying' = notifying \/ notifying' = [i \in DOMAIN notifying |-> notifying'[i]]
      BY <2>4
    <3> QED
      BY <1>3, <3>1, <3>2, Mapped
  <2>12. Nested(notifying', life)
    <3>1. \A i \in 1..Len(notifying) : Alike(notifying[i], notifying'[i])
      BY <2>10 DEF Alike
    <3>2. \A i \in 1..Len(notifying) :
            i < Len(notifying) => notifying'[i].in = notifying[i].in /\ notifying'[i].call = notifying[i].call
      BY <2>10
    <3> QED
      BY <1>3, <2>11, <3>1, <3>2, NestedChanged
  <2>13. Stack(notifying', life, m_listeners', g_listeners, event_handlers_, functions, handlers)
    <3>1. life[e] # "deleting"
      BY <2>1
    <3>2. ASSUME NEW i \in 1..Len(notifying)
          PROVE  FrameAgrees(notifying'[i], life, m_listeners', g_listeners, event_handlers_, functions, handlers)
      <4>1. FrameAgrees(notifying'[i], life, mid, g_listeners, event_handlers_, functions, handlers)
        BY <2>10
      <4>2. mid[e] \in Seq(Local) /\ w \in Local
        BY <1>1, <2>2
      <4> QED
        BY ONLY <2>7, <3>1, <4>1, <4>2, e \in Element, LocalAdded
    <3> QED
      BY <2>11, <2>12, <3>2 DEF Stack
  <2>14. ListenersTypeOK'
    <3>1. m_element' \in [Pointer -> Element \cup {nullptr}]
      BY <1>1, <2>1
    <3> QED
      BY <2>1, <2>9, <2>11, <3>1 DEF ListenersIInv, ListenersTypeOK
  <2>15. m_element'[w] = e /\ \A q \in Pointer \ {w} : m_element'[q] = m_element[q]
    BY <1>1, <2>1
  <2>16. PointersListed'
    <3>1. ASSUME NEW p \in Pointer, NEW d \in Element
          PROVE  p \in ToSet(m_listeners'[d]) <=> m_element'[p] = d
      <4>1. p \in ToSet(m_listeners[d]) <=> m_element[p] = d
        BY DEF ListenersIInv, ListsAgree, PointersListed
      <4>2. p \in ToSet(m_listeners'[d]) <=> (p # w /\ p \in ToSet(m_listeners[d])) \/ (p = w /\ d = e)
        BY <2>2, <2>7, <2>8
      <4> QED
        BY <2>15, <4>1, <4>2
    <3> QED
      BY <3>1 DEF PointersListed
  <2>17. NoneLeft'
    <3>1. ASSUME NEW d \in Element, life[d] = "none"
          PROVE  m_listeners'[d] = <<>>
      <4>1. d # e /\ m_listeners[d] = <<>>
        BY <2>1, <3>1 DEF ListenersIInv, ListsAgree, NoneLeft
      <4>2. ToSet(m_listeners[d]) = {}
        BY <4>1 DEF ToSet
      <4>3. ToSet(mid[d]) = {} /\ mid[d] \in Seq(Local)
        BY <2>2, <4>2
      <4> QED
        BY <2>7, <4>1, <4>3, Nobody, FirstProperties
    <3> QED
      BY <2>1, <3>1 DEF ListenersIInv, ListsAgree, NoneLeft
  <2>18. HandlersListed' /\ HandlersOff'
    <3>1. \A h \in Handler : m_element'[h] = m_element[h]
      BY <1>1, <2>15, Nobody
    <3> QED
      BY <2>1, <3>1 DEF ListenersIInv, ListsAgree, HandlersListed, HandlersOff
  <2>19. FramesAgree'
    BY <2>1, <2>13 DEF FramesAgree
  <2> QED
    BY <2>14, <2>16, <2>17, <2>18, <2>19 DEF ListenersIInv, ListsAgree
<1> QED
  BY <1>6, <1>7

(* A function is added after those of its handler, under way or not. *)
LEMMA ListenStep ==
  ASSUME ListenersIInv, NEW h \in Handler, NEW event \in Event, NEW filter, NEW of,
         [event |-> event, filter |-> filter, of |-> of] \in Function, Listen(h, event, filter, of)
  PROVE  ListenersIInv'
<1> DEFINE x == [event |-> event, filter |-> filter, of |-> of]
<1>1. /\ functions' = [functions EXCEPT ![h] = Append(@, x)]
      /\ UNCHANGED <<life, g_listeners, m_listeners, m_element, event_handlers_, handlers, notifying>>
  BY DEF Listen
<1>2. x \in Function
  OBVIOUS
<1> HIDE DEF x
<1>3. /\ functions \in [Handler -> Seq(Function)] /\ event_handlers_ \in [Element -> Seq(Handler)]
  BY DEF ListenersIInv, ListenersTypeOK
<1>4. /\ functions'[h] = Append(functions[h], x) /\ \A k \in Handler \ {h} : functions'[k] = functions[k]
      /\ functions' \in [Handler -> Seq(Function)]
  BY <1>1, <1>2, <1>3
<1>5. \A d \in Element : ToSet(event_handlers_[d]) \subseteq Handler
  BY <1>3, Nobody, FirstProperties
<1>6. Stack(notifying, life, m_listeners, g_listeners, event_handlers_, functions, handlers)
  BY DEF ListenersIInv, FramesAgree
<1>7. \A i \in 1..Len(notifying) :
        FrameAgrees(notifying[i], life, m_listeners, g_listeners, event_handlers_, functions', handlers)
  BY <1>2, <1>3, <1>4, <1>5, <1>6, FunctionAdded DEF Stack
<1>8. Stack(notifying, life, m_listeners, g_listeners, event_handlers_, functions', handlers)
  BY <1>6, <1>7 DEF Stack
<1>9. ListenersTypeOK'
  BY <1>1, <1>4 DEF ListenersIInv, ListenersTypeOK
<1>10. ListsAgree'
  BY <1>1 DEF ListenersIInv, ListsAgree, PointersListed, NoneLeft, HandlersListed, HandlersOff
<1>11. FramesAgree'
  BY <1>1, <1>8 DEF FramesAgree
<1> QED
  BY <1>9, <1>10, <1>11 DEF ListenersIInv

(* A new handler is the last of its scope, as a handler and as a weak pointer to it. *)
LEMMA NewHandlerStep ==
  ASSUME ListenersIInv, NEW h \in Handler, NEW e \in Element, NewHandler(h, e)
  PROVE  ListenersIInv'
<1>1. /\ h \notin handlers /\ life[e] \in {"alive", "dying"}
      /\ handlers' = handlers \cup {h}
      /\ m_element' = [m_element EXCEPT ![h] = e]
      /\ m_listeners' = [m_listeners EXCEPT ![e] = Append(@, h)]
      /\ event_handlers_' = [event_handlers_ EXCEPT ![e] = Append(@, h)]
      /\ functions' = [functions EXCEPT ![h] = <<>>]
      /\ UNCHANGED <<life, g_listeners, notifying>>
  BY DEF NewHandler
<1>2. /\ m_listeners \in [Element -> Seq(Local)] /\ \A d \in Element : IsInjective(m_listeners[d])
      /\ event_handlers_ \in [Element -> Seq(Handler)] /\ \A d \in Element : IsInjective(event_handlers_[d])
      /\ m_element \in [Pointer -> Element \cup {nullptr}] /\ functions \in [Handler -> Seq(Function)]
      /\ handlers \subseteq Handler /\ h \in Local /\ h \in Pointer
  BY Nobody DEF ListenersIInv, ListenersTypeOK
<1>3. /\ m_element[h] = nullptr
      /\ \A d \in Element : h \notin ToSet(m_listeners[d])
      /\ \A d \in Element : h \notin ToSet(event_handlers_[d])
  BY <1>1, <1>2, Nobody DEF ListenersIInv, ListsAgree, HandlersOff, PointersListed, HandlersListed
<1>4. /\ m_listeners'[e] = Append(m_listeners[e], h) /\ \A d \in Element \ {e} : m_listeners'[d] = m_listeners[d]
      /\ event_handlers_'[e] = Append(event_handlers_[e], h)
      /\ \A d \in Element \ {e} : event_handlers_'[d] = event_handlers_[d]
      /\ \A k \in Handler \ {h} : functions'[k] = functions[k]
      /\ m_element'[h] = e /\ \A q \in Pointer \ {h} : m_element'[q] = m_element[q]
  BY <1>1, <1>2
<1>5. /\ Append(m_listeners[e], h) \in Seq(Local) /\ IsInjective(Append(m_listeners[e], h))
      /\ ToSet(Append(m_listeners[e], h)) = ToSet(m_listeners[e]) \cup {h}
  BY <1>2, <1>3, AppendedProperties
<1>6. /\ Append(event_handlers_[e], h) \in Seq(Handler) /\ IsInjective(Append(event_handlers_[e], h))
      /\ ToSet(Append(event_handlers_[e], h)) = ToSet(event_handlers_[e]) \cup {h}
  BY <1>2, <1>3, AppendedProperties
<1>7. /\ m_listeners' \in [Element -> Seq(Local)] /\ \A d \in Element : IsInjective(m_listeners'[d])
  BY <1>1, <1>2, <1>4, <1>5
<1>8. /\ event_handlers_' \in [Element -> Seq(Handler)] /\ \A d \in Element : IsInjective(event_handlers_'[d])
  BY <1>1, <1>2, <1>4, <1>6
<1>9. /\ m_element' \in [Pointer -> Element \cup {nullptr}] /\ functions' \in [Handler -> Seq(Function)]
      /\ handlers' \subseteq Handler
  BY <1>1, <1>2
<1>10. Stack(notifying, life, m_listeners, g_listeners, event_handlers_, functions, handlers)
  BY DEF ListenersIInv, FramesAgree
<1>11. ASSUME NEW i \in 1..Len(notifying)
       PROVE  FrameAgrees(notifying[i], life, m_listeners', g_listeners, event_handlers_', functions', handlers')
  <2>1. FrameAgrees(notifying[i], life, m_listeners, g_listeners, event_handlers_, functions, handlers)
    BY <1>10 DEF Stack
  <2>2. FrameAgrees(notifying[i], life, m_listeners', g_listeners, event_handlers_, functions, handlers)
    <3>1. life[e] # "deleting" /\ m_listeners[e] \in Seq(Local) /\ h \in Local
      BY <1>1, <1>2
    <3>2. m_listeners'[e] = Append(m_listeners[e], h) /\ \A d \in Element \ {e} : m_listeners'[d] = m_listeners[d]
      BY <1>4
    <3> QED
      BY ONLY <2>1, <3>1, <3>2, e \in Element, LocalAdded
  <2>3. Joins(event_handlers_', event_handlers_, functions', functions, handlers, e, h)
    BY <1>1, <1>2, <1>3, <1>4 DEF Joins
  <2>4. FrameAgrees(notifying[i], life, m_listeners', g_listeners, event_handlers_', functions', handlers \cup {h})
    BY ONLY <2>2, <2>3, e \in Element, h \in Handler, HandlerAdded
  <2> QED
    BY <1>1, <2>4
<1>12. FramesAgree'
  BY <1>1, <1>10, <1>11 DEF FramesAgree, Stack
<1>13. ListenersTypeOK'
  BY <1>1, <1>7, <1>8, <1>9 DEF ListenersIInv, ListenersTypeOK
<1>14. PointersListed'
  <2>1. ASSUME NEW p \in Pointer, NEW d \in Element
        PROVE  p \in ToSet(m_listeners'[d]) <=> m_element'[p] = d
    <3>1. p \in ToSet(m_listeners[d]) <=> m_element[p] = d
      BY DEF ListenersIInv, ListsAgree, PointersListed
    <3>2. p \in ToSet(m_listeners'[d]) <=> p \in ToSet(m_listeners[d]) \/ (p = h /\ d = e)
      <4>1. CASE d = e
        BY <1>4, <1>5, <4>1
      <4>2. CASE d # e
        BY <1>4, <4>2
      <4> QED
        BY <4>1, <4>2
    <3>3. nullptr # d
      BY Nobody
    <3> QED
      BY <1>3, <1>4, <3>1, <3>2, <3>3
  <2> QED
    BY <2>1 DEF PointersListed
<1>15. NoneLeft'
  BY <1>1, <1>4 DEF ListenersIInv, ListsAgree, NoneLeft
<1>16. HandlersListed'
  <2>1. ASSUME NEW k \in Handler, NEW d \in Element
        PROVE  /\ m_element'[k] = d => k \in ToSet(event_handlers_'[d])
               /\ k \in ToSet(event_handlers_'[d]) => k \in handlers' /\ (m_element'[k] = d \/ life[d] = "deleting")
    <3>1. /\ m_element[k] = d => k \in ToSet(event_handlers_[d])
          /\ k \in ToSet(event_handlers_[d]) => k \in handlers /\ (m_element[k] = d \/ life[d] = "deleting")
      BY DEF ListenersIInv, ListsAgree, HandlersListed
    <3>2. k \in ToSet(event_handlers_'[d]) <=> k \in ToSet(event_handlers_[d]) \/ (k = h /\ d = e)
      <4>1. CASE d = e
        BY <1>4, <1>6, <4>1
      <4>2. CASE d # e
        BY <1>4, <4>2
      <4> QED
        BY <4>1, <4>2
    <3>3. CASE k = h
      BY <1>1, <1>3, <1>4, <3>2, <3>3
    <3>4. CASE k # h
      <4>1. m_element'[k] = m_element[k]
        BY <1>4, <3>4, Nobody
      <4> QED
        BY <1>1, <3>1, <3>2, <3>4, <4>1
    <3> QED
      BY <3>3, <3>4
  <2> QED
    BY <1>1, <2>1 DEF HandlersListed
<1>17. HandlersOff'
  <2>1. ASSUME NEW k \in Handler, k \notin handlers'
        PROVE  m_element'[k] = nullptr
    <3>1. k # h /\ k \notin handlers /\ m_element'[k] = m_element[k]
      BY <1>1, <1>4, <2>1, Nobody
    <3> QED
      BY <3>1 DEF ListenersIInv, ListsAgree, HandlersOff
  <2> QED
    BY <2>1 DEF HandlersOff
<1> QED
  BY <1>12, <1>13, <1>14, <1>15, <1>16, <1>17 DEF ListenersIInv, ListsAgree

(* A handler leaves both lists of its scope, and what is owed of it is owed no more. *)
LEMMA DeleteHandlerStep ==
  ASSUME ListenersIInv, NEW h \in Handler, DeleteHandler(h)
  PROVE  ListenersIInv'
<1> DEFINE e == m_element[h]
           frames == [i \in DOMAIN notifying |-> HandlersLeft(notifying[i], e, {h})]
<1>1. /\ h \in handlers /\ \A i \in DOMAIN notifying : notifying[i].in # h
      /\ \A d \in Element : h \in ToSet(event_handlers_[d]) => e = d
      /\ handlers' = handlers \ {h} /\ UNCHANGED <<life, g_listeners, functions>>
      /\ \/ e = nullptr /\ UNCHANGED <<event_handlers_, m_element, m_listeners, notifying>>
         \/ /\ e # nullptr
            /\ event_handlers_' = [event_handlers_ EXCEPT ![e] = Without(@, {h})]
            /\ Release(h, frames)
  BY DEF DeleteHandler
<1>2. /\ event_handlers_ \in [Element -> Seq(Handler)] /\ \A d \in Element : IsInjective(event_handlers_[d])
      /\ m_element \in [Pointer -> Element \cup {nullptr}] /\ handlers \subseteq Handler
      /\ h \in Pointer /\ e \in Element \cup {nullptr}
  BY Nobody DEF ListenersIInv, ListenersTypeOK
<1>3. Stack(notifying, life, m_listeners, g_listeners, event_handlers_, functions, handlers)
  BY DEF ListenersIInv, FramesAgree
<1>4. /\ notifying \in Seq(Frame) /\ Nested(notifying, life) /\ DOMAIN notifying = 1..Len(notifying)
      /\ \A i \in 1..Len(notifying) :
           FrameAgrees(notifying[i], life, m_listeners, g_listeners, event_handlers_, functions, handlers)
  BY <1>3 DEF Stack
<1>5. \A i \in 1..Len(notifying) : notifying[i].in # h
  BY <1>1, <1>4
<1>6. ListenersTypeOK /\ PointersListed /\ HandlersListed /\ HandlersOff /\ NoneLeft
  BY DEF ListenersIInv, ListsAgree
<1>7. CASE e = nullptr /\ UNCHANGED <<event_handlers_, m_element, m_listeners, notifying>>
  <2>1. \A i \in 1..Len(notifying) :
          FrameAgrees(notifying[i], life, m_listeners, g_listeners, event_handlers_, functions, handlers \ {h})
    BY <1>4, <1>5 DEF FrameAgrees, Knows, Asks
  <2>2. FramesAgree'
    BY <1>1, <1>4, <1>7, <2>1 DEF FramesAgree, Stack
  <2>3. ListenersTypeOK' /\ PointersListed' /\ NoneLeft'
    BY <1>1, <1>6, <1>7 DEF ListenersTypeOK, PointersListed, NoneLeft
  <2>4. HandlersOff'
    BY <1>1, <1>6, <1>7 DEF HandlersOff
  <2>5. \A d \in Element : h \notin ToSet(event_handlers_[d])
    BY <1>1, <1>7, Nobody
  <2>6. HandlersListed'
    BY <1>1, <1>6, <1>7, <2>5 DEF HandlersListed
  <2> QED
    BY <2>2, <2>3, <2>4, <2>6 DEF ListenersIInv, ListsAgree
<1>8. CASE /\ e # nullptr
           /\ event_handlers_' = [event_handlers_ EXCEPT ![e] = Without(@, {h})]
           /\ Release(h, frames)
  <2>1. e \in Element /\ Release(h, frames)
    BY <1>2, <1>8
  <2> HIDE DEF e
  <2>2. /\ event_handlers_'[e] = Without(event_handlers_[e], {h})
        /\ \A d \in Element \ {e} : event_handlers_'[d] = event_handlers_[d]
    BY <1>2, <1>8, <2>1
  <2>3. /\ Without(event_handlers_[e], {h}) \in Seq(Handler) /\ IsInjective(Without(event_handlers_[e], {h}))
        /\ ToSet(Without(event_handlers_[e], {h})) = ToSet(event_handlers_[e]) \ {h}
    BY <1>2, <2>1, WithoutProperties
  <2>4. /\ event_handlers_' \in [Element -> Seq(Handler)] /\ \A d \in Element : IsInjective(event_handlers_'[d])
    BY <1>2, <1>8, <2>1, <2>2, <2>3
  <2>5. \A k \in Handler, d \in Element :
          k \in ToSet(event_handlers_'[d]) <=> k \in ToSet(event_handlers_[d]) /\ k # h
    <3>1. ASSUME NEW k \in Handler, NEW d \in Element
          PROVE  k \in ToSet(event_handlers_'[d]) <=> k \in ToSet(event_handlers_[d]) /\ k # h
      <4>1. CASE d = e
        BY <2>2, <2>3, <4>1
      <4>2. CASE d # e
        BY <1>1, <2>2, <4>2
      <4> QED
        BY <4>1, <4>2
    <3> QED
      BY <3>1
  <2>6. frames = [i \in DOMAIN notifying |-> frames[i]]
        /\ \A i \in 1..Len(notifying) : frames[i] = HandlersLeft(notifying[i], e, {h})
    BY <1>4
  <2> HIDE DEF frames
  <2>7. ASSUME NEW i \in 1..Len(notifying)
        PROVE  /\ FrameAgrees(frames[i], life, m_listeners, g_listeners, event_handlers_', functions, handlers \ {h})
               /\ frames[i].call = notifying[i].call /\ frames[i].element = notifying[i].element
               /\ frames[i].in = notifying[i].in
    <3>1. /\ FrameAgrees(notifying[i], life, m_listeners, g_listeners, event_handlers_, functions, handlers)
          /\ notifying[i].in # h
      BY <1>4, <1>5
    <3>2. e \in Element /\ Quits(event_handlers_', e, h)
      BY <1>2, <2>1, <2>2 DEF Quits
    <3>3. frames[i] = HandlersLeft(notifying[i], e, {h})
      BY <2>6
    <3> DEFINE left == HandlersLeft(notifying[i], e, {h})
    <3>4. /\ FrameAgrees(left, life, m_listeners, g_listeners, event_handlers_', functions, handlers \ {h})
          /\ left.call = notifying[i].call /\ left.element = notifying[i].element /\ left.in = notifying[i].in
      BY ONLY <3>1, <3>2, HandlersLeftAgrees, Zenon
    <3> QED
      BY <3>3, <3>4
  <2>8. frames \in Seq(Frame) /\ Len(frames) = Len(notifying)
    <3>1. \A i \in 1..Len(notifying) : frames[i] \in Frame
      BY <2>7 DEF FrameAgrees, Knows
    <3> QED
      BY <1>4, <2>6, <3>1, Mapped
  <2>9. Nested(frames, life)
    <3>1. \A i \in 1..Len(notifying) : Alike(notifying[i], frames[i])
      BY <2>7 DEF Alike
    <3>2. \A i \in 1..Len(notifying) :
            i < Len(notifying) => frames[i].in = notifying[i].in /\ frames[i].call = notifying[i].call
      BY <2>7
    <3> QED
      BY <1>4, <2>8, <3>1, <3>2, NestedChanged
  <2>10. \A i \in 1..Len(frames) :
           /\ Knows(frames[i], m_listeners, g_listeners, event_handlers_', functions, handlers \ {h})
           /\ Leaving(frames[i], life, m_listeners, m_element[h], {h})
    BY <2>7, <2>8, DeletesLeaving DEF FrameAgrees
  <2>11. /\ Stack(notifying', life, m_listeners', g_listeners, event_handlers_', functions, handlers \ {h})
         /\ m_listeners' \in [Element -> Seq(Local)] /\ \A d \in Element : IsInjective(m_listeners'[d])
         /\ m_element' \in [Pointer -> Element \cup {nullptr}] /\ m_element'[h] = nullptr
         /\ \A q \in Pointer : q # h => m_element'[q] = m_element[q]
         /\ PointersListed'
         /\ \A d \in Element : m_listeners[d] = <<>> => m_listeners'[d] = <<>>
    BY <1>2, <1>6, <2>1, <2>8, <2>9, <2>10, ReleaseAgrees
  <2>12. ListenersTypeOK'
    BY <1>1, <1>6, <2>4, <2>11 DEF ListenersTypeOK, Stack
  <2>13. FramesAgree'
    BY <1>1, <2>11 DEF FramesAgree
  <2>14. NoneLeft'
    <3>1. ASSUME NEW d \in Element, event_handlers_[d] = <<>>
          PROVE  event_handlers_'[d] = <<>>
      <4>1. ToSet(event_handlers_[d]) = {} /\ event_handlers_'[d] \in Seq(Handler)
        BY <2>4, <3>1 DEF ToSet
      <4>2. ToSet(event_handlers_'[d]) \subseteq Handler
        BY <4>1, Nobody, FirstProperties
      <4>3. ToSet(event_handlers_'[d]) = {}
        BY <2>5, <4>1, <4>2
      <4> QED
        BY <4>1, <4>3, Nobody, FirstProperties
    <3> QED
      BY <1>1, <1>6, <2>11, <3>1 DEF NoneLeft
  <2>15. HandlersOff'
    <3>1. ASSUME NEW k \in Handler, k \notin handlers'
          PROVE  m_element'[k] = nullptr
      <4>1. CASE k = h
        BY <2>11, <4>1
      <4>2. CASE k # h
        BY <1>1, <1>6, <2>11, <3>1, <4>2, Nobody DEF HandlersOff
      <4> QED
        BY <4>1, <4>2
    <3> QED
      BY <3>1 DEF HandlersOff
  <2>16. HandlersListed'
    <3>1. ASSUME NEW k \in Handler, NEW d \in Element
          PROVE  /\ m_element'[k] = d => k \in ToSet(event_handlers_'[d])
                 /\ k \in ToSet(event_handlers_'[d]) => k \in handlers' /\ (m_element'[k] = d \/ life[d] = "deleting")
      <4>1. /\ m_element[k] = d => k \in ToSet(event_handlers_[d])
            /\ k \in ToSet(event_handlers_[d]) => k \in handlers /\ (m_element[k] = d \/ life[d] = "deleting")
            /\ d # nullptr /\ k \in Pointer
        BY <1>6, Nobody DEF HandlersListed
      <4>2. CASE k = h
        BY <2>5, <2>11, <4>1, <4>2
      <4>3. CASE k # h
        BY <1>1, <2>5, <2>11, <4>1, <4>3
      <4> QED
        BY <4>2, <4>3
    <3> QED
      BY <1>1, <3>1 DEF HandlersListed
  <2> QED
    BY <2>11, <2>12, <2>13, <2>14, <2>15, <2>16 DEF ListenersIInv, ListsAgree
<1> QED
  BY <1>1, <1>7, <1>8
-----------------------------------------------------------------------------

(* No list holds anything, and no call is under way. *)
LEMMA Initial ==
  ASSUME InitListeners
  PROVE  ListenersIInv
<1>1. IsInjective(<<>>) /\ ToSet(<<>>) = {}
  BY DEF IsInjective, ToSet
<1>2. ListenersTypeOK
  BY <1>1 DEF InitListeners, ListenersTypeOK
<1>3. ListsAgree
  BY <1>1, Nobody DEF InitListeners, ListsAgree, PointersListed, NoneLeft, HandlersListed, HandlersOff
<1>4. FramesAgree
  BY DEF InitListeners, FramesAgree, Stack, Nested
<1> QED
  BY <1>2, <1>3, <1>4 DEF ListenersIInv

(* Every step keeps the invariant. *)
LEMMA Preserved ==
  ASSUME ListenersIInv, [ListenersNext]_listenersVars
  PROVE  ListenersIInv'
<1>1. CASE UNCHANGED listenersVars
  BY <1>1 DEF listenersVars, linked, ListenersIInv, ListenersTypeOK, ListsAgree, PointersListed, NoneLeft,
              HandlersListed, HandlersOff, FramesAgree
<1>2. ASSUME NEW l \in Listener, AddGlobalListener(l) \/ RemoveGlobalListener(l)
      PROVE  ListenersIInv'
  BY <1>2, GlobalListenerSteps
<1>3. ASSUME NEW e \in Element, NEW l \in Listener, AddListener(e, l) \/ RemoveListener(e, l)
      PROVE  ListenersIInv'
  BY <1>3, AddListenerStep, RemoveListenerStep
<1>4. ASSUME NEW e \in Element, NEW w \in Weak, ResetTo(w, e)
      PROVE  ListenersIInv'
  BY <1>4, ResetSteps
<1>5. ASSUME NEW e \in Element, NEW h \in Handler, NewHandler(h, e)
      PROVE  ListenersIInv'
  BY <1>5, NewHandlerStep
<1>6. ASSUME NEW e \in Element, Notify(e) \/ Die(e) \/ Delete(e) \/ \E event \in Event : InvokeEvent(e, event)
      PROVE  ListenersIInv'
  BY <1>6, BeginSteps
<1>7. ASSUME NEW e \in Element, Create(e)
      PROVE  ListenersIInv'
  BY <1>7, CreateStep
<1>8. ASSUME NEW w \in Weak, ResetToNull(w)
      PROVE  ListenersIInv'
  BY <1>8, ResetSteps
<1>9. ASSUME NEW h \in Handler, DeleteHandler(h)
       PROVE  ListenersIInv'
  BY <1>9, DeleteHandlerStep
<1>10. ASSUME NEW h \in Handler, NEW event \in Event, NEW e \in Element,
              Listen(h, event, "kTargetElement", e) \/ Listen(h, event, "kTargetElementId", Id[e])
       PROVE  ListenersIInv'
  <2>1. /\ [event |-> event, filter |-> "kTargetElement", of |-> e] \in Function
        /\ [event |-> event, filter |-> "kTargetElementId", of |-> Id[e]] \in Function
    BY DEF Function
  <2> QED
    BY <1>10, <2>1, ListenStep
<1>11. ASSUME NEW h \in Handler, NEW event \in Event, Listen(h, event, "kAll", nullptr)
       PROVE  ListenersIInv'
  <2>1. [event |-> event, filter |-> "kAll", of |-> nullptr] \in Function
    BY DEF Function
  <2> QED
    BY <1>11, <2>1, ListenStep
<1>12. CASE Calls
  BY <1>2, <1>3, <1>4, <1>5, <1>6, <1>7, <1>8, <1>9, <1>10, <1>11, <1>12 DEF Calls
<1>13. CASE ListenersGoOn
  <2>1. CASE TellLocal
    BY <2>1, TellLocalStep
  <2>2. CASE TellGlobal
    BY <2>2, TellGlobalStep
  <2>3. CASE Return(TRUE) \/ Return(FALSE)
    BY <2>3, ReturnStep
  <2>4. CASE Notified \/ Died \/ Invoked \/ Handled
    BY <2>4, EndSteps
  <2>5. CASE Deleted
    BY <2>5, DeletedStep
  <2>6. CASE AskHandler \/ Unhandled \/ Propagate
    BY <2>6, AskSteps
  <2> QED
    BY <1>13, <2>1, <2>2, <2>3, <2>4, <2>5, <2>6 DEF ListenersGoOn
<1> QED
  BY <1>1, <1>12, <1>13 DEF ListenersNext

(* A call has reached everyone ahead of its iterators when it has none left. *)
LEMMA TheyAreTold ==
  ASSUME ListenersIInv
  PROVE  AllTold
<1>1. \A list : Rest(list, nullptr, nullptr) = {}
  BY DEF Rest
<1>2. ASSUME Told
      PROVE  Top.locals = {} /\ Top.globals = {}
  <2>1. /\ FrameAgrees(Top, life, m_listeners, g_listeners, event_handlers_, functions, handlers)
        /\ Top.call # "OnEvent" /\ Top.local = nullptr /\ Top.global = nullptr
    BY <1>2, TopAgrees DEF Told, Telling
  <2> QED
    BY <1>1, <2>1 DEF FrameAgrees, Knows, TellsLocals, TellsGlobals
<1>3. ASSUME Asked
      PROVE  Top.owed = {}
  <2> DEFINE list == event_handlers_[Top.element]
  <2>1. /\ Asks(Top, event_handlers_, functions, handlers) /\ Top \in Frame
        /\ Top.call = "OnEvent" /\ Top.in = nullptr /\ Top.handler = nullptr
    BY <1>3, TopAgrees DEF Asked, Asking, FrameAgrees, Knows
  <2>2. Top.element # nullptr
    BY <2>1 DEF Asks
  <2>3. Top.element \in Element
    BY <2>1, <2>2, FrameKinds
  <2>4. list \in Seq(Handler)
    BY <2>3 DEF ListenersIInv, ListenersTypeOK
  <2>5. nullptr \notin ToSet(list)
    BY <2>4, Nobody, FirstProperties
  <2>6. \A o \in Top.owed : o[1] \in ToSet(list) /\ o[1] = nullptr
    BY <1>1, <2>1, <2>2 DEF Asks
  <2> QED
    BY <2>5, <2>6
<1> QED
  BY <1>2, <1>3 DEF AllTold

(* The calls under way know of the lists they walk what they must, and an
   element in its destructor has told those still in its list, whatever the
   callbacks do: the inductive invariant. *)
THEOREM ListenersInvariance == ListenersSpec => []ListenersIInv
<1>1. InitListeners => ListenersIInv
  BY Initial
<1>2. ListenersIInv /\ [ListenersNext]_listenersVars => ListenersIInv'
  BY Preserved
<1> QED
  BY <1>1, <1>2, PTL DEF ListenersSpec

(* No weak pointer outlives its element, an element is gone only once nobody
   listens to it (the assertion at element.cc 97), the handlers of an element
   exist, and a notification or event reaches everyone who was there when it
   began and has not left. *)
THEOREM ListenersSafe == ListenersSpec => []ListenersAgree
<1>1. ListenersIInv => ListenersAgree
  BY TheyAreTold DEF ListenersIInv, ListsAgree, ListenersAgree
<1> QED
  BY <1>1, ListenersInvariance, PTL

-----------------------------------------------------------------------------
(* FocusTraversal *)

(* What is above an element, that one among it *)
Anc(e) == AncestorsOf(e, parent)

(* A tree that has been built *)
Grown == FocusAssumption /\ parent \in [Node -> Node \cup {no_element}] /\ Tree(parent)

(* The last element inside the root of the walk, and how far an element e of
   r .. last is from o, forwards or backwards *)
LastInside == Max(Inside(root))
Away(e, o, r, last, fwd) ==
  LET size == last - r + 1
  IN  IF fwd THEN IF e >= o THEN e - o ELSE e - o + size ELSE IF e <= o THEN o - e ELSE o - e + size
Steps(e) == Away(e, origin, root, LastInside, forward)

(* MoveFocus has asked those it has passed, and all of them refused. *)
Moving ==
  /\ root \in Node /\ origin \in Inside(root) \ {root} /\ current \in Inside(root)
  /\ forward => current # root
  /\ tried = {e \in Inside(root) : 0 < Steps(e) /\ Steps(e) <= Steps(current) /\ (forward => e # root)}
  /\ tried \cap accepts = {}

(* So has set_focus_recursive. *)
Searching ==
  /\ root \in Node /\ origin = no_element /\ current \in (Inside(root) \ {root}) \cup {no_element}
  /\ tried = {e \in Inside(root) : root < e /\ (current # no_element => e < current)}
  /\ tried \cap accepts = {}

(* Nothing has been asked: there is a focus, in a form. *)
Waiting ==
  /\ root = no_element /\ origin = no_element /\ current = no_element /\ tried = {}
  /\ focused_element \in Node \ (forms \cup {Root})

(* The inductive invariant *)
WalkIInv ==
  /\ parent \in [Node -> Node \cup {no_element}]
  /\ WalkTypeOK /\ TriesAllInside /\ NearestAccepts
  /\ pc = "idle" => Waiting
  /\ pc = "move" => Moving
  /\ pc = "search" => Searching

(* f has what is above each of the first n elements, that one among them. *)
Climbs(f, up, n) ==
  f = [a \in 1..n |-> {a} \cup (IF up[a] = no_element THEN {} ELSE f[up[a]])]

(* There is such a function, as parents come first. *)
LEMMA ClimbsExists ==
  ASSUME Grown
  PROVE  \E f : Climbs(f, parent, N)
<1> DEFINE S == {k \in Nat : k <= N => \E f : Climbs(f, parent, k)}
<1>1. N \in Nat /\ N >= 1 /\ no_element \notin 0..N /\ Node = 1..N
  BY DEF Grown, FocusAssumption, Node
<1>2. parent[1] = no_element /\ \A e \in 2..N : parent[e] \in 1..(e - 1) /\ parent[e] # no_element
  BY <1>1 DEF Grown, Tree, Root
<1>3. 0 \in S
  <2>1. Climbs([a \in 1..0 |-> {a}], parent, 0)
    BY DEF Climbs
  <2> QED
    BY <2>1, ZenonT(20)
<1>4. ASSUME NEW k \in Nat, k \in S
      PROVE  k + 1 \in S
  <2> SUFFICES ASSUME k + 1 <= N
               PROVE  \E f : Climbs(f, parent, k + 1)
    OBVIOUS
  <2>1. PICK f : Climbs(f, parent, k)
    BY <1>1, <1>4
  <2> DEFINE own(a) == {a} \cup (IF parent[a] = no_element THEN {} ELSE f[parent[a]])
             g == [a \in 1..k + 1 |-> own(a)]
  <2>2. \A a \in 1..k : f[a] = own(a)
    BY <2>1 DEF Climbs
  <2>3. \A a \in 1..k : g[a] = f[a]
    <3>1. \A a \in 1..k + 1 : g[a] = own(a)
      <4> HIDE DEF own
      <4> QED
        OBVIOUS
    <3>2. 1..k \subseteq 1..k + 1
      OBVIOUS
    <3> HIDE DEF own, g
    <3> QED
      BY <2>2, <3>1, <3>2
  <2>4. \A a \in 1..k + 1 : parent[a] # no_element => parent[a] \in 1..k
    BY <1>1, <1>2
  <2>5. \A a \in 1..k + 1 : own(a) = {a} \cup (IF parent[a] = no_element THEN {} ELSE g[parent[a]])
    <3> HIDE DEF g
    <3> QED
      BY <2>3, <2>4
  <2>6. g = [a \in 1..k + 1 |-> {a} \cup (IF parent[a] = no_element THEN {} ELSE g[parent[a]])]
    <3>1. g = [a \in 1..k + 1 |-> own(a)]
      OBVIOUS
    <3> HIDE DEF g, own
    <3> QED
      BY <2>5, <3>1
  <2>7. Climbs(g, parent, k + 1)
    <3> HIDE DEF g
    <3> QED
      BY <2>6 DEF Climbs
  <2> QED
    BY <2>7, ZenonT(20)
<1>5. Nat \subseteq S
  <2> HIDE DEF S
  <2> QED
    BY <1>3, <1>4, Induction
<1> QED
  BY <1>1, <1>5

(* What is above an element is itself and what is above its parent. *)
LEMMA AncestorsClimb ==
  ASSUME Grown
  PROVE  \A e \in Node : Anc(e) = {e} \cup (IF parent[e] = no_element THEN {} ELSE Anc(parent[e]))
<1> DEFINE F == CHOOSE f : Climbs(f, parent, N)
<1>1. Climbs(F, parent, N)
  BY ClimbsExists
<1>2. \A e : Anc(e) = F[e]
  BY DEF Anc, AncestorsOf, Climbs, Node
<1> HIDE DEF F
<1>3. \A e \in 1..N : F[e] = {e} \cup (IF parent[e] = no_element THEN {} ELSE F[parent[e]])
  BY <1>1 DEF Climbs
<1> QED
  BY <1>2, <1>3 DEF Node

(* A set of elements that has each one whose parent it has has all of them. *)
LEMMA TreeInduction ==
  ASSUME FocusAssumption, NEW S, \A e \in Node : (\A d \in 1..(e - 1) : d \in S) => e \in S
  PROVE  Node \subseteq S
<1> DEFINE T == Node \ S
<1>1. Node \subseteq Nat /\ \A e \in Node : 1..(e - 1) \subseteq Node
  BY DEF Node, FocusAssumption
<1>2. ASSUME T # {}
      PROVE  FALSE
  <2>1. PICK m \in T : \A k \in T : m <= k
    BY <1>1, <1>2, LeastNatural
  <2>2. \A d \in 1..(m - 1) : d \in S
    BY <1>1, <2>1
  <2> QED
    BY <2>1, <2>2
<1> QED
  BY <1>2

(* Parents come before their children, and what is above a parent is above its
   child. *)
LEMMA ParentFacts ==
  ASSUME Grown
  PROVE  /\ N \in Nat /\ N >= 1 /\ no_element \notin 0..N /\ Node = 1..N /\ Root = 1
         /\ parent[1] = no_element /\ Anc(1) = {1}
         /\ \A e \in 2..N : /\ parent[e] \in 1..(e - 1) /\ parent[e] # no_element
                             /\ Anc(e) = {e} \cup Anc(parent[e]) /\ parent[e] \in Anc(e - 1)
<1>1. N \in Nat /\ N >= 1 /\ no_element \notin 0..N /\ Node = 1..N /\ Root = 1
  BY DEF Grown, FocusAssumption, Node, Root
<1>2. parent[1] = no_element /\ \A e \in 2..N : parent[e] \in 1..(e - 1) /\ parent[e] \in Anc(e - 1)
  BY <1>1 DEF Grown, Tree, Root, Anc
<1>3. \A e \in 2..N : parent[e] # no_element
  BY <1>1, <1>2
<1>4. 1 \in Node /\ 2..N \subseteq Node
  BY <1>1
<1>5. Anc(1) = {1} /\ \A e \in 2..N : Anc(e) = {e} \cup Anc(parent[e])
  BY <1>2, <1>3, <1>4, AncestorsClimb
<1> QED
  BY <1>1, <1>2, <1>3, <1>5

(* An element is above itself, and below the root element; nothing that comes
   later is above it. *)
LEMMA AncestorsRange ==
  ASSUME Grown
  PROVE  \A e \in 1..N : e \in Anc(e) /\ 1 \in Anc(e) /\ Anc(e) \subseteq 1..e
<1> DEFINE S == {e \in 1..N : e \in Anc(e) /\ 1 \in Anc(e) /\ Anc(e) \subseteq 1..e}
<1>1. ASSUME NEW e \in 1..N, \A d \in 1..(e - 1) : d \in S
      PROVE  e \in S
  <2>1. CASE e = 1
    BY <2>1, ParentFacts
  <2>2. CASE e # 1
    <3>1. e \in 2..N
      BY <2>2, ParentFacts
    <3>2. parent[e] \in 1..(e - 1) /\ Anc(e) = {e} \cup Anc(parent[e])
      BY <3>1, ParentFacts
    <3>3. 1 \in Anc(parent[e]) /\ Anc(parent[e]) \subseteq 1..parent[e]
      BY <1>1, <3>2
    <3>4. 1..parent[e] \subseteq 1..e
      BY <3>1, <3>2
    <3> QED
      BY <3>1, <3>2, <3>3, <3>4
  <2> QED
    BY <2>1, <2>2
<1> HIDE DEF S
<1>2. 1..N \subseteq S
  BY <1>1, ParentFacts, TreeInduction DEF Grown
<1> QED
  BY <1>2 DEF S

(* What is above what is above an element is above it. *)
LEMMA AncestorsTransitive ==
  ASSUME Grown
  PROVE  \A c \in 1..N : \A b \in Anc(c) : Anc(b) \subseteq Anc(c)
<1> DEFINE S == {c \in 1..N : \A b \in Anc(c) : Anc(b) \subseteq Anc(c)}
<1>1. ASSUME NEW e \in 1..N, \A d \in 1..(e - 1) : d \in S
      PROVE  e \in S
  <2>1. CASE e = 1
    BY <2>1, ParentFacts
  <2>2. CASE e # 1
    <3>1. e \in 2..N
      BY <2>2, ParentFacts
    <3>2. parent[e] \in S /\ Anc(e) = {e} \cup Anc(parent[e])
      BY <1>1, <3>1, ParentFacts
    <3> QED
      BY <3>2
  <2> QED
    BY <2>1, <2>2
<1> HIDE DEF S
<1>2. 1..N \subseteq S
  BY <1>1, ParentFacts, TreeInduction DEF Grown
<1> QED
  BY <1>2 DEF S

(* Of two elements above a third the earlier is above the later; and what is
   above an element is above all between them. *)
LEMMA AncestorsBetween ==
  ASSUME Grown
  PROVE  /\ \A c \in 1..N : \A a, b \in Anc(c) : a <= b => a \in Anc(b)
         /\ \A c, b \in 1..N : \A a \in Anc(c) : a <= b /\ b <= c => a \in Anc(b)
<1>0. \A e \in 1..N : Anc(e) \subseteq 1..e /\ e \in Anc(e)
  BY AncestorsRange
<1>1. \A c \in 1..N : \A a, b \in Anc(c) : a <= b => a \in Anc(b)
  <2> DEFINE S == {c \in 1..N : \A a, b \in Anc(c) : a <= b => a \in Anc(b)}
  <2>1. ASSUME NEW e \in 1..N, \A d \in 1..(e - 1) : d \in S
        PROVE  e \in S
    <3> SUFFICES ASSUME NEW a \in Anc(e), NEW b \in Anc(e), a <= b
                 PROVE  a \in Anc(b)
      OBVIOUS
    <3>1. CASE b = e
      BY <3>1
    <3>2. CASE b # e
      <4>1. b \in 1..e /\ a \in 1..e
        BY <1>0
      <4>2. e \in 2..N /\ a # e
        BY <3>2, <4>1
      <4>3. parent[e] \in S /\ a \in Anc(parent[e]) /\ b \in Anc(parent[e])
        BY <2>1, <3>2, <4>2, ParentFacts
      <4> QED
        BY <4>3
    <3> QED
      BY <3>1, <3>2
  <2> HIDE DEF S
  <2>2. 1..N \subseteq S
    BY <2>1, ParentFacts, TreeInduction DEF Grown
  <2> QED
    BY <2>2 DEF S
<1>2. \A c, b \in 1..N : \A a \in Anc(c) : a <= b /\ b <= c => a \in Anc(b)
  <2> DEFINE S == {c \in 1..N : \A b \in 1..N : \A a \in Anc(c) : a <= b /\ b <= c => a \in Anc(b)}
  <2>1. ASSUME NEW e \in 1..N, \A d \in 1..(e - 1) : d \in S
        PROVE  e \in S
    <3> SUFFICES ASSUME NEW b \in 1..N, NEW a \in Anc(e), a <= b, b <= e
                 PROVE  a \in Anc(b)
      OBVIOUS
    <3>1. CASE b = e
      BY <3>1
    <3>2. CASE b # e
      <4>1. a \in 1..e
        BY <1>0
      <4>2. e \in 2..N /\ a # e /\ e - 1 \in 1..N /\ e - 1 \in 1..(e - 1) /\ b <= e - 1
        BY <3>2, <4>1, ParentFacts
      <4>3. a \in Anc(parent[e]) /\ parent[e] \in Anc(e - 1)
        BY <4>2, ParentFacts
      <4>4. a \in Anc(e - 1)
        BY <4>2, <4>3, AncestorsTransitive
      <4>5. e - 1 \in S
        BY <2>1, <4>2
      <4> QED
        BY <4>2, <4>4, <4>5
    <3> QED
      BY <3>1, <3>2
  <2> HIDE DEF S
  <2>2. 1..N \subseteq S
    BY <2>1, ParentFacts, TreeInduction DEF Grown
  <2> QED
    BY <2>2 DEF S
<1> QED
  BY <1>1, <1>2

(* Below an element that is above another there is a child of it that is so
   too, or the other is it. *)
LEMMA PathDown ==
  ASSUME Grown
  PROVE  \A e \in 1..N : \A a \in Anc(e) : a # e => \E c \in Anc(e) : c \in 2..N /\ parent[c] = a
<1> DEFINE S == {e \in 1..N : \A a \in Anc(e) : a # e => \E c \in Anc(e) : c \in 2..N /\ parent[c] = a}
<1>1. ASSUME NEW e \in 1..N, \A d \in 1..(e - 1) : d \in S
      PROVE  e \in S
  <2> SUFFICES ASSUME NEW a \in Anc(e), a # e
               PROVE  \E c \in Anc(e) : c \in 2..N /\ parent[c] = a
    OBVIOUS
  <2>1. a \in 1..e /\ e \in Anc(e)
    BY AncestorsRange
  <2>2. e \in 2..N
    BY <2>1
  <2>3. parent[e] \in S /\ Anc(e) = {e} \cup Anc(parent[e])
    BY <1>1, <2>2, ParentFacts
  <2>4. CASE a = parent[e]
    BY <2>1, <2>2, <2>4
  <2>5. CASE a # parent[e]
    BY <2>3, <2>5
  <2> QED
    BY <2>4, <2>5
<1> HIDE DEF S
<1>2. 1..N \subseteq S
  BY <1>1, ParentFacts, TreeInduction DEF Grown
<1> QED
  BY <1>2 DEF S

-----------------------------------------------------------------------------
(* Siblings *)

(* Max is the greatest. *)
LEMMA MaxIsGreatest ==
  ASSUME NEW n \in Nat, NEW T \in SUBSET (1..n), T # {}
  PROVE  Max(T) \in T /\ \A k \in T : k <= Max(T)
<1> DEFINE U == {n - k : k \in T}
<1>1. U \in SUBSET Nat /\ U # {}
  OBVIOUS
<1>2. PICK m \in U : \A k \in U : m <= k
  BY <1>1, LeastNatural
<1>3. \E m1 \in T : \A k \in T : m1 >= k
  <2>1. PICK m1 \in T : m = n - m1
    BY <1>2
  <2>2. \A k \in T : n - m1 <= n - k
    BY <1>2, <2>1
  <2> QED
    BY <2>2
<1>4. Max(T) \in T /\ \A k \in T : Max(T) >= k
  BY <1>3, ZenonT(20) DEF Max
<1> QED
  BY <1>4

(* Children, and the elements next to one, as the least or greatest there is *)
LEMMA Siblings ==
  ASSUME Grown
  PROVE  /\ \A e \in 1..N : Children(e) = {c \in 2..N : parent[c] = e}
         /\ \A e \in 1..N : IF Children(e) = {} THEN first_child(e) = no_element /\ last_child(e) = no_element
                           ELSE /\ first_child(e) \in Children(e) /\ \A c \in Children(e) : first_child(e) <= c
                                /\ last_child(e) \in Children(e) /\ \A c \in Children(e) : c <= last_child(e)
         /\ \A e \in 1..N :
              /\ GetNext(e) = no_element => \A s \in 2..N : e \in 2..N /\ parent[s] = parent[e] => s <= e
              /\ GetNext(e) # no_element =>
                   /\ e \in 2..N /\ GetNext(e) \in 2..N /\ parent[GetNext(e)] = parent[e] /\ GetNext(e) > e
                   /\ \A s \in 2..N : parent[s] = parent[e] /\ s > e => GetNext(e) <= s
         /\ \A e \in 1..N :
              /\ GetPrev(e) = no_element => \A s \in 2..N : e \in 2..N /\ parent[s] = parent[e] => s >= e
              /\ GetPrev(e) # no_element =>
                   /\ e \in 2..N /\ GetPrev(e) \in 2..N /\ parent[GetPrev(e)] = parent[e] /\ GetPrev(e) < e
                   /\ \A s \in 2..N : parent[s] = parent[e] /\ s < e => s <= GetPrev(e)
<1>1. /\ N \in Nat /\ N >= 1 /\ no_element \notin 0..N /\ Node = 1..N /\ Root = 1 /\ parent[1] = no_element
      /\ \A e \in 2..N : parent[e] \in 1..(e - 1)
  BY ParentFacts
<1>2. \A e \in 1..N : Children(e) = {c \in 2..N : parent[c] = e}
  BY <1>1 DEF Children
<1>3. ASSUME NEW T \in SUBSET (2..N)
      PROVE  IF T = {} THEN Earliest(T) = no_element /\ Latest(T) = no_element
             ELSE /\ Earliest(T) \in T /\ (\A c \in T : Earliest(T) <= c) /\ Latest(T) \in T
                  /\ (\A c \in T : c <= Latest(T)) /\ Earliest(T) # no_element /\ Latest(T) # no_element
  <2>1. T \in SUBSET (1..N) /\ T \in SUBSET Nat
    BY <1>1
  <2>2. CASE T = {}
    BY <2>2 DEF Earliest, Latest
  <2>3. CASE T # {}
    <3>1. Earliest(T) = Min(T) /\ Latest(T) = Max(T)
      BY <2>3 DEF Earliest, Latest
    <3>2. Min(T) \in T /\ (\A c \in T : Min(T) <= c) /\ Max(T) \in T /\ (\A c \in T : c <= Max(T))
      BY <1>1, <2>1, <2>3, MinIsLeast, MaxIsGreatest
    <3>3. no_element \notin T
      <4>1. \A k \in T : k \in 0..N
        BY <1>1, <2>1
      <4> QED
        BY <1>1, <4>1
    <3> QED
      BY <2>3, <3>1, <3>2, <3>3
  <2> QED
    BY <2>2, <2>3
<1>4. ASSUME NEW e \in 1..N
      PROVE  IF Children(e) = {} THEN first_child(e) = no_element /\ last_child(e) = no_element
             ELSE /\ first_child(e) \in Children(e) /\ (\A c \in Children(e) : first_child(e) <= c)
                  /\ last_child(e) \in Children(e) /\ (\A c \in Children(e) : c <= last_child(e))
  <2>1. Children(e) \in SUBSET (2..N)
    BY <1>2
  <2> QED
    BY <1>3, <2>1 DEF first_child, last_child
<1>5. ASSUME NEW e \in 2..N
      PROVE  Children(parent[e]) = {s \in 2..N : parent[s] = parent[e]}
  <2>1. parent[e] \in 1..N
    BY <1>1
  <2> QED
    BY <1>2, <2>1
<1>6. ASSUME NEW e \in 1..N
      PROVE  /\ GetNext(e) = no_element => \A s \in 2..N : e \in 2..N /\ parent[s] = parent[e] => s <= e
             /\ GetNext(e) # no_element =>
                  /\ e \in 2..N /\ GetNext(e) \in 2..N /\ parent[GetNext(e)] = parent[e] /\ GetNext(e) > e
                  /\ \A s \in 2..N : parent[s] = parent[e] /\ s > e => GetNext(e) <= s
  <2>1. CASE e = 1
    BY <1>1, <2>1 DEF GetNext
  <2>2. CASE e \in 2..N
    <3> DEFINE T == {s \in Children(parent[e]) : s > e}
    <3>1. GetNext(e) = Earliest(T)
      BY <1>1, <2>2 DEF GetNext
    <3>2. T = {s \in 2..N : parent[s] = parent[e] /\ s > e}
      BY <1>5, <2>2
    <3> HIDE DEF T
    <3>3. T \in SUBSET (2..N)
      BY <3>2
    <3>4. CASE T = {}
      <4>1. GetNext(e) = no_element
        BY <1>3, <3>1, <3>3, <3>4
      <4>2. \A s \in 2..N : ~(parent[s] = parent[e] /\ s > e)
        BY <3>2, <3>4
      <4>3. \A s \in 2..N : parent[s] = parent[e] => s <= e
        BY <1>1, <2>2, <4>2
      <4> QED
        BY <4>1, <4>3
    <3>5. CASE T # {}
      BY <1>3, <2>2, <3>1, <3>2, <3>3, <3>5
    <3> QED
      BY <3>4, <3>5
  <2> QED
    BY <1>1, <2>1, <2>2
<1>7. ASSUME NEW e \in 1..N
      PROVE  /\ GetPrev(e) = no_element => \A s \in 2..N : e \in 2..N /\ parent[s] = parent[e] => s >= e
             /\ GetPrev(e) # no_element =>
                  /\ e \in 2..N /\ GetPrev(e) \in 2..N /\ parent[GetPrev(e)] = parent[e] /\ GetPrev(e) < e
                  /\ \A s \in 2..N : parent[s] = parent[e] /\ s < e => s <= GetPrev(e)
  <2>1. CASE e = 1
    BY <1>1, <2>1 DEF GetPrev
  <2>2. CASE e \in 2..N
    <3> DEFINE T == {s \in Children(parent[e]) : s < e}
    <3>1. GetPrev(e) = Latest(T)
      BY <1>1, <2>2 DEF GetPrev
    <3>2. T = {s \in 2..N : parent[s] = parent[e] /\ s < e}
      BY <1>5, <2>2
    <3> HIDE DEF T
    <3>3. T \in SUBSET (2..N)
      BY <3>2
    <3>4. CASE T = {}
      <4>1. GetPrev(e) = no_element
        BY <1>3, <3>1, <3>3, <3>4
      <4>2. \A s \in 2..N : ~(parent[s] = parent[e] /\ s < e)
        BY <3>2, <3>4
      <4>3. \A s \in 2..N : parent[s] = parent[e] => s >= e
        BY <1>1, <2>2, <4>2
      <4> QED
        BY <4>1, <4>3
    <3>5. CASE T # {}
      BY <1>3, <2>2, <3>1, <3>2, <3>3, <3>5
    <3> QED
      BY <3>4, <3>5
  <2> QED
    BY <1>1, <2>1, <2>2
<1> QED
  BY <1>2, <1>4, <1>6, <1>7

(* An element that has a sibling after it: that comes after all it is above,
   and its parent is above the next of these. *)
LEMMA SiblingAfter ==
  ASSUME Grown, NEW e \in 1..N, NEW a \in Anc(e), a \in 2..N, NEW s \in 2..N, parent[s] = parent[a], s > a
  PROVE  /\ s > e /\ e < N /\ parent[a] \in Anc(e + 1) /\ parent[a] < a
         /\ \A b \in Anc(e + 1) : b <= e => b \in Anc(parent[a]) \/ parent[a] \in Anc(b)
<1>1. /\ N \in Nat /\ parent[a] \in 1..(a - 1) /\ parent[s] \in Anc(s) /\ a \in 1..e
      /\ Anc(s) = {s} \cup Anc(parent[a]) /\ Anc(parent[a]) \subseteq 1..parent[a]
  <2>1. N \in Nat /\ parent[a] \in 1..(a - 1) /\ Anc(s) = {s} \cup Anc(parent[s])
    BY ParentFacts
  <2>2. parent[a] \in 1..N /\ a \in 1..e
    BY <2>1, AncestorsRange
  <2>3. parent[a] \in Anc(parent[a]) /\ Anc(parent[a]) \subseteq 1..parent[a]
    BY <2>2, AncestorsRange
  <2> QED
    BY <2>1, <2>2, <2>3
<1>2. s > e
  <2> SUFFICES ASSUME s <= e
               PROVE  FALSE
    BY <1>1
  <2>1. a \in Anc(s) /\ s \in 1..N
    BY <1>1, AncestorsBetween
  <2>2. a \in Anc(parent[a])
    BY <1>1, <2>1
  <2> QED
    BY <1>1, <2>2
<1>3. e < N /\ e + 1 \in 1..N /\ e + 1 <= s /\ s \in 1..N /\ parent[a] <= e + 1 /\ parent[a] < a
  BY <1>1, <1>2
<1>4. parent[a] \in Anc(e + 1)
  BY <1>1, <1>3, AncestorsBetween
<1>5. ASSUME NEW b \in Anc(e + 1), b <= e
      PROVE  b \in Anc(parent[a]) \/ parent[a] \in Anc(b)
  <2>1. b \in 1..N /\ parent[a] \in 1..N
    BY <1>1, <1>3, AncestorsRange
  <2>2. b <= parent[a] \/ parent[a] <= b
    BY <2>1
  <2> QED
    BY <1>3, <1>4, <2>2, AncestorsBetween
<1> QED
  BY <1>2, <1>3, <1>4, <1>5

-----------------------------------------------------------------------------
(* The order of the document *)

(* IsAncestorOf, of an element *)
LEMMA IsAncestor ==
  ASSUME Grown
  PROVE  \A e \in 1..N : \A a : IsAncestorOf(a, e) <=> a \in Anc(e)
<1>1. \A e \in 1..N : e # no_element
  BY ParentFacts
<1> QED
  BY <1>1 DEF IsAncestorOf, Anc

(* GetNextDeep gives the next element, if that is inside the bound. *)
LEMMA NextDeep ==
  ASSUME Grown, NEW e \in 1..N, NEW b, b = no_element \/ b \in Anc(e)
  PROVE  GetNextDeep(e, b) = IF e < N /\ (b = no_element \/ b \in Anc(e + 1)) THEN e + 1 ELSE no_element
<1> DEFINE climbed == {a \in Anc(e) : GetNext(a) # no_element /\ (b = no_element \/ ~IsAncestorOf(a, b))}
<1>1. GetNextDeep(e, b) = IF Children(e) # {} THEN first_child(e)
                          ELSE IF climbed = {} THEN no_element ELSE GetNext(Max(climbed))
  BY DEF GetNextDeep, Anc
<1>2. /\ N \in Nat /\ Anc(e) \subseteq 1..e /\ e \in Anc(e)
      /\ \A x \in 1..N : Anc(x) \subseteq 1..x /\ x \in Anc(x)
      /\ \A x \in 2..N : parent[x] \in 1..(x - 1) /\ parent[x] \in Anc(x - 1) /\ Anc(x) = {x} \cup Anc(parent[x])
  BY ParentFacts, AncestorsRange
<1>3. \A a \in climbed : /\ a \in Anc(e) /\ a \in 1..N /\ GetNext(a) # no_element
                         /\ b = no_element \/ ~(a \in Anc(b))
  <2>1. b # no_element => b \in 1..N
    BY <1>2
  <2> QED
    BY <1>2, <2>1, IsAncestor
<1>4. ASSUME NEW a \in Anc(e), GetNext(a) # no_element
      PROVE  /\ a \in 2..N /\ GetNext(a) > e /\ e < N /\ parent[a] \in Anc(e + 1) /\ parent[a] < a
             /\ parent[a] \in 1..N /\ Anc(parent[a]) \subseteq Anc(e + 1)
  <2>1. a \in 1..N
    BY <1>2
  <2>2. a \in 2..N /\ GetNext(a) \in 2..N /\ parent[GetNext(a)] = parent[a] /\ GetNext(a) > a
    BY <1>4, <2>1, Siblings
  <2>3. GetNext(a) > e /\ e < N /\ parent[a] \in Anc(e + 1) /\ parent[a] < a
    BY <2>2, SiblingAfter
  <2>4. parent[a] \in 1..N /\ e + 1 \in 1..N
    BY <1>2, <2>2, <2>3
  <2> QED
    BY <2>2, <2>3, <2>4, AncestorsTransitive
<1>5. CASE Children(e) # {}
  <2>1. /\ first_child(e) \in 2..N /\ parent[first_child(e)] = e
        /\ \A c \in 2..N : parent[c] = e => first_child(e) <= c
    BY <1>5, Siblings
  <2> DEFINE c == first_child(e)
  <2>2. c > e /\ e < N /\ e + 1 \in 2..N /\ e \in Anc(c)
    BY <1>2, <2>1
  <2>3. e \in Anc(e + 1)
    BY <2>1, <2>2, AncestorsBetween
  <2>4. e \in Anc(parent[e + 1]) /\ parent[e + 1] \in 1..e
    BY <1>2, <2>2, <2>3
  <2>5. parent[e + 1] = e
    BY <1>2, <2>4
  <2>6. c = e + 1
    BY <2>1, <2>2, <2>5
  <2>7. b = no_element \/ b \in Anc(e + 1)
    BY <1>2, <2>2, <2>5
  <2> QED
    BY <1>1, <1>5, <2>2, <2>6, <2>7
<1>6. CASE Children(e) = {} /\ e = N
  <2>1. climbed = {}
    BY <1>3, <1>4, <1>6
  <2> QED
    BY <1>1, <1>6, <2>1
<1>7. CASE Children(e) = {} /\ e < N
  <2> DEFINE p == parent[e + 1]
  <2>1. e + 1 \in 2..N /\ p \in Anc(e) /\ p \in 1..e /\ Anc(e + 1) = {e + 1} \cup Anc(p) /\ Anc(p) \subseteq 1..p
    BY <1>2, <1>7
  <2>2. p # e
    BY <1>7, <2>1, Siblings
  <2>3. PICK c \in Anc(e) : c \in 2..N /\ parent[c] = p
    BY <2>1, <2>2, PathDown
  <2>4. c \in 1..e /\ p < c /\ c \in 1..N
    BY <1>2, <2>3
  <2>5. GetNext(c) # no_element /\ GetNext(c) <= e + 1
    BY <2>1, <2>3, <2>4, Siblings
  <2>6. GetNext(c) = e + 1
    <3>1. GetNext(c) \in 2..N /\ GetNext(c) > e
      BY <1>4, <2>4, <2>5, Siblings
    <3> QED
      BY <2>5, <3>1
  <2>7. ASSUME NEW a \in Anc(e), GetNext(a) # no_element
        PROVE  a <= c
    <3> SUFFICES ASSUME a > c
                 PROVE  FALSE
      BY <1>2, <2>4
    <3>1. a \in 2..N /\ Anc(parent[a]) \subseteq Anc(e + 1)
      BY <1>4, <2>7
    <3>2. c \in Anc(a)
      BY <2>4, <3>1, AncestorsBetween
    <3>3. c \in Anc(parent[a])
      BY <1>2, <2>4, <3>1, <3>2
    <3>4. c \in Anc(p)
      BY <2>1, <2>4, <3>1, <3>3
    <3> QED
      BY <2>1, <2>4, <3>4
  <2>8. CASE b = no_element \/ b \in Anc(e + 1)
    <3>1. b # no_element => ~(c \in Anc(b)) /\ b \in 1..N
      <4> SUFFICES ASSUME b # no_element, c \in Anc(b)
                   PROVE  FALSE
        BY <1>2, <2>8
      <4>1. b \in 1..e /\ b \in Anc(e + 1)
        BY <1>2, <2>8
      <4>2. b \in Anc(p)
        BY <2>1, <4>1
      <4>3. p \in 1..N
        BY <1>2, <2>1
      <4>4. Anc(b) \subseteq Anc(p)
        BY <4>2, <4>3, AncestorsTransitive
      <4>5. c \in Anc(p)
        BY <4>4
      <4> QED
        BY <2>1, <2>4, <4>5
    <3>2. c \in climbed
      BY <2>3, <2>5, <3>1, IsAncestor
    <3>3. climbed \in SUBSET (1..N) /\ climbed # {} /\ \A a \in climbed : a <= c
      BY <1>3, <2>7, <3>2
    <3> HIDE DEF climbed
    <3>4. Max(climbed) \in climbed /\ c <= Max(climbed)
      BY <1>2, <3>2, <3>3, MaxIsGreatest
    <3>5. Max(climbed) = c
      <4>1. Max(climbed) \in 1..N /\ Max(climbed) <= c /\ c <= Max(climbed)
        BY <3>3, <3>4
      <4> QED
        BY <2>4, <4>1
    <3> QED
      BY <1>1, <1>7, <2>6, <2>8, <3>3, <3>5
  <2>9. CASE b # no_element /\ ~(b \in Anc(e + 1))
    <3>1. b \in Anc(e) /\ b \in 1..N
      BY <1>2, <2>9
    <3>2. ASSUME NEW a \in climbed
          PROVE  FALSE
      <4>1. a \in Anc(e) /\ a \in 2..N /\ ~(a \in Anc(b)) /\ Anc(parent[a]) \subseteq Anc(e + 1)
        BY <1>3, <1>4, <2>9
      <4>2. b < a
        BY <1>2, <3>1, <4>1, AncestorsBetween
      <4>3. b \in Anc(a)
        BY <3>1, <4>1, <4>2, AncestorsBetween
      <4>4. b \in Anc(parent[a])
        BY <1>2, <4>1, <4>2, <4>3
      <4> QED
        BY <2>9, <4>1, <4>4
    <3>3. climbed = {}
      BY <3>2
    <3> QED
      BY <1>1, <1>7, <2>9, <3>3
  <2> QED
    BY <2>8, <2>9
<1> QED
  BY <1>2, <1>5, <1>6, <1>7

(* Down by the last child is the way to the last element inside. *)
LEMMA LastLeaf ==
  ASSUME Grown, NEW d \in 1..N, NEW m \in 1..N, d \in Anc(m), m = N \/ ~(d \in Anc(m + 1))
  PROVE  LastLeafFrom(d) = m
<1> DEFINE P(l) == /\ IsAncestorOf(d, l) /\ Children(l) = {}
                   /\ \A a \in AncestorsOf(l, parent) :
                        IsAncestorOf(d, a) /\ a # d => a = last_child(parent[a])
           Q(l) == /\ d \in Anc(l) /\ Children(l) = {}
                   /\ \A a \in Anc(l) : d \in Anc(a) /\ a # d => a = last_child(parent[a])
<1>1. /\ N \in Nat /\ Node = 1..N
      /\ \A x \in 1..N : Anc(x) \subseteq 1..x /\ x \in Anc(x)
      /\ \A x \in 2..N : parent[x] \in 1..(x - 1) /\ parent[x] \in Anc(x - 1) /\ Anc(x) = {x} \cup Anc(parent[x])
  BY ParentFacts, AncestorsRange
<1>2. \A l \in 1..N : P(l) <=> Q(l)
  <2>1. \A l \in 1..N : \A a \in Anc(l) : a \in 1..N
    BY <1>1
  <2> QED
    BY <2>1, IsAncestor DEF Anc
<1>3. Q(m)
  <2>1. Children(m) = {}
    <3> SUFFICES ASSUME NEW c \in 2..N, parent[c] = m
                 PROVE  FALSE
      BY Siblings
    <3>1. m \in Anc(c) /\ c > m /\ m < N /\ m + 1 \in 1..N
      BY <1>1
    <3>2. d \in Anc(c)
      BY <3>1, AncestorsTransitive
    <3>3. d \in Anc(m + 1)
      BY <1>1, <3>1, <3>2, AncestorsBetween
    <3> QED
      BY <1>1, <3>1, <3>3
  <2>2. ASSUME NEW a \in Anc(m), d \in Anc(a), a # d
        PROVE  a = last_child(parent[a])
    <3>0. a \in 1..N /\ d \in 1..a
      BY <1>1, <2>2
    <3>1. a \in 2..N /\ parent[a] \in 1..N /\ d \in Anc(parent[a])
      <4>1. a \in 2..N
        BY <2>2, <3>0
      <4>2. parent[a] \in 1..(a - 1) /\ Anc(a) = {a} \cup Anc(parent[a])
        BY <1>1, <4>1
      <4>3. parent[a] \in 1..N
        <5>1. N \in Nat
          BY <1>1
        <5> QED
          BY <5>1, <4>1, <4>2
      <4> QED
        BY <2>2, <4>1, <4>2, <4>3
    <3>2. /\ last_child(parent[a]) \in 2..N /\ parent[last_child(parent[a])] = parent[a]
          /\ a <= last_child(parent[a])
      BY <3>1, Siblings
    <3> SUFFICES ASSUME a < last_child(parent[a])
                 PROVE  FALSE
      BY <3>1, <3>2
    <3>3. m < N /\ parent[a] \in Anc(m + 1) /\ m + 1 \in 1..N
      <4> DEFINE s == last_child(parent[a])
      <4>1. s \in 2..N /\ parent[s] = parent[a] /\ s > a
        BY <3>1, <3>2
      <4> HIDE DEF s
      <4>2. m < N /\ parent[a] \in Anc(m + 1)
        BY <2>2, <3>1, <4>1, SiblingAfter
      <4> QED
        BY <1>1, <4>2
    <3>4. d \in Anc(m + 1)
      BY <3>1, <3>3, AncestorsTransitive
    <3> QED
      BY <1>1, <3>3, <3>4
  <2> QED
    BY <2>1, <2>2
<1>4. ASSUME NEW l \in 1..N, Q(l)
      PROVE  l = m
  <2>1. l <= m
    <3> SUFFICES ASSUME l > m
                 PROVE  FALSE
      BY <1>1
    <3>1. m < N /\ m + 1 \in 1..N /\ m + 1 <= l /\ d <= m + 1
      BY <1>1
    <3>2. d \in Anc(m + 1)
      BY <1>4, <3>1, AncestorsBetween
    <3> QED
      BY <1>1, <3>1, <3>2
  <2>2. CASE l < m
    <3> DEFINE p == parent[l + 1]
    <3>1. l + 1 \in 2..N /\ l + 1 <= m /\ d <= l /\ p \in Anc(l) /\ p \in 1..l /\ Anc(l + 1) = {l + 1} \cup Anc(p)
      <4>1. l + 1 \in 2..N /\ l + 1 <= m /\ d \in 1..l
        BY <1>1, <1>4, <2>2
      <4>2. p \in Anc(l) /\ p \in 1..l /\ Anc(l + 1) = {l + 1} \cup Anc(p)
        <5>1. (l + 1) - 1 = l
          OBVIOUS
        <5>2. p \in 1..((l + 1) - 1) /\ p \in Anc((l + 1) - 1) /\ Anc(l + 1) = {l + 1} \cup Anc(p)
          BY <1>1, <4>1
        <5> QED
          BY <5>1, <5>2
      <4> QED
        BY <4>1, <4>2
    <3>2. d \in Anc(l + 1)
      BY <3>1, AncestorsBetween
    <3>3. d \in Anc(p) /\ p # l
      BY <1>4, <3>1, <3>2, Siblings
    <3>4. PICK a \in Anc(l) : a \in 2..N /\ parent[a] = p
      BY <3>1, <3>3, PathDown
    <3>5. a <= l /\ d <= p /\ p < a /\ p \in 1..N
      <4>1. p \in 1..N
        <5>1. p \in 1..l /\ N \in Nat
          BY <1>1, <3>1
        <5> HIDE DEF p
        <5> QED
          BY <5>1
      <4>4. a \in 1..l
        BY <1>1
      <4>2. d \in 1..p
        BY <1>1, <3>3, <4>1
      <4>3. p \in 1..(a - 1)
        BY <1>1, <3>4
      <4> QED
        BY <4>1, <4>2, <4>3, <4>4
    <3>6. d \in Anc(a)
      BY <1>1, <3>3, <3>4
    <3>7. a = last_child(p)
      BY <1>4, <3>1, <3>4, <3>5, <3>6
    <3>8. l + 1 <= last_child(p)
      <4>1. l + 1 \in Children(p)
        BY <3>1, <3>5, Siblings
      <4> QED
        BY <3>5, <4>1, Siblings
    <3> QED
      BY <3>1, <3>5, <3>7, <3>8
  <2> QED
    BY <2>1, <2>2
<1>5. LastLeafFrom(d) = CHOOSE l \in 1..N : P(l)
  BY <1>1 DEF LastLeafFrom
<1> HIDE DEF P, Q
<1>6. P(m) /\ \A l \in 1..N : P(l) => l = m
  BY <1>2, <1>3, <1>4
<1> QED
  BY <1>5, <1>6

(* GetPrevDeep gives the previous element. *)
LEMMA PrevDeep ==
  ASSUME Grown, NEW e \in 1..N
  PROVE  GetPrevDeep(e) = IF e = 1 THEN no_element ELSE e - 1
<1>1. /\ N \in Nat /\ no_element \notin 0..N /\ parent[1] = no_element
      /\ \A x \in 1..N : Anc(x) \subseteq 1..x /\ x \in Anc(x)
      /\ \A x \in 2..N : parent[x] \in 1..(x - 1) /\ parent[x] \in Anc(x - 1) /\ Anc(x) = {x} \cup Anc(parent[x])
  BY ParentFacts, AncestorsRange
<1>2. CASE e = 1
  <2>1. GetPrev(e) = no_element
    BY <1>2, Siblings
  <2> QED
    BY <1>1, <1>2, <2>1 DEF GetPrevDeep
<1>3. CASE e # 1
  <2> DEFINE p == parent[e]
             m == e - 1
  <2>1. /\ e \in 2..N /\ m \in 1..N /\ m + 1 = e /\ p \in 1..m /\ p \in Anc(m)
        /\ Anc(e) = {e} \cup Anc(p) /\ Anc(p) \subseteq 1..p /\ p \in 1..N /\ Anc(m) \subseteq 1..m
    <3>1. e \in 2..N /\ m \in 1..N /\ m + 1 = e
      BY <1>1, <1>3
    <3>2. p \in 1..m /\ p \in Anc(m) /\ Anc(e) = {e} \cup Anc(p)
      BY <1>1, <3>1
    <3>3. p \in 1..N
      BY <1>1, <3>1, <3>2
    <3> QED
      BY <1>1, <3>1, <3>2, <3>3
  <2> HIDE DEF m
  <2>2. CASE p = m
    <3>1. GetPrev(e) = no_element
      <4> SUFFICES ASSUME GetPrev(e) # no_element
                   PROVE  FALSE
        OBVIOUS
      <4>1. GetPrev(e) \in 2..N /\ parent[GetPrev(e)] = p /\ GetPrev(e) < e
        BY Siblings
      <4>2. parent[GetPrev(e)] \in 1..(GetPrev(e) - 1)
        BY <1>1, <4>1
      <4> QED
        BY <2>1, <2>2, <4>1, <4>2
    <3> QED
      BY <1>1, <1>3, <2>2, <3>1 DEF GetPrevDeep, m
  <2>3. CASE p # m
    <3>1. PICK a \in Anc(m) : a \in 2..N /\ parent[a] = p
      BY <2>1, <2>3, PathDown
    <3>2. a \in 1..m /\ a < e
      BY <2>1
    <3> DEFINE d == GetPrev(e)
    <3>3. d # no_element /\ d \in 2..N /\ parent[d] = p /\ d < e /\ a <= d
      BY <2>1, <3>1, <3>2, Siblings
    <3> HIDE DEF d
    <3>4. d = a
      <4> SUFFICES ASSUME a < d
                   PROVE  FALSE
        BY <3>1, <3>3
      <4>1. d > m
        BY <2>1, <3>1, <3>3, SiblingAfter
      <4> QED
        BY <2>1, <3>3, <4>1
    <3>5. d \in Anc(m) /\ d \in 1..N
      BY <1>1, <3>1, <3>3, <3>4
    <3>6. ~(d \in Anc(m + 1))
      <4>1. p \in 1..(d - 1)
        BY <1>1, <3>3
      <4> QED
        BY <2>1, <3>3, <4>1
    <3>7. LastLeafFrom(d) = m
      BY <2>1, <3>5, <3>6, LastLeaf
    <3> QED
      BY <1>3, <3>3, <3>7 DEF GetPrevDeep, d, m
  <2> QED
    BY <2>2, <2>3
<1> QED
  BY <1>2, <1>3

(* What is inside an element are those that follow it up to the last of them;
   the first child is the next one, and GetLastLeaf the last. *)
LEMMA InsideRange ==
  ASSUME Grown, NEW r \in 1..N
  PROVE  LET last == Max(Inside(r))
         IN  /\ last \in r..N /\ Inside(r) = r..last
             /\ first_child(r) = IF last = r THEN no_element ELSE r + 1
             /\ GetLastLeaf(r) = IF last = r THEN no_element ELSE last
<1> DEFINE last == Max(Inside(r))
<1>1. /\ N \in Nat /\ no_element \notin 0..N /\ Node = 1..N
      /\ \A x \in 1..N : Anc(x) \subseteq 1..x /\ x \in Anc(x)
      /\ \A x \in 2..N : parent[x] \in 1..(x - 1) /\ parent[x] \in Anc(x - 1) /\ Anc(x) = {x} \cup Anc(parent[x])
  BY ParentFacts, AncestorsRange
<1>2. Inside(r) = {d \in 1..N : r \in Anc(d)}
  <2>1. r # no_element
    BY <1>1
  <2> QED
    BY <1>1, <2>1, IsAncestor DEF Inside
<1>3. last \in Inside(r) /\ \A d \in Inside(r) : d <= last
  <2>1. Inside(r) \in SUBSET (1..N) /\ Inside(r) # {}
    BY <1>1, <1>2
  <2> QED
    BY <1>1, <2>1, MaxIsGreatest
<1> HIDE DEF last
<1>4. last \in r..N /\ r \in Anc(last)
  <2>1. last \in 1..N /\ r \in Anc(last) /\ r \in 1..last
    BY <1>1, <1>2, <1>3
  <2> QED
    BY <2>1
<1>5. Inside(r) = r..last
  <2>1. ASSUME NEW d \in Inside(r)
        PROVE  d \in r..last
    <3>1. d \in 1..N /\ r \in 1..d /\ d <= last
      BY <1>1, <1>2, <1>3
    <3> QED
      BY <1>4, <3>1
  <2>2. ASSUME NEW d \in r..last
        PROVE  d \in Inside(r)
    <3>1. d \in 1..N /\ r <= d /\ d <= last /\ last \in 1..N
      BY <1>1, <1>4
    <3>2. r \in Anc(d)
      BY <1>4, <3>1, AncestorsBetween
    <3> QED
      BY <1>2, <3>1, <3>2
  <2> QED
    BY <2>1, <2>2
<1>6. last = N \/ ~(r \in Anc(last + 1))
  <2> SUFFICES ASSUME last # N, r \in Anc(last + 1)
               PROVE  FALSE
    OBVIOUS
  <2>1. last + 1 \in 1..N /\ last \in Int
    BY <1>1, <1>4
  <2>2. last + 1 \in Inside(r)
    BY <1>2, <2>1
  <2> QED
    BY <1>3, <2>1, <2>2
<1>7. CASE last = r
  <2>1. Children(r) = {}
    <3> SUFFICES ASSUME NEW c \in 2..N, parent[c] = r
                 PROVE  FALSE
      BY Siblings
    <3>1. r \in Anc(c) /\ c \in 1..N /\ r \in 1..(c - 1)
      BY <1>1
    <3>2. c <= last
      BY <1>2, <1>3, <3>1
    <3> QED
      BY <1>7, <3>1, <3>2
  <2> QED
    BY <1>4, <1>5, <1>7, <2>1, Siblings DEF GetLastLeaf, last
<1>8. CASE last # r
  <2>1. PICK c \in Anc(last) : c \in 2..N /\ parent[c] = r
    BY <1>1, <1>4, <1>8, PathDown
  <2>2. c \in Children(r)
    BY <2>1, Siblings
  <2>3. first_child(r) = r + 1
    <3>1. r < N /\ r \in Anc(r) /\ no_element # r + 1
      <4>1. N \in Nat /\ no_element \notin 0..N /\ r \in Anc(r)
        BY <1>1
      <4> QED
        BY <4>1, <1>4, <1>8
    <3>2. r + 1 \in 2..N /\ r + 1 \in Inside(r)
      BY <1>1, <1>4, <1>5, <1>8
    <3>3. r \in Anc(parent[r + 1]) /\ parent[r + 1] \in 1..r
      BY <1>1, <1>2, <3>2
    <3>4. parent[r + 1] = r
      <4>1. parent[r + 1] \in 1..N /\ r \in 1..N
        BY <1>1, <3>1, <3>3
      <4>2. r \in 1..parent[r + 1]
        BY <1>1, <3>3, <4>1
      <4> QED
        BY <3>3, <4>2
    <3>5. r + 1 \in Children(r)
      BY <3>2, <3>4, Siblings
    <3>6. first_child(r) \in Children(r) /\ first_child(r) <= r + 1
      BY <3>5, Siblings
    <3>7. first_child(r) \in 2..N /\ parent[first_child(r)] = r
      BY <3>6, Siblings
    <3>8. r \in 1..(first_child(r) - 1)
      BY <1>1, <3>7
    <3> QED
      BY <3>6, <3>7, <3>8
  <2> DEFINE s == last_child(r)
  <2>4. s \in 2..N /\ parent[s] = r /\ c <= s
    BY <2>2, Siblings
  <2> HIDE DEF s
  <2>5. s = c
    <3> SUFFICES ASSUME s > c
                 PROVE  FALSE
      BY <2>1, <2>4
    <3>1. last \in 1..N
      BY <1>1, <1>4
    <3>2. s > last
      BY <2>1, <2>4, <3>1, SiblingAfter
    <3>3. s \in Inside(r)
      BY <1>1, <1>2, <2>4
    <3> QED
      BY <1>3, <1>4, <2>4, <3>2, <3>3
  <2>6. last \in 1..N /\ s \in 1..N /\ s \in Anc(last)
    BY <1>1, <1>4, <2>1, <2>5
  <2>7. last = N \/ ~(s \in Anc(last + 1))
    <3> SUFFICES ASSUME last # N, s \in Anc(last + 1)
                 PROVE  FALSE
      OBVIOUS
    <3>1. last + 1 \in 1..N /\ r \in Anc(s)
      <4>1. last + 1 \in 1..N
        BY <1>1, <2>6
      <4>2. Anc(s) = {s} \cup Anc(r)
        BY <1>1, <2>4
      <4> QED
        BY <1>1, <4>1, <4>2
    <3>2. r \in Anc(last + 1)
      BY <3>1, AncestorsTransitive
    <3> QED
      BY <1>6, <3>2
  <2>8. LastLeafFrom(s) = last
    BY <2>6, <2>7, LastLeaf
  <2> QED
    BY <1>4, <1>5, <1>8, <2>2, <2>3, <2>8 DEF GetLastLeaf, s, last
<1> QED
  BY <1>7, <1>8

-----------------------------------------------------------------------------
(* The walk *)

(* The remainder of a number below the divisor, and of one a round further *)
LEMMA OnceAround ==
  ASSUME NEW s \in Nat, NEW k \in 0..(s - 1)
  PROVE  k % s = k /\ (k + s) % s = k
<1>1. k % s = k
  OBVIOUS
<1>2. (k + s) % s = k
  OBVIOUS
<1> QED
  BY <1>1, <1>2

(* From c the walk goes on to n: the origin once all others have been passed, or
   the nearest one of those not passed. *)
StepsTo(c, n, o, r, last, fwd) ==
  /\ n \in r..last /\ (fwd => n # r)
  /\ n = o => \A e \in r..last :
       e # o /\ e # r => 0 < Away(e, o, r, last, fwd) /\ Away(e, o, r, last, fwd) <= Away(c, o, r, last, fwd)
  /\ n # o => /\ Away(c, o, r, last, fwd) < Away(n, o, r, last, fwd) /\ 0 < Away(n, o, r, last, fwd)
              /\ \A e \in r..last : (fwd => e # r) /\ Away(e, o, r, last, fwd) > Away(c, o, r, last, fwd)
                   => Away(n, o, r, last, fwd) <= Away(e, o, r, last, fwd)
              /\ \A e \in r..last : (fwd => e # r) /\ Away(e, o, r, last, fwd) > Away(c, o, r, last, fwd)
                   /\ Away(e, o, r, last, fwd) <= Away(n, o, r, last, fwd) => e = n
  /\ \A e \in r..last : e # o => Away(e, o, r, last, fwd) > 0

(* One step of the walk goes to the nearest of those it has not passed. *)
LEMMA OneStep ==
  ASSUME NEW r \in Nat, NEW last \in Nat, NEW o \in r + 1..last, NEW c \in r..last, NEW fwd \in BOOLEAN, fwd => c # r,
         NEW n, n = IF fwd THEN IF c < last THEN c + 1 ELSE r + 1 ELSE IF c > r THEN c - 1 ELSE last
  PROVE  StepsTo(c, n, o, r, last, fwd)
<1> DEFINE size == last - r + 1
           far(e) == Away(e, o, r, last, fwd)
<1>1. CASE fwd
  <2>1. \A e \in r..last : far(e) = IF e >= o THEN e - o ELSE e - o + size
    BY <1>1 DEF Away
  <2>2. n = IF c < last THEN c + 1 ELSE r + 1
    BY <1>1
  <2>3. n \in r..last /\ n # r /\ c # r
    BY <1>1, <2>2
  <2> HIDE DEF far
  <2>4. n = o => \A e \in r..last : e # o /\ e # r => 0 < far(e) /\ far(e) <= far(c)
    BY <2>1, <2>2
  <2>5. ASSUME n # o
        PROVE  /\ far(c) < far(n) /\ 0 < far(n)
               /\ \A e \in r..last : e # r /\ far(e) > far(c) => far(n) <= far(e)
               /\ \A e \in r..last : e # r /\ far(e) > far(c) /\ far(e) <= far(n) => e = n
    BY <2>1, <2>2, <2>3, <2>5
  <2>6. \A e \in r..last : e # o => far(e) > 0
    BY <2>1
  <2> QED
    BY <1>1, <2>3, <2>4, <2>5, <2>6 DEF far, StepsTo
<1>2. CASE ~fwd
  <2>1. \A e \in r..last : far(e) = IF e <= o THEN o - e ELSE o - e + size
    BY <1>2 DEF Away
  <2>2. n = IF c > r THEN c - 1 ELSE last
    BY <1>2
  <2>3. n \in r..last
    BY <2>2
  <2> HIDE DEF far
  <2>4. n = o => \A e \in r..last : e # o /\ e # r => 0 < far(e) /\ far(e) <= far(c)
    BY <2>1, <2>2
  <2>5. ASSUME n # o
        PROVE  /\ far(c) < far(n) /\ 0 < far(n)
               /\ \A e \in r..last : far(e) > far(c) => far(n) <= far(e)
               /\ \A e \in r..last : far(e) > far(c) /\ far(e) <= far(n) => e = n
    BY <2>1, <2>2, <2>3, <2>5
  <2>6. \A e \in r..last : e # o => far(e) > 0
    BY <2>1
  <2> QED
    BY <1>2, <2>3, <2>4, <2>5, <2>6 DEF far, StepsTo
<1> QED
  BY <1>1, <1>2

(* What the invariant says of the tree, and where a walk is in it *)
LEMMA WalkParts ==
  ASSUME FocusAssumption, WalkIInv
  PROVE  /\ Grown /\ N \in Nat /\ N >= 1 /\ no_element \notin 0..N /\ Node = 1..N /\ Root = 1
         /\ root \in Node => LastInside \in root..N /\ Inside(root) = root..LastInside
<1>1. Grown
  BY DEF WalkIInv, WalkTypeOK, Grown
<1>2. N \in Nat /\ N >= 1 /\ no_element \notin 0..N /\ Node = 1..N /\ Root = 1
  BY <1>1, ParentFacts
<1> QED
  BY <1>1, <1>2, InsideRange DEF LastInside

(* Distance is the number of steps. *)
LEMMA Distances ==
  ASSUME FocusAssumption, WalkIInv, root \in Node, origin \in Inside(root)
  PROVE  \A e \in Inside(root) : Distance(e) = Steps(e)
<1> SUFFICES ASSUME NEW e \in Inside(root)
             PROVE  Distance(e) = Steps(e)
  OBVIOUS
<1> DEFINE size == LastInside - root + 1
<1>1. /\ root \in Nat /\ LastInside \in Nat /\ root <= LastInside
      /\ Inside(root) = root..LastInside /\ forward \in BOOLEAN
  BY WalkParts DEF WalkIInv, WalkTypeOK
<1>2. Cardinality(Inside(root)) = size
  BY <1>1, FS_Interval
<1>3. size \in Nat /\ e \in root..LastInside /\ origin \in root..LastInside
  BY <1>1
<1>4. Distance(e) = IF forward THEN (e + size - origin) % size ELSE (origin + size - e) % size
  BY <1>2 DEF Distance
<1>5. Steps(e) = IF forward THEN IF e >= origin THEN e - origin ELSE e - origin + size
                 ELSE IF e <= origin THEN origin - e ELSE origin - e + size
  BY DEF Steps, Away
<1>6. /\ e >= origin => e - origin \in 0..(size - 1) /\ e + size - origin = (e - origin) + size
      /\ ~(e >= origin) => e - origin + size \in 0..(size - 1) /\ e + size - origin = e - origin + size
      /\ e <= origin => origin - e \in 0..(size - 1) /\ origin + size - e = (origin - e) + size
      /\ ~(e <= origin) => origin - e + size \in 0..(size - 1) /\ origin + size - e = origin - e + size
  BY <1>1, <1>3
<1> HIDE DEF size
<1>7. CASE forward
  <2>1. CASE e >= origin
    BY <1>3, <1>4, <1>5, <1>6, <1>7, <2>1, OnceAround
  <2>2. CASE ~(e >= origin)
    BY <1>3, <1>4, <1>5, <1>6, <1>7, <2>2, OnceAround
  <2> QED
    BY <2>1, <2>2
<1>8. CASE ~forward
  <2>1. CASE e <= origin
    BY <1>3, <1>4, <1>5, <1>6, <1>8, <2>1, OnceAround
  <2>2. CASE ~(e <= origin)
    BY <1>3, <1>4, <1>5, <1>6, <1>8, <2>2, OnceAround
  <2> QED
    BY <2>1, <2>2
<1> QED
  BY <1>7, <1>8

(* The element MoveFocus comes to next *)
LEMMA Candidate ==
  ASSUME FocusAssumption, WalkIInv, Moving
  PROVE  /\ root \in Nat /\ LastInside \in Nat /\ origin \in root + 1..LastInside /\ current \in root..LastInside
         /\ NextCandidate = IF forward THEN IF current < LastInside THEN current + 1 ELSE root + 1
                            ELSE IF current > root THEN current - 1 ELSE LastInside
<1>1. /\ Grown /\ N \in Nat /\ N >= 1 /\ no_element \notin 0..N /\ Node = 1..N
      /\ LastInside \in root..N /\ Inside(root) = root..LastInside /\ root \in 1..N /\ forward \in BOOLEAN
  BY WalkParts DEF Moving, WalkIInv, WalkTypeOK
<1>2. /\ origin \in root + 1..LastInside /\ current \in root..LastInside /\ current \in 1..N
      /\ forward => current # root
  <2>1. origin \in root..LastInside /\ origin # root /\ current \in root..LastInside /\ (forward => current # root)
    BY <1>1 DEF Moving
  <2> QED
    BY <1>1, <2>1
<1>3. \A e \in 1..N : e # no_element /\ (IsAncestorOf(root, e) <=> e \in root..LastInside)
  <2>1. \A e \in 1..N : e \in Inside(root) <=> IsAncestorOf(root, e)
    <3>1. root # no_element
      BY <1>1
    <3> QED
      BY <1>1, <3>1 DEF Inside
  <2> QED
    BY <1>1, <2>1
<1>4. /\ first_child(root) = IF LastInside = root THEN no_element ELSE root + 1
      /\ GetLastLeaf(root) = IF LastInside = root THEN no_element ELSE LastInside
      /\ LastInside # root
  BY <1>1, <1>2, InsideRange DEF LastInside
<1> DEFINE next == IF forward THEN GetNextDeep(current, no_element) ELSE GetPrevDeep(current)
<1>5. NextCandidate = IF next = no_element \/ ~IsAncestorOf(root, next)
                      THEN IF forward THEN first_child(root) ELSE GetLastLeaf(root)
                      ELSE next
  BY DEF NextCandidate
<1>6. ASSUME forward
      PROVE  NextCandidate = IF current < LastInside THEN current + 1 ELSE root + 1
  <2>1. next = IF current < N THEN current + 1 ELSE no_element
    BY <1>1, <1>2, <1>6, NextDeep
  <2> HIDE DEF next
  <2>2. CASE current < LastInside
    <3>1. current + 1 \in 1..N /\ current < N /\ current + 1 \in root..LastInside
      BY <1>1, <1>2, <2>2
    <3>2. next = current + 1
      BY <2>1, <3>1
    <3> QED
      BY <1>3, <1>5, <2>2, <3>1, <3>2
  <2>3. CASE current = LastInside
    <3>1. current < N => current + 1 \in 1..N /\ current + 1 \notin root..LastInside
      BY <1>1, <1>2, <2>3
    <3>2. next = no_element \/ ~IsAncestorOf(root, next)
      BY <1>3, <2>1, <3>1
    <3>3. NextCandidate = first_child(root)
      BY <1>5, <1>6, <3>2
    <3>4. ~(current < LastInside)
      BY <1>1, <2>3
    <3> QED
      BY <1>4, <3>3, <3>4
  <2> QED
    BY <1>1, <1>2, <2>2, <2>3
<1>7. ASSUME ~forward
      PROVE  NextCandidate = IF current > root THEN current - 1 ELSE LastInside
  <2>1. next = IF current = 1 THEN no_element ELSE current - 1
    BY <1>1, <1>2, <1>7, PrevDeep
  <2> HIDE DEF next
  <2>2. CASE current > root
    <3>1. current - 1 \in 1..N /\ current # 1 /\ current - 1 \in root..LastInside
      BY <1>1, <1>2, <2>2
    <3>2. next = current - 1
      BY <2>1, <3>1
    <3> QED
      BY <1>3, <1>5, <2>2, <3>1, <3>2
  <2>3. CASE current = root
    <3>1. current # 1 => current - 1 \in 1..N /\ current - 1 \notin root..LastInside
      BY <1>1, <1>2, <2>3
    <3>2. next = no_element \/ ~IsAncestorOf(root, next)
      BY <1>3, <2>1, <3>1
    <3>3. NextCandidate = GetLastLeaf(root)
      BY <1>5, <1>7, <3>2
    <3>4. ~(current > root)
      BY <1>1, <2>3
    <3> QED
      BY <1>4, <3>3, <3>4
  <2> QED
    BY <1>1, <1>2, <2>2, <2>3
<1>8. root \in Nat /\ LastInside \in Nat
  BY <1>1
<1> QED
  BY <1>2, <1>6, <1>7, <1>8

(* A walk that is at the next element: what is inside its root, and how far it
   is, are as before. *)
LEMMA Unmoved ==
  ASSUME UNCHANGED <<treeVars, root, origin, forward>>
  PROVE  /\ Inside(root)' = Inside(root) /\ LastInside' = LastInside
         /\ \A e : Steps(e)' = Steps(e) /\ Distance(e)' = Distance(e)
<1>1. Inside(root)' = Inside(root)
  BY DEF Inside, IsAncestorOf, treeVars
<1>2. LastInside' = LastInside
  BY <1>1 DEF LastInside
<1>3. \A e : Steps(e)' = Steps(e)
  BY <1>2 DEF Steps
<1>4. \A e : Distance(e)' = Distance(e)
  BY <1>1 DEF Distance
<1> QED
  BY <1>1, <1>2, <1>3, <1>4

(* MoveFocus starts at the focused element, inside its form. *)
LEMMA MoveFocusStep ==
  ASSUME FocusAssumption, ~Unfocused, WalkIInv, NEW fwd \in BOOLEAN, MoveFocus(fwd)
  PROVE  WalkIInv'
<1>1. /\ Grown /\ N \in Nat /\ N >= 1 /\ no_element \notin 0..N /\ Node = 1..N /\ Root = 1
      /\ focused_element \in Node \ (forms \cup {Root}) /\ tried = {} /\ pc = "idle"
  BY WalkParts DEF WalkIInv, Waiting, MoveFocus
<1> DEFINE o == focused_element
           r == IF parent_form(o) = no_element THEN Root ELSE parent_form(o)
<1>2. /\ pc' = "move" /\ forward' = fwd /\ origin' = o /\ current' = o /\ root' = r
      /\ UNCHANGED <<treeVars, focused_element, tried, result>>
  <2>1. o # no_element
    BY <1>1
  <2> QED
    BY <2>1 DEF MoveFocus
<1>3. r \in 1..N /\ r # o /\ r \in Anc(o)
  <2> DEFINE T == {a \in AncestorsOf(o, parent) : a \in forms}
  <2>1. o \in 1..N /\ 1 \in Anc(o) /\ Anc(o) \subseteq 1..o
    BY <1>1, AncestorsRange
  <2>2. T \subseteq Anc(o) /\ T \subseteq forms /\ T \in SUBSET (1..N)
    BY <1>1, <2>1 DEF Anc
  <2>3. parent_form(o) = IF T = {} THEN no_element ELSE Max(T)
    BY DEF parent_form, Latest
  <2> HIDE DEF T
  <2>4. CASE T = {}
    BY <1>1, <2>1, <2>3, <2>4
  <2>5. CASE T # {}
    <3>1. Max(T) \in T
      BY <1>1, <2>2, <2>5, MaxIsGreatest
    <3>2. parent_form(o) = Max(T) /\ Max(T) \in 1..N
      BY <2>2, <2>3, <2>5, <3>1
    <3> QED
      BY <1>1, <2>1, <2>2, <3>1, <3>2
  <2> QED
    BY <2>4, <2>5
<1> HIDE DEF r
<1>4. Inside(root)' = {d \in Node : r \in Anc(d)}
  <2>1. \A d \in Node : d # no_element
    BY <1>1
  <2>2. root' # no_element
    BY <1>1, <1>2, <1>3
  <2> QED
    BY <1>2, <2>1, <2>2 DEF Inside, IsAncestorOf, treeVars, Anc
<1>5. o \in Inside(root)' /\ root' \in Node /\ o # root'
  BY <1>1, <1>2, <1>3, <1>4
<1>6. Moving'
  <2>1. Grown /\ parent' = parent /\ root' \in 1..N
    BY <1>1, <1>2, <1>3 DEF treeVars
  <2>2. Inside(root)' = r..LastInside' /\ LastInside' \in r..N
    <3>1. Inside(root)' = Inside(r)
      BY <1>2 DEF Inside, IsAncestorOf, treeVars
    <3>2. LastInside' = Max(Inside(r))
      BY <3>1 DEF LastInside
    <3> QED
      BY <1>1, <1>3, <3>1, <3>2, InsideRange
  <2>3. r \in Nat /\ LastInside' \in Nat /\ o \in r + 1..LastInside'
    BY <1>1, <1>2, <1>3, <1>5, <2>2
  <2>4. Steps(o)' = 0
    <3>1. Steps(o)' = Away(o, o, r, LastInside', fwd)
      BY <1>2 DEF Steps
    <3> QED
      BY <2>3, <3>1 DEF Away
  <2>5. \A e \in Inside(root)' : ~(0 < Steps(e)' /\ Steps(e)' <= 0)
    <3>1. \A e \in Inside(root)' : Steps(e)' = Away(e, o, r, LastInside', fwd)
      BY <1>2 DEF Steps
    <3>2. \A e \in Inside(root)' : Away(e, o, r, LastInside', fwd) \in Int
      BY <2>2, <2>3 DEF Away
    <3> QED
      BY <3>1, <3>2
  <2>6. tried' = {} /\ Steps(current)' = 0
    <3>1. Steps(current)' = Away(o, o, r, LastInside', fwd) /\ Steps(o)' = Away(o, o, r, LastInside', fwd)
      BY <1>2 DEF Steps
    <3> QED
      BY <1>1, <1>2, <2>4, <3>1
  <2>7. tried' = {e \in Inside(root)' : 0 < Steps(e)' /\ Steps(e)' <= Steps(current)' /\ (forward' => e # root')}
    BY <2>5, <2>6
  <2> QED
    BY <1>2, <1>5, <2>6, <2>7 DEF Moving
<1>7. WalkTypeOK'
  BY <1>1, <1>2, <1>5 DEF WalkIInv, WalkTypeOK, treeVars
<1>8. TriesAllInside' /\ NearestAccepts'
  BY <1>1, <1>2 DEF TriesAllInside, NearestAccepts
<1> QED
  BY <1>2, <1>6, <1>7, <1>8 DEF WalkIInv, treeVars

(* One more step of MoveFocus; and it asks someone new, or ends. *)
LEMMA MoveFocusNextStep ==
  ASSUME FocusAssumption, WalkIInv, MoveFocusNext
  PROVE  WalkIInv' /\ (pc' = "done" \/ tried' # tried)
<1> DEFINE r == root
           o == origin
           c == current
           n == NextCandidate
           last == LastInside
<1>1. /\ Moving /\ pc = "move" /\ current' = n /\ UNCHANGED <<treeVars, root, origin, forward>>
      /\ no_element \notin 0..N /\ Node = 1..N /\ last \in r..N /\ Inside(r) = r..last /\ N \in Nat
      /\ forward \in BOOLEAN
  BY WalkParts DEF WalkIInv, MoveFocusNext, Moving, WalkTypeOK
<1>2. /\ r \in Nat /\ last \in Nat /\ o \in r + 1..last /\ c \in r..last /\ (forward => c # r)
      /\ n = IF forward THEN IF c < last THEN c + 1 ELSE r + 1 ELSE IF c > r THEN c - 1 ELSE last
  BY <1>1, Candidate DEF Moving
<1> HIDE DEF n, last
<1>3. /\ n \in r..last /\ (forward => n # r)
      /\ n = o => \A e \in r..last : e # o /\ e # r => 0 < Steps(e) /\ Steps(e) <= Steps(c)
      /\ n # o => /\ Steps(c) < Steps(n) /\ 0 < Steps(n)
                  /\ \A e \in r..last : (forward => e # r) /\ Steps(e) > Steps(c) => Steps(n) <= Steps(e)
                  /\ \A e \in r..last :
                       (forward => e # r) /\ Steps(e) > Steps(c) /\ Steps(e) <= Steps(n) => e = n
      /\ \A e \in r..last : e # o => Steps(e) > 0
  <2>1. StepsTo(c, n, o, r, last, forward)
    <3>1. forward \in BOOLEAN
      BY <1>1
    <3> HIDE DEF r, o, c
    <3> QED
      BY <3>1, <1>2, OneStep
  <2> QED
    BY <2>1, <1>1, <1>2 DEF StepsTo, Steps, last, Away
<1>4. /\ n \in Node /\ n # no_element /\ \A e \in r..last : e \in Node
      /\ tried = {e \in r..last : 0 < Steps(e) /\ Steps(e) <= Steps(c) /\ (forward => e # r)}
      /\ tried \cap accepts = {} /\ \A e \in r..last : Steps(e) \in Int
  <2>1. n \in 1..N /\ r..last \subseteq 1..N
    <3>1. r \in 1..N
      BY <1>1 DEF Moving
    <3> QED
      BY <1>1, <1>2, <1>3, <3>1
  <2>2. n # no_element
    BY <1>1, <2>1
  <2>3. \A e \in r..last : Steps(e) \in Int
    BY <1>1, <1>2 DEF Steps, Away, last
  <2> QED
    BY <1>1, <2>1, <2>2, <2>3 DEF Moving
<1>5. /\ Inside(root)' = r..last
      /\ \A e : Steps(e)' = Steps(e) /\ Distance(e)' = Distance(e)
      /\ \A e \in r..last : Distance(e) = Steps(e)
  BY <1>1, <1>2, Unmoved, Distances DEF Moving
<1>6. CASE n = o
  <2>1. pc' = "done" /\ result' = FALSE /\ UNCHANGED <<focused_element, tried>>
    BY <1>1, <1>6 DEF MoveFocusNext, Returns
  <2>2. WalkTypeOK'
    BY <1>1, <1>4, <2>1 DEF WalkIInv, WalkTypeOK, treeVars
  <2>3. (r..last) \ {o, r} \subseteq tried /\ tried \subseteq r..last
    BY <1>3, <1>4, <1>6
  <2>4. TriesAllInside' /\ NearestAccepts'
    BY <1>1, <1>5, <2>1, <2>3 DEF TriesAllInside, NearestAccepts
  <2> QED
    BY <1>1, <2>1, <2>2, <2>4 DEF WalkIInv, treeVars
<1>7. CASE n # o
  <2>1. /\ tried' = tried \cup {n}
        /\ IF n \in accepts THEN focused_element' = n /\ pc' = "done" /\ result' = TRUE
           ELSE UNCHANGED <<focused_element, pc, result>>
    BY <1>1, <1>4, <1>7 DEF MoveFocusNext, Returns
  <2>2. n \notin tried /\ n \in r..last /\ tried \subseteq r..last
    BY <1>2, <1>3, <1>4, <1>7
  <2>3. tried' # tried
    BY <2>1, <2>2
  <2>4. WalkTypeOK'
    BY <1>1, <1>4, <2>1 DEF WalkIInv, WalkTypeOK, treeVars
  <2>5. CASE n \in accepts
    <3>1. ASSUME NEW e \in (accepts \cap (r..last)) \ {o, r}
          PROVE  Steps(n) <= Steps(e)
      <4>1. e \notin tried /\ Steps(e) > 0 /\ e \in r..last
        BY <1>3, <1>4
      <4>2. Steps(e) > Steps(c)
        BY <1>2, <1>4, <4>1
      <4> QED
        BY <1>3, <1>7, <4>1, <4>2
    <3>2. o # no_element
      BY <1>1 DEF Moving, Inside
    <3>3. TriesAllInside' /\ NearestAccepts'
      <4>1. TriesAllInside'
        BY <1>1, <1>5, <2>1, <2>2, <2>5 DEF TriesAllInside
      <4>2. Distance(focused_element)' = Distance(n)
        <5>1. focused_element' = n /\ Inside(root)' = Inside(root)
          BY <1>1, <1>5, <2>1, <2>5
        <5> QED
          BY <1>1, <5>1 DEF Distance
      <4>3. Distance(n) = Steps(n)
        BY <1>3, <1>5
      <4>4. \A e \in (accepts' \cap Inside(root)') \ {origin', root'} : Distance(focused_element)' <= Distance(e)'
        BY <1>1, <1>5, <3>1, <4>2, <4>3 DEF treeVars
      <4>5. origin' # no_element
        BY <1>1, <3>2
      <4>6. NearestAccepts'
        <5> HIDE DEF r, o
        <5> QED
          BY <4>4, <4>5 DEF NearestAccepts
      <4> QED
        BY <4>1, <4>6
    <3> QED
      BY <1>1, <2>1, <2>3, <2>4, <2>5, <3>3 DEF WalkIInv, treeVars
  <2>6. CASE n \notin accepts
    <3>1. \A e \in r..last : /\ e \in tried' <=> 0 < Steps(e) /\ Steps(e) <= Steps(n) /\ (forward => e # r)
      <4> SUFFICES ASSUME NEW e \in r..last
                   PROVE  e \in tried' <=> 0 < Steps(e) /\ Steps(e) <= Steps(n) /\ (forward => e # r)
        OBVIOUS
      <4>1. Steps(e) \in Int /\ Steps(c) \in Int /\ Steps(n) \in Int
        BY <1>2, <1>3, <1>4
      <4>2. e \in tried <=> 0 < Steps(e) /\ Steps(e) <= Steps(c) /\ (forward => e # r)
        BY <1>4
      <4>3. CASE e = n
        BY <1>3, <1>7, <2>1, <4>1, <4>3
      <4>4. CASE e # n
        BY <1>3, <1>7, <2>1, <4>1, <4>2, <4>4
      <4> QED
        BY <4>3, <4>4
    <3>2. tried' = {e \in Inside(root)' : 0 < Steps(e)' /\ Steps(e)' <= Steps(current)' /\ (forward' => e # root')}
      <4>1. Steps(current)' = Steps(n)
        BY <1>1, <1>5 DEF Steps, LastInside
      <4>2. tried' \subseteq r..last
        BY <2>1, <2>2
      <4> QED
        BY <1>1, <1>5, <3>1, <4>1, <4>2
    <3>3. tried' \cap accepts' = {}
      BY <1>1, <1>4, <2>1, <2>6 DEF treeVars
    <3>4. Moving'
      BY <1>1, <1>3, <1>5, <3>2, <3>3 DEF Moving
    <3>5. TriesAllInside' /\ NearestAccepts'
      BY <1>1, <1>5, <2>1, <2>2, <2>6 DEF TriesAllInside, NearestAccepts
    <3> QED
      BY <1>1, <2>1, <2>3, <2>4, <2>6, <3>4, <3>5 DEF WalkIInv, treeVars
  <2> QED
    BY <2>5, <2>6
<1> QED
  BY <1>6, <1>7

(* set_focus_recursive starts at the first element inside the form. *)
LEMMA SetFocusRecursiveStep ==
  ASSUME FocusAssumption, WalkIInv, NEW form \in forms, SetFocusRecursive(form)
  PROVE  WalkIInv'
<1>1. /\ Grown /\ N \in Nat /\ N >= 1 /\ no_element \notin 0..N /\ Node = 1..N /\ Root = 1
      /\ form \in 1..N /\ tried = {} /\ origin = no_element /\ pc = "idle"
      /\ focused_element \in Node \ (forms \cup {Root})
  BY WalkParts DEF WalkIInv, Waiting, SetFocusRecursive, WalkTypeOK
<1>2. /\ pc' = "search" /\ root' = form /\ current' = first_child(form)
      /\ UNCHANGED <<treeVars, focused_element, origin, forward, tried, result>>
  BY DEF SetFocusRecursive
<1> DEFINE last == Max(Inside(form))
<1>3. /\ last \in form..N /\ Inside(form) = form..last
      /\ first_child(form) = IF last = form THEN no_element ELSE form + 1
  BY <1>1, InsideRange
<1>4. Inside(root)' = form..last
  BY <1>2, <1>3 DEF Inside, IsAncestorOf, treeVars
<1> HIDE DEF last
<1>5. current' \in ((form..last) \ {form}) \cup {no_element} /\ current' \in Node \cup {no_element}
  BY <1>1, <1>2, <1>3
<1>6. {e \in form..last : form < e /\ (current' # no_element => e < current')} = {}
  BY <1>1, <1>2, <1>3
<1>7. Searching'
  BY <1>1, <1>2, <1>4, <1>5, <1>6 DEF Searching
<1>8. WalkTypeOK'
  BY <1>1, <1>2, <1>5 DEF WalkIInv, WalkTypeOK, treeVars
<1>9. TriesAllInside' /\ NearestAccepts'
  BY <1>1, <1>2 DEF TriesAllInside, NearestAccepts
<1> QED
  BY <1>2, <1>7, <1>8, <1>9 DEF WalkIInv, treeVars

(* One more step of set_focus_recursive; and it asks someone new, or ends. *)
LEMMA SearchNextStep ==
  ASSUME FocusAssumption, WalkIInv, SearchNext
  PROVE  WalkIInv' /\ (pc' = "done" \/ tried' # tried)
<1> DEFINE r == root
           c == current
           last == LastInside
<1>1. /\ Searching /\ pc = "search" /\ UNCHANGED <<treeVars, root, origin, forward>> /\ Grown
      /\ no_element \notin 0..N /\ Node = 1..N /\ last \in r..N /\ Inside(r) = r..last /\ N \in Nat
      /\ r \in 1..N /\ origin = no_element
  BY WalkParts DEF WalkIInv, SearchNext, Searching
<1> HIDE DEF last
<1>2. /\ tried = {e \in r..last : r < e /\ (c # no_element => e < c)} /\ tried \cap accepts = {}
      /\ c # no_element => c \in r + 1..last /\ c \in 1..N
      /\ r..last \subseteq 1..N
  <2>1. r..last \subseteq 1..N
    BY <1>1
  <2>2. c # no_element => c \in r..last /\ c # r
    BY <1>1 DEF Searching
  <2> QED
    BY <1>1, <2>1, <2>2 DEF Searching
<1>3. Inside(root)' = r..last
  BY <1>1, Unmoved
<1>4. CASE c = no_element
  <2>1. pc' = "done" /\ result' = FALSE /\ UNCHANGED <<focused_element, current, tried>>
    BY <1>4 DEF SearchNext, Returns
  <2>2. WalkTypeOK'
    BY <1>1, <2>1 DEF WalkIInv, WalkTypeOK, treeVars
  <2>3. TriesAllInside' /\ NearestAccepts'
    <3>1. (r..last) \ {origin, r} \subseteq tried /\ tried \subseteq r..last
      BY <1>1, <1>2, <1>4
    <3> QED
      BY <1>1, <1>3, <2>1, <3>1 DEF TriesAllInside, NearestAccepts
  <2> QED
    BY <1>1, <2>1, <2>2, <2>3 DEF WalkIInv, treeVars
<1>5. CASE c # no_element
  <2>1. /\ tried' = tried \cup {c}
        /\ IF c \in accepts
           THEN focused_element' = c /\ pc' = "done" /\ result' = TRUE /\ current' = c
           ELSE current' = GetNextDeep(c, r) /\ UNCHANGED <<focused_element, pc, result>>
    BY <1>5 DEF SearchNext, Returns
  <2>2. c \notin tried /\ c \in r + 1..last /\ c \in r..last /\ c \in Node /\ tried \subseteq r..last
    BY <1>1, <1>2, <1>5
  <2>3. tried' # tried
    BY <2>1, <2>2
  <2>4. CASE c \in accepts
    <3>1. WalkTypeOK'
      BY <1>1, <2>1, <2>2, <2>4 DEF WalkIInv, WalkTypeOK, treeVars
    <3>2. ASSUME NEW e \in (accepts \cap (r..last)) \ {origin, r}
          PROVE  c <= e
      <4>1. e \notin tried /\ e \in r..last /\ e # r
        BY <1>2
      <4> QED
        BY <1>1, <1>2, <2>2, <4>1
    <3>3. TriesAllInside'
      BY <1>1, <1>3, <2>1, <2>2, <2>4 DEF TriesAllInside
    <3>4. NearestAccepts'
      <4>1. origin' = no_element /\ focused_element' = c /\ accepts' = accepts /\ root' = r
        BY <1>1, <2>1, <2>4 DEF treeVars
      <4>2. \A e \in (accepts' \cap Inside(root)') \ {origin', root'} : focused_element' <= e
        BY <1>1, <1>3, <3>2, <4>1
      <4> HIDE DEF r, c
      <4> QED
        BY <4>1, <4>2 DEF NearestAccepts
    <3> QED
      BY <1>1, <2>1, <2>3, <2>4, <3>1, <3>3, <3>4 DEF WalkIInv, treeVars
  <2>5. CASE c \notin accepts
    <3>1. GetNextDeep(c, r) = IF c < last THEN c + 1 ELSE no_element
      <4>1. \A e \in 1..N : r \in Anc(e) <=> e \in r..last
        <5>1. r # no_element /\ \A e \in 1..N : e # no_element
          BY <1>1
        <5>2. \A e \in 1..N : e \in Inside(r) <=> r \in Anc(e)
          BY <1>1, <5>1, IsAncestor DEF Inside
        <5> QED
          BY <1>1, <5>2
      <4>2. r \in Anc(c) /\ c \in 1..N /\ r # no_element
        BY <1>1, <2>2, <4>1
      <4>3. GetNextDeep(c, r) = IF c < N /\ r \in Anc(c + 1) THEN c + 1 ELSE no_element
        BY <1>1, <4>2, NextDeep
      <4>4. c < N => c + 1 \in 1..N
        BY <1>1, <4>2
      <4>5. c < N /\ r \in Anc(c + 1) <=> c < last
        BY <1>1, <2>2, <4>1, <4>4
      <4> QED
        BY <4>3, <4>5
    <3>2. /\ current' = IF c < last THEN c + 1 ELSE no_element
          /\ UNCHANGED <<focused_element, pc, result>>
      BY <2>1, <2>5, <3>1
    <3>3. /\ current' \in ((r..last) \ {r}) \cup {no_element} /\ current' \in Node \cup {no_element}
          /\ c + 1 # no_element \/ ~(c < last)
      BY <1>1, <1>2, <2>2, <3>2
    <3>4. tried' = {e \in r..last : r < e /\ (current' # no_element => e < current')}
      <4>1. CASE c < last
        BY <1>1, <1>2, <1>5, <2>1, <2>2, <3>2, <3>3, <4>1
      <4>2. CASE ~(c < last)
        BY <1>1, <1>2, <1>5, <2>1, <2>2, <3>2, <4>2
      <4> QED
        BY <4>1, <4>2
    <3>5. tried' \cap accepts' = {}
      BY <1>1, <1>2, <2>1, <2>5 DEF treeVars
    <3>6. Searching'
      BY <1>1, <1>3, <3>3, <3>4, <3>5 DEF Searching
    <3>7. WalkTypeOK'
      BY <1>1, <2>1, <2>2, <3>2, <3>3 DEF WalkIInv, WalkTypeOK, treeVars
    <3>8. TriesAllInside' /\ NearestAccepts'
      BY <1>1, <1>3, <2>1, <2>2, <3>2 DEF TriesAllInside, NearestAccepts
    <3> QED
      BY <1>1, <2>3, <3>2, <3>6, <3>7, <3>8 DEF WalkIInv, treeVars
  <2> QED
    BY <2>4, <2>5
<1> QED
  BY <1>4, <1>5

(* For any tree, any forms in it, any elements that refuse, and a focus that is
   in some element that is not a form: Tab and set_focus_recursive stay inside
   the form, ask every element there but none twice, and give the focus to the
   nearest that takes it (MoveFocus, GetNextDeep, GetPrevDeep, GetLastLeaf and
   set_focus_recursive of element.cc). *)
THEOREM TraversalSafe ==
  ASSUME FocusAssumption, ~Unfocused
  PROVE  WalkSpec => TraversalAgrees
<1>1. InitWalk => WalkIInv
  <2> SUFFICES ASSUME InitWalk
               PROVE  WalkIInv
    OBVIOUS
  <2>1. /\ parent \in [Node -> {no_element} \cup Node] /\ Tree(parent)
        /\ forms \subseteq Node \ {Root} /\ accepts \subseteq Node
        /\ focused_element \in Node \ (forms \cup {Root})
        /\ pc = "idle" /\ root = no_element /\ origin = no_element /\ current = no_element /\ forward = TRUE
        /\ tried = {} /\ result = FALSE
    BY DEF InitWalk
  <2>2. WalkTypeOK
    BY <2>1 DEF WalkTypeOK
  <2>3. TriesAllInside /\ NearestAccepts
    BY <2>1 DEF TriesAllInside, NearestAccepts
  <2> QED
    BY <2>1, <2>2, <2>3 DEF WalkIInv, Waiting
<1>2. WalkIInv /\ [WalkNext]_walkVars => WalkIInv'
  <2> SUFFICES ASSUME WalkIInv, [WalkNext]_walkVars
               PROVE  WalkIInv'
    OBVIOUS
  <2>1. ASSUME NEW fwd \in BOOLEAN, MoveFocus(fwd)
        PROVE  WalkIInv'
    BY <2>1, MoveFocusStep
  <2>2. ASSUME NEW form \in forms, SetFocusRecursive(form)
        PROVE  WalkIInv'
    BY <2>2, SetFocusRecursiveStep
  <2>3. CASE MoveFocusNext
    BY <2>3, MoveFocusNextStep
  <2>4. CASE SearchNext
    BY <2>4, SearchNextStep
  <2>5. CASE UNCHANGED walkVars
    BY <2>5 DEF walkVars, treeVars, WalkIInv, WalkTypeOK, TriesAllInside, NearestAccepts, Distance, Inside, IsAncestorOf,
                Waiting, Moving, Searching, Steps, LastInside
  <2>6. CASE Done
    BY <2>5, <2>6 DEF Done
  <2> QED
    BY <2>1, <2>2, <2>3, <2>4, <2>5, <2>6 DEF WalkNext
<1>3. WalkIInv => WalkTypeOK /\ TriesAllInside /\ NearestAccepts
  BY DEF WalkIInv
<1>4. WalkIInv /\ [WalkNext]_walkVars => [MoveFocusNext \/ SearchNext => pc' = "done" \/ tried' # tried]_walkVars
  BY MoveFocusNextStep, SearchNextStep
<1> QED
  BY <1>1, <1>2, <1>3, <1>4, PTL DEF WalkSpec, TraversalAgrees, AsksOnce
=============================================================================
