------------------------ MODULE ElementEventsProofs -------------------------
(***************************************************************************)
(* Proofs about ElementEvents, for any elements, any tree and any number   *)
(* of calls by the program.  What the operators do to the statics is       *)
(* stated for any s, and what is on the stack, frame by frame.             *)
(***************************************************************************)
EXTENDS ElementEvents, ListLemmas

Frames ==
  [op : {"listen", "event", "unfocused", "focused", "down", "up", "release", "long_click", "context",
         "auto_click", "move", "tab", "remove"},
   el : Element \cup {NULL}, at : Element \cup Position \cup {NULL},
   type : {"any", "click", "long_click", "delete", "remove"}]

Statics ==
  [hovered : Element \cup {NULL}, captured : Element \cup {NULL}, focused : Element \cup {NULL},
   cancel_click : BOOLEAN, pointer_move : Position \cup {CHOOSE p \in Position : TRUE},
   long_click : SUBSET Element, auto_click : [Element -> Nat], late : SUBSET Element,
   panning : SUBSET Element,
   started : SUBSET Element, scrolling : SUBSET Element, pressed : SUBSET Element, key_pressed : SUBSET Element,
   check_pressed : BOOLEAN, had_pressed : BOOLEAN]

(* The timers are those of the captured element, but for the buttons that
   posted a repeated click late. *)
Timed(s) ==
  /\ s.long_click \subseteq {s.captured}
  /\ \A e \in Element \ s.late : s.auto_click[e] = 0 \/ (s.auto_click[e] = 1 /\ e = s.captured)
  /\ \A e \in Element \ AutoRepeat : s.auto_click[e] = 0

(* No message of these is pending that a repeated click under way would add to. *)
Calm(s) == s.late \cup {e \in Element : s.auto_click[e] = 0}

(* The library remembers only what exists. *)
Remembers(s, alive) ==
  /\ s \in Statics
  /\ {s.hovered, s.captured, s.focused} \subseteq alive \cup {NULL}
  /\ s.long_click \cup s.started \cup s.panning \subseteq alive
  /\ \A e \in Element \ alive : s.auto_click[e] = 0
  /\ s.key_pressed \subseteq {s.focused}
  /\ Timed(s)

(* No element has two parents, and what exists has no child that does not. *)
TreeAgrees ==
  /\ children \in [Element -> Seq(Element)] /\ exists \subseteq Element /\ disabled \subseteq Element
  /\ \A p \in Element : ToSet(children[p]) \subseteq exists
  /\ \A p \in Element \ exists : ToSet(children[p]) = {}
  /\ \A p, q \in Element : p # q => ToSet(children[p]) \cap ToSet(children[q]) = {}

(* The root is a form: it has no parent, and handlers do not delete it. *)
Rooted == Root \in exists \ dying /\ \A p \in Element : Root \notin ToSet(children[p])

(* What is known of a press, while something is captured *)
Pressing(s, p) ==
  /\ p \in [el : Element \cup {NULL}, quiet : BOOLEAN]
  /\ s.captured # NULL => p.el = s.captured /\ p.quiet = s.cancel_click

(* Who has the focus was told so, or is about to be, and the root is not
   removed. *)
Tells(t, who, focused) ==
  /\ who \subseteq {focused} \ {NULL}
  /\ \/ focused \in who \cup {NULL}
     \/ \E i \in DOMAIN t : t[i].op = "unfocused" /\ t[i].el = focused
  /\ \A i \in DOMAIN t : (t[i].op = "unfocused" => t[i].el # NULL) /\ (t[i].op = "remove" => t[i].el # Root)

(* A repeated click is the outermost call, and its message has gone. *)
Holds(t, calm) == \A i \in DOMAIN t : t[i].op = "auto_click" => i = 1 /\ t[i].el \in calm \cap AutoRepeat

(* The calls under way, what the last one returned, and what they rely on *)
Running(t, r, who, focused, calm) ==
  /\ t \in Seq(Frames) /\ r \in BOOLEAN
  /\ Tells(t, who, focused)
  /\ Holds(t, calm)

(* The inductive invariant *)
IInv ==
  /\ Running(stack, result, told, st.focused, Calm(st))
  /\ TreeAgrees /\ Rooted /\ Remembers(st, exists) /\ Pressing(st, press)

-----------------------------------------------------------------------------
(* The constants, in the words the proofs use *)
LEMMA Constants ==
  /\ Root \in Element /\ NULL \notin Element
  /\ Focusable \subseteq Element /\ LongClickable \subseteq Element /\ AutoRepeat \subseteq Element
  /\ Scrollable \subseteq Element
  BY EventsAssumption

(* The stack and its top *)
LEMMA TopProperties ==
  ASSUME NEW t \in Seq(Frames), t # <<>>
  PROVE  /\ Len(t) \in Nat \ {0} /\ DOMAIN t = 1 .. Len(t) /\ Last(t) = t[Len(t)] /\ Last(t) \in Frames
         /\ Front(t) \in Seq(Frames) /\ Len(Front(t)) = Len(t) - 1 /\ DOMAIN Front(t) = 1 .. Len(t) - 1
         /\ \A i \in 1 .. Len(t) - 1 : Front(t)[i] = t[i]
<1>1. Len(t) \in Nat \ {0} /\ DOMAIN t = 1 .. Len(t) /\ Last(t) = t[Len(t)] /\ t[Len(t)] \in Frames
  BY DEF Last
<1>2. Len(t) - 1 \in Nat /\ \A i \in 1 .. Len(t) - 1 : t[i] \in Frames /\ i \in 1 .. Len(t)
  BY <1>1
<1>3. Front(t) = [i \in 1 .. Len(t) - 1 |-> t[i]]
  BY <1>1 DEF Front
<1>4. Front(t) \in Seq(Frames) /\ Len(Front(t)) = Len(t) - 1
  BY <1>2, <1>3
<1> QED
  BY <1>1, <1>3, <1>4

(* A call that begins: the stack with one frame more *)
LEMMA PushProperties ==
  ASSUME NEW t \in Seq(Frames), NEW f \in Frames
  PROVE  LET u == Append(t, f)
         IN  /\ u \in Seq(Frames) /\ u # <<>> /\ Len(u) = Len(t) + 1 /\ Len(t) \in Nat
             /\ DOMAIN u = 1 .. Len(t) + 1 /\ DOMAIN t = 1 .. Len(t)
             /\ u[Len(t) + 1] = f /\ Last(u) = f /\ Front(u) = t
             /\ \A i \in 1 .. Len(t) : u[i] = t[i]
<1> DEFINE u == Append(t, f)
<1>1. u \in Seq(Frames) /\ Len(u) = Len(t) + 1 /\ Len(t) \in Nat /\ u[Len(t) + 1] = f
  OBVIOUS
<1>2. \A i \in 1 .. Len(t) : u[i] = t[i]
  OBVIOUS
<1>3. DOMAIN u = 1 .. Len(t) + 1 /\ DOMAIN t = 1 .. Len(t) /\ u # <<>> /\ Last(u) = f
  BY <1>1 DEF Last
<1> HIDE DEF u
<1>4. /\ Front(u) \in Seq(Frames) /\ Len(Front(u)) = Len(u) - 1 /\ DOMAIN Front(u) = 1 .. Len(u) - 1
      /\ \A i \in 1 .. Len(u) - 1 : Front(u)[i] = u[i]
  BY <1>1, <1>3, TopProperties
<1>5. Len(Front(u)) = Len(t) /\ \A i \in 1 .. Len(t) : Front(u)[i] = t[i]
  BY <1>1, <1>2, <1>4
<1>6. Front(u) = t
  BY <1>4, <1>5
<1> QED
  BY <1>1, <1>2, <1>3, <1>6 DEF u

-----------------------------------------------------------------------------
(* What the operators on the stack keep of Tells and Holds *)

(* A call that returns is not the one that tells the focused element. *)
LEMMA PopTells ==
  ASSUME NEW t \in Seq(Frames), t # <<>>, NEW who, NEW focused, Tells(t, who, focused),
         Last(t).op = "unfocused" => Last(t).el # focused \/ focused \in who
  PROVE  Tells(Front(t), who, focused)
<1>1. /\ Len(t) \in Nat \ {0} /\ DOMAIN t = 1 .. Len(t) /\ Last(t) = t[Len(t)]
      /\ DOMAIN Front(t) = 1 .. Len(t) - 1 /\ \A i \in 1 .. Len(t) - 1 : Front(t)[i] = t[i]
  BY TopProperties
<1>2. ASSUME NEW i \in DOMAIN t, t[i].op = "unfocused", t[i].el = focused, focused \notin who
      PROVE  i \in DOMAIN Front(t) /\ Front(t)[i] = t[i]
  <2>1. i # Len(t)
    BY <1>1, <1>2
  <2> QED
    BY <1>1, <2>1
<1>3. \A i \in DOMAIN Front(t) : i \in DOMAIN t /\ Front(t)[i] = t[i]
  BY <1>1
<1>4. focused \in who \cup {NULL} \/ \E i \in DOMAIN Front(t) : Front(t)[i].op = "unfocused" /\ Front(t)[i].el = focused
  BY <1>2 DEF Tells
<1> QED
  BY <1>3, <1>4 DEF Tells

(* A call that begins, unless it is one of set_focus or a removal of
   the root, keeps what is known of who was told. *)
LEMMA PushTells ==
  ASSUME NEW t \in Seq(Frames), NEW f \in Frames, NEW who, NEW focused, Tells(t, who, focused),
         f.op = "unfocused" => f.el # NULL, f.op = "remove" => f.el # Root
  PROVE  Tells(Append(t, f), who, focused)
  BY PushProperties DEF Tells

(* A call that returns, and one that begins *)
LEMMA PopHolds ==
  ASSUME NEW t \in Seq(Frames), t # <<>>, NEW calm, Holds(t, calm)
  PROVE  Holds(Front(t), calm)
<1>1. /\ Len(t) \in Nat \ {0} /\ DOMAIN t = 1 .. Len(t)
      /\ DOMAIN Front(t) = 1 .. Len(t) - 1 /\ \A i \in 1 .. Len(t) - 1 : Front(t)[i] = t[i]
  BY TopProperties
<1>2. \A i \in DOMAIN Front(t) : i \in DOMAIN t /\ Front(t)[i] = t[i]
  BY <1>1
<1> QED
  BY <1>2 DEF Holds

LEMMA PushHolds ==
  ASSUME NEW t \in Seq(Frames), NEW f \in Frames, NEW calm, Holds(t, calm),
         f.op = "auto_click" => t = <<>> /\ f.el \in calm \cap AutoRepeat
  PROVE  Holds(Append(t, f), calm)
<1> DEFINE u == Append(t, f)
<1>1. /\ Len(t) \in Nat /\ DOMAIN u = 1 .. Len(t) + 1 /\ DOMAIN t = 1 .. Len(t)
      /\ u[Len(t) + 1] = f /\ \A i \in 1 .. Len(t) : u[i] = t[i]
  BY PushProperties
<1> HIDE DEF u
<1>2. ASSUME NEW i \in DOMAIN u, u[i].op = "auto_click"
      PROVE  i = 1 /\ u[i].el \in calm \cap AutoRepeat
  <2>1. CASE i = Len(t) + 1
    <3>1. t = <<>> /\ f.el \in calm \cap AutoRepeat
      BY <1>1, <1>2, <2>1
    <3> QED
      BY <1>1, <2>1, <3>1
  <2>2. CASE i # Len(t) + 1
    BY <1>1, <1>2, <2>2 DEF Holds
  <2> QED
    BY <2>1, <2>2
<1> QED
  BY <1>2 DEF Holds, u

(* Running, when the last call returns *)
LEMMA Popped ==
  ASSUME NEW t, t # <<>>, NEW r, NEW r2 \in BOOLEAN, NEW who, NEW focused, NEW calm,
         Running(t, r, who, focused, calm),
         Last(t).op = "unfocused" => Last(t).el # focused \/ focused \in who
  PROVE  Running(Front(t), r2, who, focused, calm)
<1>1. t \in Seq(Frames) /\ Front(t) \in Seq(Frames)
  BY TopProperties DEF Running
<1>2. Tells(Front(t), who, focused)
  BY <1>1, PopTells DEF Running
<1>3. Holds(Front(t), calm)
  BY <1>1, PopHolds DEF Running
<1> QED
  BY <1>1, <1>2, <1>3 DEF Running

(* Running, when a call begins *)
LEMMA Pushed ==
  ASSUME NEW t, NEW f \in Frames, NEW r, NEW r2 \in BOOLEAN, NEW who, NEW focused, NEW calm,
         Running(t, r, who, focused, calm),
         f.op = "unfocused" => f.el # NULL, f.op = "remove" => f.el # Root,
         f.op = "auto_click" => t = <<>> /\ f.el \in calm \cap AutoRepeat
  PROVE  Running(Append(t, f), r2, who, focused, calm)
<1>1. t \in Seq(Frames) /\ Append(t, f) \in Seq(Frames)
  BY PushProperties DEF Running
<1>2. Tells(Append(t, f), who, focused)
  BY <1>1, PushTells DEF Running
<1>3. Holds(Append(t, f), calm)
  BY <1>1, PushHolds DEF Running
<1> QED
  BY <1>1, <1>2, <1>3 DEF Running

(* Running, when more is calm and others were told *)
LEMMA Freed ==
  ASSUME NEW t, NEW r, NEW r2 \in BOOLEAN, NEW who, NEW focused, NEW calm,
         NEW who2, NEW focused2, NEW calm2,
         Running(t, r, who, focused, calm), Tells(t, who2, focused2), calm \subseteq calm2
  PROVE  Running(t, r2, who2, focused2, calm2)
  BY DEF Running, Holds

-----------------------------------------------------------------------------
(* The tree *)

(* The least set: it holds where it starts, is closed, and is in every other
   such set. *)
LEMMA ReachedProperties ==
  ASSUME NEW from, from \subseteq exists, NEW next, \A y \in exists : next[y] \subseteq exists
  PROVE  LET set == Reached(from, next)
         IN  /\ from \subseteq set /\ set \subseteq exists
             /\ \A y \in set : next[y] \subseteq set
             /\ \A other \in SUBSET exists :
                  from \subseteq other /\ (\A y \in other : next[y] \subseteq other) => set \subseteq other
<1> DEFINE set == Reached(from, next)
           Closed(other) == from \subseteq other /\ \A y \in other : next[y] \subseteq other
<1>1. \A x : x \in set <=> x \in exists /\ \A other \in SUBSET exists : Closed(other) => x \in other
  BY DEF Reached
<1>2. from \subseteq set /\ set \subseteq exists
  BY <1>1
<1>3. \A y \in set : next[y] \subseteq set
  <2>1. SUFFICES ASSUME NEW y \in set, NEW x \in next[y]
                 PROVE  x \in set
    OBVIOUS
  <2>2. y \in exists /\ x \in exists
    BY <1>1, <2>1
  <2>3. ASSUME NEW other \in SUBSET exists, Closed(other)
        PROVE  x \in other
    <3>1. y \in other
      BY <1>1, <2>3
    <3> QED
      BY <2>3, <3>1
  <2> HIDE DEF Closed, set
  <2> QED
    BY <1>1, <2>2, <2>3
<1>4. \A other \in SUBSET exists : Closed(other) => set \subseteq other
  BY <1>1
<1> QED
  BY <1>2, <1>3, <1>4

(* A parent exists and has the child. *)
LEMMA ParentProperties ==
  ASSUME TreeAgrees, NEW e
  PROVE  /\ Parent(e) \in exists \cup {NULL}
         /\ Parent(e) # NULL => e \in ToSet(children[Parent(e)])
         /\ \A p \in exists : e \in ToSet(children[p]) => Parent(e) = p
<1> DEFINE parents == {p \in exists : \E i \in DOMAIN children[p] : children[p][i] = e}
<1>1. \A p \in exists : p \in parents <=> e \in ToSet(children[p])
  BY DEF ToSet
<1>2. parents = {} => Parent(e) = NULL
  BY DEF Parent
<1>3. parents # {} => Parent(e) \in parents
  BY DEF Parent
<1> HIDE DEF parents
<1>4. parents \subseteq exists
  BY DEF parents
<1>5. \A p, q \in parents : p = q
  <2>1. SUFFICES ASSUME NEW p \in parents, NEW q \in parents, p # q
                 PROVE  FALSE
    OBVIOUS
  <2>2. e \in ToSet(children[p]) \cap ToSet(children[q]) /\ p \in Element /\ q \in Element
    BY <1>1, <1>4 DEF TreeAgrees
  <2> QED
    BY <2>1, <2>2 DEF TreeAgrees
<1> QED
  BY <1>1, <1>2, <1>3, <1>4, <1>5

(* The ancestors of an element exist, and its own parent's are among them. *)
LEMMA AncestorsProperties ==
  ASSUME TreeAgrees, NEW e
  PROVE  /\ Ancestors(e) \subseteq exists
         /\ e \in exists => e \in Ancestors(e)
         /\ e \in exists /\ Parent(e) = NULL => Ancestors(e) = {e}
         /\ e \in exists /\ Parent(e) # NULL => Ancestors(e) \subseteq {e} \cup Ancestors(Parent(e))
<1> DEFINE next == [a \in exists |-> {Parent(a)} \ {NULL}]
<1>1. \A y \in exists : next[y] = {Parent(y)} \ {NULL} /\ next[y] \subseteq exists
  BY ParentProperties
<1>2. NULL \notin exists
  BY Constants DEF TreeAgrees
<1>3. \A a \in exists : Ancestors(a) = Reached({a}, next)
  BY <1>2 DEF Ancestors
<1>4. Ancestors(e) \subseteq exists
  BY DEF Ancestors, Reached
<1> HIDE DEF next
<1>5. \A a \in exists : /\ a \in Ancestors(a) /\ Ancestors(a) \subseteq exists
                        /\ \A y \in Ancestors(a) : next[y] \subseteq Ancestors(a)
                        /\ \A other \in SUBSET exists :
                             a \in other /\ (\A y \in other : next[y] \subseteq other) => Ancestors(a) \subseteq other
  <2>1. SUFFICES ASSUME NEW a \in exists
                 PROVE  /\ a \in Ancestors(a) /\ Ancestors(a) \subseteq exists
                        /\ \A y \in Ancestors(a) : next[y] \subseteq Ancestors(a)
                        /\ \A other \in SUBSET exists :
                             a \in other /\ (\A y \in other : next[y] \subseteq other) => Ancestors(a) \subseteq other
    OBVIOUS
  <2>2. {a} \subseteq exists /\ Ancestors(a) = Reached({a}, next)
    BY <1>3
  <2> QED
    BY <1>1, <2>2, ReachedProperties
<1>6. ASSUME e \in exists, Parent(e) = NULL
      PROVE  Ancestors(e) = {e}
  <2>1. next[e] = {}
    BY <1>1, <1>6
  <2>2. Ancestors(e) \subseteq {e}
    BY <1>5, <1>6, <2>1
  <2> QED
    BY <1>5, <1>6, <2>2
<1>7. ASSUME e \in exists, Parent(e) # NULL
      PROVE  Ancestors(e) \subseteq {e} \cup Ancestors(Parent(e))
  <2> DEFINE p == Parent(e)
             other == {e} \cup Ancestors(p)
  <2>1. p \in exists /\ next[e] = {p}
    BY <1>1, <1>7, ParentProperties
  <2>2. /\ p \in Ancestors(p) /\ Ancestors(p) \subseteq exists
        /\ \A y \in Ancestors(p) : next[y] \subseteq Ancestors(p)
    BY <1>5, <2>1
  <2>3. other \in SUBSET exists /\ e \in other /\ \A y \in other : next[y] \subseteq other
    BY <1>7, <2>1, <2>2
  <2> QED
    BY <1>5, <1>7, <2>3
<1> QED
  BY <1>4, <1>5, <1>6, <1>7

(* The nearest of some is one of them. *)
LEMMA NearestProperties ==
  ASSUME TreeAgrees, NEW e, NEW set
  PROVE  Nearest(e, set) \in (exists \cap set) \cup {NULL}
<1> DEFINE around == Ancestors(e) \cap set
           nearest == {a \in around : around \subseteq Ancestors(a)}
<1>1. nearest \subseteq exists \cap set
  BY AncestorsProperties
<1>2. nearest = {} => Nearest(e, set) = NULL
  BY DEF Nearest
<1>3. nearest # {} => Nearest(e, set) \in nearest
  BY DEF Nearest
<1> HIDE DEF nearest
<1> QED
  BY <1>1, <1>2, <1>3

(* What the pointer is over exists, and while the root does it is enabled. *)
LEMMA ElementAt ==
  ASSUME TreeAgrees, NEW pos
  PROVE  /\ GetElementAt(pos) \in exists \cup {NULL}
         /\ Root \in exists => GetElementAt(pos) \notin disabled
<1> DEFINE hit(e) == {i \in DOMAIN children[e] : GetHitStatus(children[e][i], pos)}
           last == [e \in exists |-> {children[e][i] : i \in {i \in hit(e) : \A j \in hit(e) : j <= i}}]
           next == [e \in exists |-> IF e \in AutoRepeat THEN {} ELSE last[e]]
           deepest == {e \in Reached({Root}, next) \ {Root} : next[e] = {}}
<1>1. deepest = {} => GetElementAt(pos) = NULL
  BY DEF GetElementAt
<1>2. deepest # {} => GetElementAt(pos) \in deepest
  BY DEF GetElementAt
<1>3. deepest \subseteq exists
  BY DEF Reached
<1>4. ASSUME Root \in exists
      PROVE  deepest \cap disabled = {}
  <2> DEFINE other == {Root} \cup (exists \ disabled)
  <2>1. \A e \in exists : \A x \in next[e] : x \in exists \ disabled
    <3>1. SUFFICES ASSUME NEW e \in exists, NEW i \in hit(e)
                   PROVE  children[e][i] \in exists \ disabled
      OBVIOUS
    <3>2. children[e][i] \in ToSet(children[e])
      BY <3>1 DEF ToSet
    <3>3. e \in Element
      BY DEF TreeAgrees
    <3>4. GetHitStatus(children[e][i], pos)
      BY <3>1
    <3> QED
      BY <3>2, <3>3, <3>4 DEF TreeAgrees, GetHitStatus, is_interactable
  <2> HIDE DEF next
  <2>2. \A y \in exists : next[y] \subseteq exists
    BY <2>1
  <2>3. other \in SUBSET exists /\ {Root} \subseteq other /\ \A y \in other : next[y] \subseteq other
    BY <1>4, <2>1
  <2>4. {Root} \subseteq exists
    BY <1>4
  <2> HIDE DEF other
  <2>5. Reached({Root}, next) \subseteq other
    BY <2>2, <2>3, <2>4, ReachedProperties
  <2> QED
    BY <2>5 DEF other
<1> HIDE DEF deepest
<1>5. NULL \notin disabled
  BY Constants DEF TreeAgrees
<1> QED
  BY <1>1, <1>2, <1>3, <1>4, <1>5

(* The focus moves to an element that exists. *)
LEMMA TargetExists == MoveFocusTarget \in exists \cup {NULL}
<1> DEFINE from == IF st.focused = NULL THEN Root ELSE st.focused
           taking == {e \in exists \ {from} : /\ Parent(e) # NULL /\ Ancestors(e) \cap Ancestors(from) # {}
                                             /\ TakesFocus(e)}
           after == {e \in taking : Precedes(from, e)}
           among == IF after # {} THEN after ELSE taking
           first == {e \in among : \A other \in among \ {e} : Precedes(e, other)}
<1>1. first = {} => MoveFocusTarget = NULL
  BY DEF MoveFocusTarget
<1>2. first # {} => MoveFocusTarget \in first
  BY DEF MoveFocusTarget
<1>3. first \subseteq exists
  OBVIOUS
<1> HIDE DEF first
<1> QED
  BY <1>1, <1>2, <1>3

(* Without e, and then with e added to one element, the tree is one still. *)
LEMMA Unlinked ==
  ASSUME TreeAgrees, NEW e
  PROVE  /\ Unlink(e) \in [Element -> Seq(Element)]
         /\ \A p \in Element : ToSet(Unlink(e)[p]) = ToSet(children[p]) \ {e}
<1>1. SUFFICES ASSUME NEW p \in Element
               PROVE  /\ Without(children[p], {e}) \in Seq(Element)
                      /\ ToSet(Without(children[p], {e})) = ToSet(children[p]) \ {e}
  BY DEF Unlink
<1>2. children[p] \in Seq(Element)
  BY DEF TreeAgrees
<1> QED
  BY <1>2, WithoutProperties

(* A subtree goes as a whole: what is not in it has no child in it but e. *)
LEMMA DeepProperties ==
  ASSUME TreeAgrees, NEW e
  PROVE  /\ Deep(e) \subseteq exists
         /\ \A p \in exists \ Deep(e) : \A c \in ToSet(children[p]) \ {e} : c \notin Deep(e)
         /\ Rooted /\ e # Root => Root \notin Deep(e)
<1>1. Deep(e) \subseteq exists
  BY DEF Deep
<1>2. ASSUME NEW p \in exists \ Deep(e), NEW c \in ToSet(children[p]) \ {e}, c \in Deep(e)
      PROVE  FALSE
  <2>1. c \in exists /\ Parent(c) = p /\ p # NULL
    BY <1>2, ParentProperties, Constants DEF TreeAgrees
  <2>2. e \in Ancestors(c) /\ e \notin Ancestors(p)
    BY <1>2 DEF Deep
  <2> QED
    BY <1>2, <2>1, <2>2, AncestorsProperties
<1>3. ASSUME Rooted, e # Root, Root \in Deep(e)
      PROVE  FALSE
  <2>1. Root \in exists /\ e \in Ancestors(Root)
    BY <1>3 DEF Deep, Rooted
  <2>2. Parent(Root) = NULL
    BY <1>3, ParentProperties DEF Rooted, TreeAgrees
  <2>3. Ancestors(Root) = {Root}
    BY <2>1, <2>2, AncestorsProperties
  <2> QED
    BY <1>3, <2>1, <2>3
<1> QED
  BY <1>1, <1>2, <1>3

(* RemoveChild and ~Element leave a tree. *)
LEMMA Detached ==
  ASSUME TreeAgrees, NEW e, NEW and_delete, Detach(e, and_delete)
  PROVE  TreeAgrees' /\ (Rooted /\ e # Root => Rooted')
<1>1. /\ Unlink(e) \in [Element -> Seq(Element)]
      /\ \A p \in Element : ToSet(Unlink(e)[p]) = ToSet(children[p]) \ {e}
  BY Unlinked
<1>2. CASE ~and_delete
  <2>1. children' = Unlink(e) /\ exists' = exists /\ disabled' = disabled /\ dying' = dying
    BY <1>2 DEF Detach
  <2> QED
    BY <1>1, <2>1 DEF TreeAgrees, Rooted
<1>3. CASE and_delete
  <2> DEFINE set == Deep(e)
  <2>1. /\ children' = [p \in Element |-> IF p \in set THEN <<>> ELSE Unlink(e)[p]]
        /\ exists' = exists \ set /\ disabled' = disabled \ set /\ dying' = dying \ set
    BY <1>3 DEF Detach, Delete, Gone
  <2>2. /\ set \subseteq exists
        /\ \A p \in exists \ set : \A c \in ToSet(children[p]) \ {e} : c \notin set
        /\ Rooted /\ e # Root => Root \notin set
    BY DeepProperties
  <2> HIDE DEF set
  <2>3. <<>> \in Seq(Element) /\ ToSet(<<>>) = {}
    BY DEF ToSet
  <2>4. children' \in [Element -> Seq(Element)]
    BY <1>1, <2>1, <2>3
  <2>5. \A p \in Element : ToSet(children'[p]) = IF p \in set THEN {} ELSE ToSet(children[p]) \ {e}
    BY <1>1, <2>1, <2>3
  <2>6. ASSUME NEW p \in Element
        PROVE  ToSet(children'[p]) \subseteq exists' /\ (p \notin exists' => ToSet(children'[p]) = {})
    <3>1. CASE p \in set
      BY <2>5, <3>1
    <3>2. CASE p \notin exists
      BY <2>2, <2>5, <3>2 DEF TreeAgrees
    <3>3. CASE p \in exists \ set
      <4>1. e \notin ToSet(children'[p]) /\ ToSet(children'[p]) = ToSet(children[p]) \ {e}
        BY <2>5, <3>3
      <4>2. ToSet(children[p]) \subseteq exists
        BY DEF TreeAgrees
      <4> QED
        BY <2>1, <2>2, <3>3, <4>1, <4>2
    <3> QED
      BY <3>1, <3>2, <3>3
  <2>7. ASSUME NEW p \in Element, NEW q \in Element, p # q
        PROVE  ToSet(children'[p]) \cap ToSet(children'[q]) = {}
    <3>1. ToSet(children[p]) \cap ToSet(children[q]) = {}
      BY <2>7 DEF TreeAgrees
    <3> QED
      BY <2>5, <3>1
  <2>8. TreeAgrees'
    BY <2>1, <2>4, <2>6, <2>7 DEF TreeAgrees
  <2>9. Rooted /\ e # Root => Rooted'
    BY <2>1, <2>2, <2>5 DEF Rooted
  <2> QED
    BY <2>8, <2>9
<1> QED
  BY <1>2, <1>3

(* An element that has no parent may become a child of any other. *)
LEMMA Linked ==
  ASSUME TreeAgrees, NEW e \in exists, NEW p \in exists, NEW linked \in [Element -> Seq(Element)],
         \A q \in Element : ToSet(linked[q]) = ToSet(children[q]) \ {e},
         children' = [linked EXCEPT ![p] = Append(@, e)], UNCHANGED <<exists, dying, disabled>>
  PROVE  TreeAgrees' /\ (Rooted /\ e # Root => Rooted')
<1>1. e \in Element /\ p \in Element
  BY DEF TreeAgrees
<1>2. /\ Append(linked[p], e) \in Seq(Element)
      /\ ToSet(Append(linked[p], e)) = ToSet(linked[p]) \cup {e}
  BY <1>1, AppendedProperties
<1>3. children' \in [Element -> Seq(Element)]
  BY <1>1, <1>2
<1>4. \A q \in Element : ToSet(children'[q]) = IF q = p THEN (ToSet(children[q]) \ {e}) \cup {e} ELSE ToSet(children[q]) \ {e}
  BY <1>1, <1>2
<1>5. ASSUME NEW q \in Element, NEW r \in Element, q # r
      PROVE  ToSet(children'[q]) \cap ToSet(children'[r]) = {}
  <2>1. ToSet(children[q]) \cap ToSet(children[r]) = {}
    BY <1>5 DEF TreeAgrees
  <2> QED
    BY <1>4, <1>5, <2>1
<1>6. ASSUME NEW q \in Element
      PROVE  ToSet(children'[q]) \subseteq exists' /\ (q \notin exists' => ToSet(children'[q]) = {})
  <2>1. exists' = exists
    OBVIOUS
  <2>2. ToSet(children[q]) \subseteq exists /\ (q \notin exists => ToSet(children[q]) = {})
    BY DEF TreeAgrees
  <2> QED
    BY <1>4, <2>1, <2>2
<1>7. TreeAgrees'
  <2>1. exists' = exists /\ disabled' = disabled
    OBVIOUS
  <2> QED
    BY <1>3, <1>5, <1>6, <2>1 DEF TreeAgrees
<1>8. Rooted /\ e # Root => Rooted'
  <2>1. exists' = exists /\ dying' = dying
    OBVIOUS
  <2>2. ASSUME Rooted, e # Root, NEW q \in Element
        PROVE  Root \notin ToSet(children'[q])
    <3>1. Root \notin ToSet(children[q])
      BY <2>2 DEF Rooted
    <3>2. ToSet(children'[q]) \subseteq ToSet(children[q]) \cup {e}
      BY <1>4
    <3> QED
      BY <2>2, <3>1, <3>2
  <2> QED
    BY <2>1, <2>2 DEF Rooted
<1> QED
  BY <1>7, <1>8

-----------------------------------------------------------------------------
(* What the operators on the statics keep of Remembers *)

(* A scroller that stops: the capture, the focus and the timers are kept. *)
LEMMA StopKeeps ==
  ASSUME NEW s, NEW alive, Remembers(s, alive), NEW e
  PROVE  /\ Remembers(Stop(s, e), alive)
         /\ Stop(s, e).captured = s.captured /\ Stop(s, e).focused = s.focused
         /\ Stop(s, e).cancel_click = s.cancel_click /\ Calm(Stop(s, e)) = Calm(s)
  BY DEF Stop, Remembers, Statics, Timed, Calm

(* A message more or less of e *)
LEMMA Messages ==
  ASSUME NEW s \in Statics, NEW e \in Element
  PROVE  /\ Post(s, e) \in Statics /\ DeleteMessage(s, e) \in Statics
         /\ \A t \in {Post(s, e), DeleteMessage(s, e)} :
              /\ t.hovered = s.hovered /\ t.captured = s.captured /\ t.focused = s.focused
              /\ t.cancel_click = s.cancel_click /\ t.key_pressed = s.key_pressed /\ t.late = s.late
              /\ t.long_click = s.long_click /\ t.panning = s.panning /\ t.started = s.started
         /\ \A x \in Element : Post(s, e).auto_click[x] = IF x = e THEN s.auto_click[x] + 1 ELSE s.auto_click[x]
         /\ \A x \in Element : DeleteMessage(s, e).auto_click[x] =
              IF x = e /\ s.auto_click[x] # 0 THEN s.auto_click[x] - 1 ELSE s.auto_click[x]
<1>1. s.auto_click \in [Element -> Nat]
  BY DEF Statics
<1> DEFINE more == [s.auto_click EXCEPT ![e] = @ + 1]
           less == [s.auto_click EXCEPT ![e] = IF @ = 0 THEN 0 ELSE @ - 1]
<1>2. more \in [Element -> Nat] /\ less \in [Element -> Nat]
  BY <1>1
<1>3. \A x \in Element : /\ more[x] = IF x = e THEN s.auto_click[x] + 1 ELSE s.auto_click[x]
                         /\ less[x] = IF x = e /\ s.auto_click[x] # 0 THEN s.auto_click[x] - 1 ELSE s.auto_click[x]
  BY <1>1
<1>4. Post(s, e) = [s EXCEPT !.auto_click = more] /\ DeleteMessage(s, e) = [s EXCEPT !.auto_click = less]
  BY DEF Post, DeleteMessage
<1> HIDE DEF more, less
<1>5. ASSUME NEW n \in [Element -> Nat]
      PROVE  LET t == [s EXCEPT !.auto_click = n]
             IN  /\ t \in Statics /\ t.auto_click = n
                 /\ t.hovered = s.hovered /\ t.captured = s.captured /\ t.focused = s.focused
                 /\ t.cancel_click = s.cancel_click /\ t.key_pressed = s.key_pressed /\ t.late = s.late
                 /\ t.long_click = s.long_click /\ t.panning = s.panning /\ t.started = s.started
  BY DEF Statics
<1> QED
  BY <1>2, <1>3, <1>4, <1>5

(* What LeaveCapture makes of s *)
CaptureLeft(s, l) ==
  /\ l \in Statics
  /\ l.hovered = s.hovered /\ l.captured = s.captured /\ l.focused = s.focused
  /\ l.cancel_click = s.cancel_click /\ l.key_pressed = s.key_pressed
  /\ l.long_click = s.long_click \ {s.captured} /\ l.late = s.late
  /\ \A e \in Element : l.auto_click[e] =
       IF e = s.captured /\ e \in AutoRepeat /\ s.auto_click[e] # 0 THEN s.auto_click[e] - 1 ELSE s.auto_click[e]
  /\ l.panning \subseteq s.panning /\ l.started \subseteq s.started

(* The end of a capture takes the timers of the captured element along,
   whether its scroller goes on by itself, stops, or there is none. *)
LEMMA LeaveCaptureProperties ==
  ASSUME NEW s \in Statics, s.captured # NULL, NEW fast \in BOOLEAN, TreeAgrees
  PROVE  CaptureLeft(s, LeaveCapture(s, fast))
<1> DEFINE e == s.captured
           scroller == FindStartedScroller(s, e)
           stopped == IF scroller = NULL THEN s
                      ELSE IF e \in s.panning THEN OnPanReleased(s, scroller, fast)
                      ELSE Stop(s, scroller)
           quiet == [stopped EXCEPT !.panning = @ \ {e}, !.long_click = @ \ {e}]
<1>1. LeaveCapture(s, fast) = OnCaptureChanged(quiet, e, FALSE)
  BY DEF LeaveCapture
<1>2. scroller \in Element \cup {NULL} /\ e \in Element
  BY NearestProperties DEF FindStartedScroller, Statics, TreeAgrees
<1> HIDE DEF scroller
<1>3. /\ stopped \in Statics /\ stopped.started \subseteq s.started
      /\ stopped.hovered = s.hovered /\ stopped.captured = s.captured /\ stopped.focused = s.focused
      /\ stopped.cancel_click = s.cancel_click /\ stopped.key_pressed = s.key_pressed
      /\ stopped.long_click = s.long_click /\ stopped.auto_click = s.auto_click /\ stopped.late = s.late /\ stopped.panning = s.panning
  <2>1. CASE stopped = s
    BY <2>1
  <2>2. CASE stopped = [s EXCEPT !.scrolling = @ \cup {scroller}] /\ scroller # NULL
    <3> HIDE DEF stopped
    <3> QED
      BY <1>2, <2>2 DEF Statics
  <2>3. CASE stopped = [s EXCEPT !.started = @ \ {scroller}, !.scrolling = @ \ {scroller}]
    <3> HIDE DEF stopped
    <3> QED
      BY <1>2, <2>3 DEF Statics
  <2> QED
    BY <2>1, <2>2, <2>3 DEF OnPanReleased, Stop
<1> HIDE DEF stopped
<1>4. /\ quiet \in Statics /\ quiet.started = stopped.started
      /\ quiet.hovered = stopped.hovered /\ quiet.captured = stopped.captured /\ quiet.focused = stopped.focused
      /\ quiet.cancel_click = stopped.cancel_click /\ quiet.key_pressed = stopped.key_pressed
      /\ quiet.long_click = stopped.long_click \ {e} /\ quiet.auto_click = stopped.auto_click /\ quiet.late = stopped.late
      /\ quiet.panning = stopped.panning \ {e}
  BY <1>3 DEF Statics
<1> HIDE DEF quiet
<1> DEFINE l == OnCaptureChanged(quiet, e, FALSE)
<1>5. /\ l \in Statics /\ l.started = quiet.started
      /\ l.hovered = quiet.hovered /\ l.captured = quiet.captured /\ l.focused = quiet.focused
      /\ l.cancel_click = quiet.cancel_click /\ l.key_pressed = quiet.key_pressed
      /\ l.long_click = quiet.long_click /\ l.panning = quiet.panning /\ l.late = quiet.late
      /\ \A x \in Element : l.auto_click[x] =
           IF x = e /\ x \in AutoRepeat /\ quiet.auto_click[x] # 0 THEN quiet.auto_click[x] - 1 ELSE quiet.auto_click[x]
  <2>1. e \in Element /\ quiet \in Statics
    BY <1>2, <1>4
  <2>2. CASE e \in AutoRepeat
    <3> DEFINE m == DeleteMessage(quiet, e)
    <3>1. l = m
      BY <2>2 DEF OnCaptureChanged
    <3>2. /\ m \in Statics /\ m.started = quiet.started
          /\ m.hovered = quiet.hovered /\ m.captured = quiet.captured /\ m.focused = quiet.focused
          /\ m.cancel_click = quiet.cancel_click /\ m.key_pressed = quiet.key_pressed
          /\ m.long_click = quiet.long_click /\ m.panning = quiet.panning /\ m.late = quiet.late
          /\ \A x \in Element : m.auto_click[x] =
               IF x = e /\ quiet.auto_click[x] # 0 THEN quiet.auto_click[x] - 1 ELSE quiet.auto_click[x]
      BY <2>1, Messages
    <3> HIDE DEF l, m, e
    <3> QED
      BY <2>2, <3>1, <3>2
  <2>3. CASE e \notin AutoRepeat
    <3>1. l = quiet
      BY <2>3 DEF OnCaptureChanged
    <3> HIDE DEF l, e
    <3> QED
      BY <2>1, <2>3, <3>1
  <2> QED
    BY <2>2, <2>3
<1> HIDE DEF l
<1>6. CaptureLeft(s, l)
  BY <1>3, <1>4, <1>5 DEF CaptureLeft
<1> QED
  BY <1>1, <1>6 DEF l

(* What SetCapturedElement makes of s *)
Captures(s, e, r) ==
  /\ r.focused = s.focused /\ r.hovered = s.hovered /\ r.key_pressed = s.key_pressed
  /\ r.captured = IF e \in disabled THEN s.captured ELSE e
  /\ r.cancel_click = IF s.captured = e \/ e \in disabled THEN s.cancel_click ELSE FALSE
  /\ e = NULL => Calm(s) \subseteq Calm(r)

(* The timers end with the capture, and nothing new is remembered but e. *)
LEMMA SetCapturedElementProperties ==
  ASSUME NEW s, NEW alive, Remembers(s, alive), alive \subseteq Element,
         NEW e \in alive \cup {NULL}, NEW fast \in BOOLEAN, TreeAgrees
  PROVE  Remembers(SetCapturedElement(s, e, fast), alive) /\ Captures(s, e, SetCapturedElement(s, e, fast))
<1> DEFINE left == IF s.captured = NULL THEN s ELSE LeaveCapture(s, fast)
           set == [left EXCEPT !.captured = e, !.cancel_click = FALSE]
           r == IF e = NULL THEN set ELSE OnCaptureChanged(set, e, TRUE)
<1>1. CASE s.captured = e \/ e \in disabled
  BY <1>1 DEF SetCapturedElement, Captures
<1>2. CASE ~(s.captured = e \/ e \in disabled)
  <2>1. SetCapturedElement(s, e, fast) = r
    BY <1>2 DEF SetCapturedElement
  <2>2. s \in Statics /\ e \in Element \cup {NULL} /\ NULL \notin Element
    BY Constants DEF Remembers
  <2>3. /\ left \in Statics /\ left.focused = s.focused /\ left.hovered = s.hovered
        /\ left.key_pressed = s.key_pressed /\ left.started \subseteq s.started /\ left.panning \subseteq s.panning
        /\ left.long_click = {} /\ left.late = s.late
        /\ \A x \in Element : /\ s.auto_click[x] = 0 => left.auto_click[x] = 0
                              /\ x \in s.late \/ left.auto_click[x] = 0
                              /\ left.auto_click[x] \in Nat
    <3>1. CASE s.captured = NULL
      <4>1. s.long_click \subseteq {NULL} /\ \A x \in Element : x \in s.late \/ s.auto_click[x] = 0
        BY <2>2, <3>1 DEF Timed, Remembers
      <4>2. s.long_click \subseteq Element /\ \A x \in Element : s.auto_click[x] \in Nat
        BY <2>2 DEF Statics
      <4> QED
        BY <2>2, <3>1, <4>1, <4>2
    <3>2. CASE s.captured # NULL
      <4> DEFINE l == LeaveCapture(s, fast)
      <4>1. CaptureLeft(s, l) /\ left = l
        BY <2>2, <3>2, LeaveCaptureProperties
      <4> HIDE DEF l, left
      <4>2. /\ s.long_click \subseteq {s.captured}
            /\ \A x \in Element \ s.late :
                 s.auto_click[x] = 0 \/ (s.auto_click[x] = 1 /\ x = s.captured)
            /\ \A x \in Element \ AutoRepeat : s.auto_click[x] = 0
        BY DEF Timed, Remembers
      <4>3. \A x \in Element : s.auto_click[x] \in Nat /\ l.auto_click[x] \in Nat
        BY <2>2, <4>1 DEF Statics, CaptureLeft
      <4>4. ASSUME NEW x \in Element
            PROVE  /\ s.auto_click[x] = 0 => l.auto_click[x] = 0
                   /\ x \in s.late \/ l.auto_click[x] = 0
        BY <4>1, <4>2, <4>3 DEF CaptureLeft
      <4> QED
        BY <4>1, <4>2, <4>3, <4>4 DEF CaptureLeft
    <3> QED
      BY <3>1, <3>2
  <2> HIDE DEF left
  <2>4. /\ set \in Statics /\ set.focused = left.focused /\ set.hovered = left.hovered
        /\ set.key_pressed = left.key_pressed /\ set.started = left.started /\ set.panning = left.panning
        /\ set.long_click = left.long_click /\ set.auto_click = left.auto_click /\ set.late = left.late
        /\ set.captured = e /\ set.cancel_click = FALSE
    BY <2>2, <2>3 DEF Statics
  <2> HIDE DEF set
  <2>5. /\ r \in Statics /\ r.focused = set.focused /\ r.hovered = set.hovered
        /\ r.key_pressed = set.key_pressed /\ r.started = set.started /\ r.panning = set.panning
        /\ r.long_click = set.long_click /\ r.captured = e /\ r.cancel_click = FALSE
        /\ r.late = set.late
        /\ \A x \in Element : r.auto_click[x] =
             IF e \in AutoRepeat /\ x = e THEN set.auto_click[x] + 1 ELSE set.auto_click[x]
    <3>1. e # NULL => e \in Element
      BY <2>2
    <3>2. CASE e # NULL /\ e \in AutoRepeat
      <4>1. r = Post(set, e)
        BY <3>2 DEF OnCaptureChanged
      <4> HIDE DEF r
      <4> QED
        BY <2>4, <3>1, <3>2, <4>1, Messages
    <3>3. CASE e = NULL \/ e \notin AutoRepeat
      <4>1. r = set
        BY <3>3 DEF OnCaptureChanged
      <4> HIDE DEF r
      <4>2. ~(e \in AutoRepeat)
        BY <2>2, <3>3, Constants
      <4> QED
        BY <2>4, <4>1, <4>2
    <3> QED
      BY <3>2, <3>3
  <2> HIDE DEF r
  <2>6. Captures(s, e, r)
    <3>1. e = NULL => Calm(s) \subseteq Calm(r)
      BY <2>2, <2>3, <2>4, <2>5, Constants DEF Calm
    <3> QED
      BY <1>2, <2>3, <2>4, <2>5, <3>1 DEF Captures
  <2>7. Timed(r)
    <3>1. r.long_click = {} /\ r.late = s.late /\ r.captured = e
      BY <2>3, <2>4, <2>5
    <3>2. ASSUME NEW x \in Element \ s.late
          PROVE  r.auto_click[x] = 0 \/ (r.auto_click[x] = 1 /\ x = e)
      BY <2>3, <2>4, <2>5
    <3>3. ASSUME NEW x \in Element \ AutoRepeat
          PROVE  r.auto_click[x] = 0
      BY <2>3, <2>4, <2>5, <3>3 DEF Remembers, Timed
    <3> QED
      BY <3>1, <3>2, <3>3 DEF Timed
  <2>8. Remembers(r, alive)
    <3>1. ASSUME NEW x \in Element \ alive
          PROVE  r.auto_click[x] = 0
      <4>1. x # e
        BY <2>2
      <4> QED
        BY <2>3, <2>4, <2>5, <4>1 DEF Remembers
    <3> QED
      BY <2>2, <2>3, <2>4, <2>5, <2>7, <3>1 DEF Remembers
  <2> QED
    BY <2>1, <2>6, <2>8
<1> QED
  BY <1>1, <1>2

(* SetHoveredElement changes what is hovered only. *)
LEMMA SetHoveredElementProperties ==
  ASSUME NEW s, NEW alive, Remembers(s, alive), NEW e \in alive \cup {NULL}, alive \subseteq Element
  PROVE  LET r == SetHoveredElement(s, e)
         IN  /\ Remembers(r, alive) /\ r.captured = s.captured /\ r.focused = s.focused
             /\ r.cancel_click = s.cancel_click /\ Calm(r) = Calm(s)
  BY DEF SetHoveredElement, Remembers, Statics, Timed, Calm

(* The new element is about to be told, and the old one knows. *)
LEMMA SetFocusProperties ==
  ASSUME NEW s, Remembers(s, exists), TreeAgrees, NEW e \in exists, NEW base, NEW r \in BOOLEAN,
         Running(base, r, told, s.focused, Calm(s)),
         SetFocus(s, base, e)
  PROVE  /\ Remembers(st', exists)
         /\ Running(stack', r, told', st'.focused, Calm(st'))
         /\ st'.captured = s.captured /\ st'.cancel_click = s.cancel_click
<1> DEFINE f == Frame("unfocused", e, s.focused, "any")
           t == [s EXCEPT !.focused = e, !.pressed = @ \ (s.key_pressed \cap {s.focused}),
                          !.key_pressed = @ \ {s.focused}]
<1>1. /\ e \in Element /\ e # NULL /\ exists \subseteq Element /\ s \in Statics
      /\ s.focused \in Element \cup {NULL}
  BY Constants DEF TreeAgrees, Remembers, Statics
<1>2. st' = t /\ told' = told \ {s.focused} /\ stack' = Append(base, f)
  BY DEF SetFocus
<1>3. /\ t \in Statics /\ t.hovered = s.hovered /\ t.captured = s.captured /\ t.focused = e
      /\ t.cancel_click = s.cancel_click /\ t.key_pressed = s.key_pressed \ {s.focused}
      /\ t.long_click = s.long_click /\ t.auto_click = s.auto_click /\ t.late = s.late /\ t.panning = s.panning
      /\ t.started = s.started
  BY <1>1 DEF Statics
<1> HIDE DEF t
<1>4. Remembers(t, exists)
  BY <1>3 DEF Remembers, Timed
<1>5. f \in Frames /\ f.op = "unfocused" /\ f.el = e
  BY <1>1 DEF Frame, Frames
<1> HIDE DEF f
<1>6. base \in Seq(Frames) /\ told' = {}
  BY <1>2 DEF Running, Tells
<1> DEFINE u == Append(base, f)
<1>7. u \in Seq(Frames) /\ DOMAIN u = 1 .. Len(base) + 1 /\ DOMAIN base = 1 .. Len(base)
      /\ Len(base) \in Nat /\ u[Len(base) + 1] = f /\ \A i \in 1 .. Len(base) : u[i] = base[i]
  BY <1>5, <1>6, PushProperties
<1>8. Holds(u, Calm(s))
  BY <1>5, <1>6, PushHolds DEF Running
<1> HIDE DEF u
<1>9. Tells(u, {}, e)
  <2>1. Len(base) + 1 \in DOMAIN u
    BY <1>7
  <2>2. \E i \in DOMAIN u : u[i].op = "unfocused" /\ u[i].el = e
    BY <1>5, <1>7, <2>1
  <2>3. ASSUME NEW i \in DOMAIN u
        PROVE  (u[i].op = "unfocused" => u[i].el # NULL) /\ (u[i].op = "remove" => u[i].el # Root)
    <3>1. CASE i = Len(base) + 1
      BY <1>1, <1>5, <1>7, <3>1
    <3>2. CASE i # Len(base) + 1
      BY <1>7, <2>3, <3>2 DEF Running, Tells
    <3> QED
      BY <3>1, <3>2
  <2> QED
    BY <2>2, <2>3 DEF Tells
<1>10. Running(u, r, {}, e, Calm(t))
  BY <1>3, <1>7, <1>8, <1>9 DEF Running, Calm
<1> QED
  BY <1>2, <1>3, <1>4, <1>6, <1>10 DEF u

-----------------------------------------------------------------------------
(* What the calls and returns of the actions keep of Running *)

(* Return *)
LEMMA Returned ==
  ASSUME stack # <<>>, NEW r \in BOOLEAN, NEW s, NEW who, NEW focused, NEW calm,
         Running(stack, s, who, focused, calm), Return(r),
         Top.op = "unfocused" => Top.el # focused \/ focused \in who
  PROVE  Running(stack', result', who, focused, calm)
<1>1. Len(stack) \in Nat
  BY DEF Running
<1>2. stack' = Front(stack) /\ result' = (r /\ Len(stack) > 1) /\ result' \in BOOLEAN
  BY <1>1 DEF Return
<1> HIDE DEF Return
<1> QED
  BY <1>2, Popped DEF Top

(* Become *)
LEMMA Became ==
  ASSUME stack # <<>>, NEW f \in Frames, NEW r, NEW r2 \in BOOLEAN, NEW who, NEW focused, NEW calm,
         Running(stack, r, who, focused, calm), Become(f),
         Top.op = "unfocused" => focused \in who,
         f.op \notin {"unfocused", "remove", "auto_click"}
  PROVE  Running(stack', r2, who, focused, calm)
<1>1. Running(Front(stack), TRUE, who, focused, calm)
  BY Popped DEF Top
<1> QED
  BY <1>1, Pushed DEF Become

(* Who has the focus may be told. *)
LEMMA ToldNow ==
  ASSUME NEW t, NEW r, NEW who, NEW focused, focused # NULL, NEW calm,
         Running(t, r, who, focused, calm)
  PROVE  Running(t, r, who \cup {focused}, focused, calm)
  BY DEF Running, Tells

(* InvokeEvent *)
LEMMA Invoked ==
  ASSUME NEW base, NEW e \in Element \cup {NULL}, NEW type \in {"any", "click", "long_click"},
         NEW r, NEW r2 \in BOOLEAN, NEW who, NEW focused, NEW calm,
         Running(base, r, who, focused, calm), InvokeEvent(base, e, type)
  PROVE  Running(stack', r2, who, focused, calm)
<1> DEFINE f == Frame("listen", e, NULL, type)
<1>1. f \in Frames /\ f.op = "listen" /\ f.type = type
  BY DEF Frame, Frames
<1>3. stack' = Append(base, f)
  BY DEF InvokeEvent
<1> HIDE DEF f
<1> QED
  BY <1>1, <1>3, Pushed

(* InvokeEvent in a caller that goes on after it *)
LEMMA InvokedBy ==
  ASSUME NEW base, NEW e \in Element \cup {NULL}, NEW type \in {"any", "click", "long_click"},
         NEW op \in {"up", "release", "long_click", "context", "auto_click", "move", "tab"},
         NEW at \in Element \cup Position \cup {NULL},
         NEW r, NEW r2 \in BOOLEAN, NEW who, NEW focused, NEW calm,
         Running(base, r, who, focused, calm),
         InvokeEvent(Append(base, Frame(op, e, at, type)), e, type),
         op = "auto_click" => base = <<>> /\ e \in calm \cap AutoRepeat
  PROVE  Running(stack', r2, who, focused, calm)
<1> DEFINE f == Frame(op, e, at, type)
<1>1. f \in Frames /\ f.op = op /\ f.el = e
  BY DEF Frame, Frames
<1> HIDE DEF f
<1>2. Running(Append(base, f), TRUE, who, focused, calm)
  BY <1>1, Pushed
<1> DEFINE under == Append(base, f)
<1>3. InvokeEvent(under, e, type) /\ Running(under, TRUE, who, focused, calm)
  BY <1>2 DEF f
<1> HIDE DEF under
<1> QED
  BY <1>3, Invoked

-----------------------------------------------------------------------------
(* Each action keeps the invariant: the calls that an event makes *)

(* What In(op) says of the top *)
LEMMA InTop ==
  ASSUME IInv, NEW op, In(op)
  PROVE  /\ stack # <<>> /\ stack \in Seq(Frames) /\ Top \in Frames /\ Top.op = op /\ Top = Last(stack)
         /\ Top.el \in Element \cup {NULL} /\ Top.at \in Element \cup Position \cup {NULL}
         /\ Top.type \in {"any", "click", "long_click", "delete", "remove"}
<1>1. stack # <<>> /\ stack \in Seq(Frames) /\ Top.op = op
  BY DEF In, IInv, Running
<1>2. Top \in Frames
  BY <1>1, TopProperties DEF Top
<1> QED
  BY <1>1, <1>2 DEF Frames, Top

(* An action that leaves the tree alone, and one that leaves the statics too *)
LEMMA StepKeeps ==
  ASSUME IInv, UNCHANGED <<tree, crashed>>, Remembers(st', exists), Pressing(st', press'),
         Running(stack', result', told', st'.focused, Calm(st'))
  PROVE  IInv'
<1>1. children' = children /\ exists' = exists /\ dying' = dying /\ disabled' = disabled /\ crashed' = crashed
  BY DEF tree
<1>2. TreeAgrees' /\ Rooted'
  BY <1>1 DEF IInv, TreeAgrees, Rooted
<1> QED
  BY <1>1, <1>2 DEF IInv

(* A step that changes only the calls under way keeps the invariant if it
   keeps what these rely on. *)
LEMMA QuietStep ==
  ASSUME IInv, UNCHANGED <<tree, st, press, crashed>>,
         Running(stack', result', told', st.focused, Calm(st))
  PROVE  IInv'
<1>1. st' = st /\ press' = press /\ UNCHANGED <<tree, crashed>>
  OBVIOUS
<1> QED
  BY <1>1, StepKeeps DEF IInv

(* Where a call finds what it uses gone, nothing else changes. *)
LEMMA CrashStep ==
  ASSUME IInv, NEW call, Crash(call)
  PROVE  IInv'
<1>1. /\ children' = children /\ exists' = exists /\ disabled' = disabled
      /\ st' = st /\ dying' = dying /\ stack' = stack /\ result' = result /\ told' = told /\ press' = press
  BY DEF Crash, tree
<1> QED
  BY <1>1 DEF IInv, TreeAgrees, Rooted

(* The listeners have been told: the event is blocked, its element is gone,
   or it goes on to OnEvent. *)
LEMMA ListenersStep ==
  ASSUME IInv, Listeners
  PROVE  IInv'
<1>1. In("listen") /\ UNCHANGED <<tree, st, told, press, crashed>>
  BY DEF Listeners
<1>2. /\ stack # <<>> /\ Top.op = "listen" /\ Top.el \in Element \cup {NULL}
      /\ Top.type \in {"any", "click", "long_click", "delete", "remove"}
  BY <1>1, InTop
<1>3. Running(stack, result, told, st.focused, Calm(st)) /\ result \in BOOLEAN
  BY DEF IInv, Running
<1>4. Running(stack', result', told, st.focused, Calm(st))
  <2>1. CASE Return(TRUE)
    BY <1>2, <1>3, <2>1, Returned
  <2> DEFINE f == Frame("event", Top.el, Top.el, Top.type)
  <2>2. CASE Become(f) /\ result' = result
    <3>1. f \in Frames /\ f.op = "event" /\ f.type = Top.type
      BY <1>2 DEF Frame, Frames
    <3> HIDE DEF f
    <3> QED
      BY <1>2, <1>3, <2>2, <3>1, Became
  <2> QED
    BY <2>1, <2>2 DEF Listeners
<1> QED
  BY <1>1, <1>4, QuietStep

(* OnEvent has returned: a parent it goes on to exists. *)
LEMMA OnEventStep ==
  ASSUME IInv, OnEvent
  PROVE  IInv'
<1>1. In("event")
  BY DEF OnEvent
<1>2. /\ stack # <<>> /\ Top.op = "event" /\ Top \in Frames
      /\ Top.type \in {"any", "click", "long_click", "delete", "remove"}
  BY <1>1, InTop
<1>3. Running(stack, result, told, st.focused, Calm(st)) /\ result \in BOOLEAN
  BY DEF IInv, Running
<1>4. PICK handled \in BOOLEAN :
        \/ /\ handled /\ Return(TRUE)
           /\ UNCHANGED <<tree, st, calls, told, press, crashed>>
        \/ ~handled /\ Top.at \notin exists /\ Crash("OnEvent")
        \/ /\ ~handled /\ Top.at \in exists
           /\ IF Parent(Top.at) = NULL THEN Return(FALSE)
              ELSE Become([Top EXCEPT !.at = Parent(Top.at)]) /\ UNCHANGED result
           /\ UNCHANGED <<tree, st, calls, told, press, crashed>>
  BY DEF OnEvent
<1>5. CASE Return(TRUE) /\ UNCHANGED <<tree, st, calls, told, press, crashed>>
  <2>1. Running(stack', result', told, st.focused, Calm(st))
    BY <1>2, <1>3, <1>5, Returned
  <2> QED
    BY <1>5, <2>1, QuietStep
<1>6. CASE Crash("OnEvent")
  BY <1>6, CrashStep
<1>7. CASE ~handled /\ Return(FALSE) /\ UNCHANGED <<tree, st, calls, told, press, crashed>>
  <2>2. Running(stack', result', told, st.focused, Calm(st))
    BY <1>2, <1>3, <1>7, Returned
  <2> QED
    BY <1>7, <2>2, QuietStep
<1> DEFINE f == [Top EXCEPT !.at = Parent(Top.at)]
<1>8. CASE Become(f) /\ result' = result /\ UNCHANGED <<tree, st, calls, told, press, crashed>>
  <2>1. Parent(Top.at) \in Element \cup {NULL}
    BY ParentProperties DEF IInv, TreeAgrees
  <2>2. f \in Frames /\ f.op = "event" /\ f.type = Top.type
    BY <1>2, <2>1 DEF Frames
  <2> HIDE DEF f
  <2>3. Running(stack', result', told, st.focused, Calm(st))
    BY <1>2, <1>3, <1>8, <2>2, Became
  <2> QED
    BY <1>8, <2>3, QuietStep
<1> QED
  BY <1>4, <1>5, <1>6, <1>7, <1>8

(* The old focus was told, and the new one is told if it still has it. *)
LEMMA OnFocusChangedStep ==
  ASSUME IInv, OnFocusChanged
  PROVE  IInv'
<1>1. In("unfocused") /\ UNCHANGED <<tree, st, press, crashed>>
  BY DEF OnFocusChanged
<1>2. stack # <<>> /\ Top.op = "unfocused" /\ Top \in Frames /\ Top = Last(stack)
  BY <1>1, InTop
<1>3. Running(stack, result, told, st.focused, Calm(st)) /\ result \in BOOLEAN
  BY DEF IInv, Running
<1>4. CASE st.focused # Top.el /\ Return(TRUE) /\ told' = told
  <2>1. Running(stack', result', told', st.focused, Calm(st))
    BY <1>2, <1>3, <1>4, Returned
  <2> QED
    BY <1>1, <2>1, QuietStep
<1> DEFINE f == [Top EXCEPT !.op = "focused"]
<1>5. CASE st.focused = Top.el /\ told' = told \cup {Top.el} /\ Become(f) /\ result' = result
  <2>1. f \in Frames /\ f.op = "focused"
    BY <1>2 DEF Frames
  <2> HIDE DEF f
  <2>2. st.focused # NULL
    <3>1. Len(stack) \in DOMAIN stack /\ Top = stack[Len(stack)]
      BY <1>2, <1>3, TopProperties DEF Running
    <3> QED
      BY <1>2, <1>3, <1>5, <3>1 DEF Running, Tells
  <2>3. Running(stack, result, told', st.focused, Calm(st))
    BY <1>3, <1>5, <2>2, ToldNow
  <2>4. st.focused \in told'
    BY <1>5
  <2>5. Running(stack', result', told', st.focused, Calm(st))
    BY <1>2, <1>3, <1>5, <2>1, <2>3, <2>4, Became
  <2> QED
    BY <1>1, <2>5, QuietStep
<1> QED
  BY <1>4, <1>5 DEF OnFocusChanged

(* set_focus returns: who has the focus knows it. *)
LEMMA FocusDoneStep ==
  ASSUME IInv, FocusDone
  PROVE  IInv'
<1>1. In("focused") /\ Return(TRUE) /\ UNCHANGED <<tree, st, told, press, crashed>>
  BY DEF FocusDone
<1>2. Running(stack, result, told, st.focused, Calm(st))
  BY DEF IInv
<1>3. stack # <<>> /\ Top.op = "focused"
  BY <1>1, InTop
<1>4. Running(stack', result', told, st.focused, Calm(st))
  BY <1>1, <1>2, <1>3, Returned
<1> QED
  BY <1>1, <1>4, QuietStep

-----------------------------------------------------------------------------
(* The pointer *)

(* A press: the captured element exists, its timers are the only ones, and
   press is what it began with, also when it stops a scroller or focuses. *)
LEMMA InvokePointerDownStep ==
  ASSUME IInv, NEW pos \in Position, NEW touch \in BOOLEAN, InvokePointerDown(pos, touch)
  PROVE  IInv'
<1> DEFINE first == st.captured = NULL
           e == IF first THEN GetElementAt(pos) ELSE st.captured
           set == SetHoveredElement(SetCapturedElement(st, e, FALSE), e)
           timed == [set EXCEPT !.long_click = IF touch /\ e \in LongClickable THEN {e} ELSE @]
           down == IF first THEN timed ELSE st
           scroller == FindStartedScroller(down, e)
           quiet == scroller # NULL
           cancelled == [down EXCEPT !.cancel_click = TRUE]
           s == IF quiet THEN Stop(cancelled, scroller) ELSE down
           focus == Nearest(e, {a \in exists : a = s.focused \/ TakesFocus(a)})
           f == Frame("down", NULL, NULL, "any")
<1>1. /\ stack = <<>> /\ UNCHANGED <<tree, result, crashed>>
      /\ press' = IF first THEN [el |-> e, quiet |-> quiet] ELSE [press EXCEPT !.quiet = @ \/ quiet]
      /\ \/ e = NULL /\ st' = s /\ stack' = stack /\ told' = told
         \/ st' = s /\ stack' = <<f>> /\ told' = told
         \/ focus # NULL /\ SetFocus(s, <<f>>, focus)
  BY DEF InvokePointerDown, Idle
<1>2. /\ Running(stack, result, told, st.focused, Calm(st)) /\ TreeAgrees /\ Remembers(st, exists)
      /\ Pressing(st, press) /\ exists \subseteq Element /\ Rooted /\ result \in BOOLEAN
  BY DEF IInv, TreeAgrees, Running
<1>3. focus \in exists \cup {NULL}
  BY <1>2, NearestProperties
<1> HIDE DEF focus
<1>4. e \in exists \cup {NULL} /\ (first => e \notin disabled)
  BY <1>2, ElementAt DEF Remembers, Rooted
<1> HIDE DEF e
<1>5. ASSUME first
      PROVE  /\ Remembers(timed, exists) /\ timed.focused = st.focused
             /\ timed.captured = IF e \in disabled THEN NULL ELSE e
             /\ timed.captured # NULL => ~timed.cancel_click
  <2> DEFINE captures == SetCapturedElement(st, e, FALSE)
  <2>1. Remembers(captures, exists) /\ Captures(st, e, captures)
    BY <1>2, <1>4, SetCapturedElementProperties
  <2> HIDE DEF captures
  <2>2. /\ Remembers(set, exists) /\ set.captured = captures.captured /\ set.focused = captures.focused
        /\ set.cancel_click = captures.cancel_click
    BY <1>2, <1>4, <2>1, SetHoveredElementProperties DEF captures
  <2> HIDE DEF set
  <2>3. NULL \notin disabled /\ LongClickable \subseteq Element
    BY <1>2, Constants DEF TreeAgrees
  <2>4. /\ set.focused = st.focused /\ set.captured = IF e \in disabled THEN NULL ELSE e
        /\ set.captured # NULL => ~set.cancel_click
    BY <1>5, <2>1, <2>2, <2>3 DEF Captures
  <2> DEFINE more == IF touch /\ e \in LongClickable THEN {e} ELSE set.long_click
  <2>5. more \subseteq exists /\ more \in SUBSET Element /\ more \subseteq {set.captured}
    <3>1. e \in LongClickable => e \in exists /\ e \in Element
      BY <1>2, <1>4, <2>3, Constants
    <3>2. set.captured = e
      BY <1>4, <1>5, <2>4
    <3>3. set.long_click \subseteq exists /\ set.long_click \subseteq {set.captured}
      BY <2>2 DEF Remembers, Timed
    <3> QED
      BY <1>2, <3>1, <3>2, <3>3
  <2>6. timed = [set EXCEPT !.long_click = more]
    BY DEF timed
  <2> HIDE DEF more, timed
  <2>7. /\ timed \in Statics /\ timed.hovered = set.hovered /\ timed.captured = set.captured
        /\ timed.focused = set.focused /\ timed.cancel_click = set.cancel_click
        /\ timed.key_pressed = set.key_pressed /\ timed.long_click = more
        /\ timed.auto_click = set.auto_click /\ timed.late = set.late /\ timed.panning = set.panning /\ timed.started = set.started
    BY <2>2, <2>5, <2>6 DEF Statics, Remembers
  <2>8. Remembers(timed, exists)
    BY <2>2, <2>5, <2>7 DEF Remembers, Timed
  <2> QED
    BY <2>4, <2>7, <2>8
<1> HIDE DEF timed
<1>6. Remembers(down, exists) /\ down.focused = st.focused
  BY <1>2, <1>5
<1>7. Pressing(down, press') \/ quiet
  <2>1. CASE first /\ ~quiet
    <3>1. press' = [el |-> e, quiet |-> FALSE] /\ e \in Element \cup {NULL}
      BY <1>1, <1>2, <1>4, <2>1
    <3>2. down = timed /\ (timed.captured # NULL => timed.captured = e /\ timed.cancel_click = FALSE)
      <4>1. timed \in Statics
        BY <1>5, <2>1 DEF Remembers
      <4> QED
        BY <1>5, <2>1, <4>1 DEF Statics
    <3> QED
      BY <3>1, <3>2 DEF Pressing
  <2>2. CASE ~first /\ ~quiet
    <3>1. press' = [press EXCEPT !.quiet = @ \/ FALSE] /\ down = st
      BY <1>1, <2>2
    <3> QED
      BY <1>2, <3>1 DEF Pressing
  <2> QED
    BY <2>1, <2>2
<1>8. ASSUME quiet
      PROVE  Pressing(cancelled, press') /\ Remembers(cancelled, exists) /\ cancelled.focused = st.focused
  <2>1. down \in Statics
    BY <1>6 DEF Remembers
  <2>2. /\ cancelled \in Statics /\ cancelled.hovered = down.hovered /\ cancelled.captured = down.captured
        /\ cancelled.focused = down.focused /\ cancelled.cancel_click = TRUE
        /\ cancelled.key_pressed = down.key_pressed /\ cancelled.long_click = down.long_click
        /\ cancelled.auto_click = down.auto_click /\ cancelled.late = down.late /\ cancelled.panning = down.panning
        /\ cancelled.started = down.started
    BY <2>1 DEF Statics
  <2> HIDE DEF cancelled
  <2>3. Remembers(cancelled, exists)
    BY <1>6, <2>2 DEF Remembers, Timed
  <2>4. CASE first
    <3>1. press' = [el |-> e, quiet |-> TRUE] /\ e \in Element \cup {NULL}
      BY <1>1, <1>2, <1>4, <1>8, <2>4
    <3>2. down = timed /\ (timed.captured # NULL => timed.captured = e)
      BY <1>5, <2>4
    <3>3. Pressing(cancelled, press')
      BY <2>2, <3>1, <3>2 DEF Pressing
    <3> QED
      BY <1>6, <2>2, <2>3, <3>3
  <2>5. CASE ~first
    <3>1. press' = [press EXCEPT !.quiet = @ \/ TRUE] /\ down = st
      BY <1>1, <1>8, <2>5
    <3>2. Pressing(cancelled, press')
      BY <1>2, <2>2, <3>1 DEF Pressing
    <3> QED
      BY <1>6, <2>2, <2>3, <3>2
  <2> QED
    BY <2>4, <2>5
<1> HIDE DEF down, cancelled
<1>9. Remembers(s, exists) /\ Pressing(s, press') /\ s.focused = st.focused
  <2>1. CASE quiet
    <3>1. s = Stop(cancelled, scroller)
      BY <2>1
    <3>2. /\ Remembers(s, exists) /\ s.captured = cancelled.captured /\ s.focused = cancelled.focused
          /\ s.cancel_click = cancelled.cancel_click
      BY <1>8, <2>1, <3>1, StopKeeps
    <3> QED
      BY <1>8, <2>1, <3>2 DEF Pressing
  <2>2. CASE ~quiet
    BY <1>6, <1>7, <2>2
  <2> QED
    BY <2>1, <2>2
<1> HIDE DEF s, quiet
<1>10. Running(<<>>, result, told, s.focused, Calm(s))
  <2>1. DOMAIN <<>> = {}
    OBVIOUS
  <2> QED
    BY <1>1, <1>2, <1>9, <2>1 DEF Running, Holds
<1>11. Running(<<f>>, result, told, s.focused, Calm(s)) /\ Last(<<f>>).op = "down"
  <2>1. f \in Frames /\ f.op = "down" /\ Append(<<>>, f) = <<f>> /\ Last(<<f>>) = f
    BY DEF Frame, Frames, Last
  <2> HIDE DEF f
  <2>2. Running(Append(<<>>, f), result, told, s.focused, Calm(s))
    BY <1>2, <1>10, <2>1, Pushed
  <2> QED
    BY <2>1, <2>2
<1> HIDE DEF f
<1>12. CASE st' = s /\ stack' = stack /\ told' = told
  BY <1>1, <1>9, <1>10, <1>12, StepKeeps
<1>13. CASE st' = s /\ stack' = <<f>> /\ told' = told
  BY <1>1, <1>9, <1>11, <1>13, StepKeeps
<1>14. CASE focus # NULL /\ SetFocus(s, <<f>>, focus)
  <2>1. focus \in exists
    BY <1>3, <1>14
  <2>2. /\ Remembers(st', exists)
        /\ Running(stack', result, told', st'.focused, Calm(st'))
        /\ st'.captured = s.captured /\ st'.cancel_click = s.cancel_click
    BY <1>2, <1>9, <1>11, <1>14, <2>1, SetFocusProperties
  <2>3. Pressing(st', press')
    BY <1>9, <2>2 DEF Pressing
  <2> QED
    BY <1>1, <2>2, <2>3, StepKeeps
<1> QED
  BY <1>1, <1>12, <1>13, <1>14

(* The event of a press goes to what the callbacks left captured. *)
LEMMA PointerDownStep ==
  ASSUME IInv, PointerDown
  PROVE  IInv'
<1>1. In("down") /\ UNCHANGED <<tree, st, told, press, crashed>>
  BY DEF PointerDown
<1>2. Running(stack, result, told, st.focused, Calm(st)) /\ result \in BOOLEAN
  BY DEF IInv, Running
<1>3. stack # <<>> /\ Top.op = "down" /\ Top = Last(stack)
  BY <1>1, InTop
<1>4. Running(stack', result', told, st.focused, Calm(st))
  <2>1. CASE Return(FALSE)
    BY <1>2, <1>3, <2>1, Returned
  <2>2. CASE st.captured # NULL /\ InvokeEvent(Front(stack), st.captured, "any") /\ result' = result
    <3>1. Running(Front(stack), FALSE, told, st.focused, Calm(st))
      BY <1>2, <1>3, Popped
    <3>3. st.captured \in Element \cup {NULL}
      BY DEF IInv, Remembers, Statics
    <3> QED
      BY <1>2, <2>2, <3>1, <3>3, Invoked
  <2> QED
    BY <2>1, <2>2 DEF PointerDown
<1> QED
  BY <1>1, <1>4, QuietStep

(* The event of a release begins, outermost. *)
LEMMA InvokePointerUpStep ==
  ASSUME IInv, NEW pos \in Position, InvokePointerUp(pos)
  PROVE  IInv'
<1> DEFINE f == Frame("up", st.captured, pos, "any")
<1>1. /\ stack = <<>> /\ UNCHANGED <<tree, st, result, told, press, crashed>>
      /\ stack' = <<f, Frame("listen", st.captured, NULL, "any")>>
  BY DEF InvokePointerUp, Idle
<1>2. Running(stack, result, told, st.focused, Calm(st)) /\ result \in BOOLEAN
  BY DEF IInv, Running
<1>3. st.captured \in Element \cup {NULL}
  BY DEF IInv, Remembers, Statics
<1>4. InvokeEvent(Append(stack, f), st.captured, "any")
  BY <1>1 DEF InvokeEvent
<1>5. Running(stack', result', told, st.focused, Calm(st))
  BY <1>1, <1>2, <1>3, <1>4, InvokedBy
<1> QED
  BY <1>1, <1>5, QuietStep

(* The click of a release begins, or there is none. *)
LEMMA PointerUpStep ==
  ASSUME IInv, PointerUp
  PROVE  IInv'
<1>1. In("up") /\ UNCHANGED <<tree, st, result, told, press, crashed>>
  BY DEF PointerUp
<1>2. Running(stack, result, told, st.focused, Calm(st)) /\ result \in BOOLEAN
  BY DEF IInv, Running
<1>3. stack # <<>> /\ Top.op = "up" /\ Top = Last(stack)
  BY <1>1, InTop
<1>4. Running(Front(stack), FALSE, told, st.focused, Calm(st))
  BY <1>2, <1>3, Popped
<1>6. st.captured \in Element \cup {NULL}
  BY DEF IInv, Remembers, Statics
<1>7. Running(stack', result', told, st.focused, Calm(st))
  <2>1. CASE Invoke(Front(stack), "release", st.captured, "click")
    BY <1>1, <1>2, <1>4, <1>6, <2>1, InvokedBy DEF Invoke
  <2> DEFINE f == Frame("release", NULL, NULL, "any")
  <2>2. CASE Become(f)
    <3>1. f \in Frames /\ f.op = "release"
      BY DEF Frame, Frames
    <3> HIDE DEF f
    <3> QED
      BY <1>1, <1>2, <1>4, <2>2, <3>1, Pushed DEF Become
  <2> QED
    BY <2>1, <2>2 DEF PointerUp
<1> QED
  BY <1>1, <1>7, QuietStep

(* The end of a capture leaves nothing to agree with. *)
LEMMA ReleaseKeeps ==
  ASSUME IInv, NEW fast \in BOOLEAN, st' = SetCapturedElement(st, NULL, fast)
  PROVE  Remembers(st', exists) /\ st'.focused = st.focused /\ st'.captured = NULL /\ Calm(st) \subseteq Calm(st')
<1>1. Remembers(st, exists) /\ TreeAgrees /\ exists \subseteq Element /\ NULL \notin disabled
  BY Constants DEF IInv, TreeAgrees
<1>2. Remembers(st', exists) /\ Captures(st, NULL, st')
  BY <1>1, SetCapturedElementProperties
<1> QED
  BY <1>1, <1>2 DEF Captures

(* The capture ends after a release, and the press with it. *)
LEMMA ReleaseStep ==
  ASSUME IInv, Release
  PROVE  IInv'
<1>1. /\ In("release") /\ Return(TRUE) /\ UNCHANGED <<tree, told, crashed>>
      /\ press' = [el |-> NULL, quiet |-> FALSE]
  BY DEF Release
<1>2. Remembers(st', exists) /\ st'.focused = st.focused /\ st'.captured = NULL /\ Calm(st) \subseteq Calm(st')
  BY ReleaseKeeps DEF Release
<1>3. Running(stack, result, told, st.focused, Calm(st))
  BY DEF IInv
<1>4. stack # <<>> /\ Top.op = "release" /\ Top = Last(stack)
  BY <1>1, InTop
<1>5. Running(stack', result', told, st.focused, Calm(st)) /\ result' \in BOOLEAN
  BY <1>1, <1>3, <1>4, Returned DEF Running
<1>6. Running(stack', result', told', st'.focused, Calm(st'))
  BY <1>1, <1>2, <1>5, Freed DEF Running
<1>7. Pressing(st', press')
  BY <1>1, <1>2 DEF Pressing
<1> QED
  BY <1>1, <1>2, <1>6, <1>7, StepKeeps

-----------------------------------------------------------------------------
(* Timers *)

(* The timer of a long click goes off: the event begins while its element
   is captured. *)
LEMMA MaybeInvokeLongClickOrContextMenuStep ==
  ASSUME IInv, NEW e \in Element, MaybeInvokeLongClickOrContextMenu(e)
  PROVE  IInv'
<1> DEFINE s == [st EXCEPT !.long_click = @ \ {e}]
<1>1. /\ stack = <<>> /\ UNCHANGED <<tree, result, told, press, crashed>>
      /\ st' = s
      /\ \/ st.captured = e /\ Invoke(<<>>, "long_click", e, "long_click")
         \/ stack' = stack
  BY DEF MaybeInvokeLongClickOrContextMenu, Idle
<1>2. /\ Running(stack, result, told, st.focused, Calm(st)) /\ result \in BOOLEAN
      /\ Remembers(st, exists) /\ st \in Statics /\ Pressing(st, press)
  BY DEF IInv, Running, Remembers
<1>3. /\ s \in Statics /\ s.hovered = st.hovered /\ s.captured = st.captured /\ s.focused = st.focused
      /\ s.cancel_click = st.cancel_click /\ s.key_pressed = st.key_pressed
      /\ s.long_click \subseteq st.long_click /\ s.auto_click = st.auto_click /\ s.late = st.late
      /\ s.panning = st.panning /\ s.started = st.started
  BY <1>2 DEF Statics
<1> HIDE DEF s
<1>4. Remembers(s, exists) /\ Pressing(s, press) /\ Calm(s) = Calm(st)
  BY <1>2, <1>3 DEF Remembers, Timed, Pressing, Calm
<1>5. Running(stack', result', told, st.focused, Calm(st))
  <2>1. CASE st.captured = e /\ Invoke(<<>>, "long_click", e, "long_click")
    BY <1>1, <1>2, <2>1, InvokedBy DEF Invoke
  <2>2. CASE stack' = stack
    BY <1>1, <1>2, <2>2
  <2> QED
    BY <1>1, <2>1, <2>2
<1> QED
  BY <1>1, <1>3, <1>4, <1>5, StepKeeps

(* No click any more: what the press says agrees. *)
LEMMA Suppressed ==
  ASSUME IInv, Suppress
  PROVE  /\ Remembers(st', exists) /\ Pressing(st', press')
         /\ st'.focused = st.focused /\ st'.captured = st.captured /\ Calm(st') = Calm(st)
<1> DEFINE s == [st EXCEPT !.cancel_click = TRUE]
<1>1. st' = s /\ press' = [press EXCEPT !.quiet = TRUE]
  BY DEF Suppress
<1>2. Remembers(st, exists) /\ st \in Statics /\ Pressing(st, press)
  BY DEF IInv, Remembers
<1>3. /\ s \in Statics /\ s.hovered = st.hovered /\ s.captured = st.captured /\ s.focused = st.focused
      /\ s.cancel_click = TRUE /\ s.key_pressed = st.key_pressed
      /\ s.long_click = st.long_click /\ s.auto_click = st.auto_click /\ s.late = st.late
      /\ s.panning = st.panning /\ s.started = st.started
  BY <1>2 DEF Statics
<1> HIDE DEF s
<1>4. Remembers(s, exists) /\ Calm(s) = Calm(st)
  BY <1>2, <1>3 DEF Remembers, Timed, Calm
<1>5. Pressing(s, press')
  BY <1>1, <1>2, <1>3 DEF Pressing
<1> QED
  BY <1>1, <1>3, <1>4, <1>5

(* A long click returns: handled, it makes no click, and not handled it is a
   context menu of what is captured, if anything is. *)
LEMMA LongClickedStep ==
  ASSUME IInv, LongClicked
  PROVE  IInv'
<1>1. In("long_click")
  BY DEF LongClicked
<1>2. Running(stack, result, told, st.focused, Calm(st)) /\ result \in BOOLEAN
  BY DEF IInv, Running
<1>3. stack # <<>> /\ Top.op = "long_click" /\ Top = Last(stack)
  BY <1>1, InTop
<1>4. CASE Suppress /\ Return(TRUE) /\ UNCHANGED <<tree, calls, told, crashed>>
  <2>1. Running(stack', result', told, st.focused, Calm(st))
    BY <1>2, <1>3, <1>4, Returned
  <2> QED
    BY <1>4, <2>1, Suppressed, StepKeeps
<1>5. CASE /\ Invoke(Front(stack), "context", st.captured, "any")
           /\ UNCHANGED <<tree, st, result, calls, told, press, crashed>>
  <2>1. Running(Front(stack), FALSE, told, st.focused, Calm(st))
    BY <1>2, <1>3, Popped
  <2>3. st.captured \in Element \cup {NULL}
    BY DEF IInv, Remembers, Statics
  <2>4. Running(stack', result', told, st.focused, Calm(st))
    BY <1>2, <1>5, <2>1, <2>3, InvokedBy DEF Invoke
  <2> QED
    BY <1>5, <2>4, QuietStep
<1>6. CASE Crash("MaybeInvokeLongClickOrContextMenu")
  BY <1>6, CrashStep
<1> QED
  BY <1>4, <1>5, <1>6 DEF LongClicked

(* A context menu returns: shown, there is no click. *)
LEMMA ContextMenuStep ==
  ASSUME IInv, ContextMenu
  PROVE  IInv'
<1>1. In("context") /\ Return(result) /\ UNCHANGED <<tree, told, crashed>>
  BY DEF ContextMenu
<1>2. Running(stack, result, told, st.focused, Calm(st)) /\ result \in BOOLEAN
  BY DEF IInv, Running
<1>3. stack # <<>> /\ Top.op = "context"
  BY <1>1, InTop
<1>4. Running(stack', result', told, st.focused, Calm(st))
  BY <1>1, <1>2, <1>3, Returned
<1>5. CASE Suppress
  BY <1>1, <1>4, <1>5, Suppressed, StepKeeps
<1>6. CASE UNCHANGED <<st, press>>
  BY <1>1, <1>4, <1>6, QuietStep
<1> QED
  BY <1>5, <1>6 DEF ContextMenu

(* A repeated click begins: its message has gone. *)
LEMMA AutoClickStep ==
  ASSUME IInv, NEW e \in Element, AutoClick(e)
  PROVE  IInv'
<1>1. stack = <<>> /\ st.auto_click[e] > 0
  BY DEF AutoClick, Idle
<1>2. /\ Running(stack, result, told, st.focused, Calm(st)) /\ result \in BOOLEAN
      /\ Remembers(st, exists) /\ st \in Statics /\ Pressing(st, press) /\ TreeAgrees
  BY DEF IInv, Running, Remembers
<1>3. CASE Crash("OnMessageReceived")
  BY <1>3, CrashStep
<1> DEFINE s == DeleteMessage(st, e)
<1>4. CASE /\ Invoke(<<>>, "auto_click", e, "click") /\ st' = s
           /\ UNCHANGED <<tree, result, told, press, crashed>>
  <2>1. /\ s \in Statics /\ s.hovered = st.hovered /\ s.captured = st.captured /\ s.focused = st.focused
        /\ s.cancel_click = st.cancel_click /\ s.key_pressed = st.key_pressed
        /\ s.long_click = st.long_click /\ s.late = st.late
        /\ s.panning = st.panning /\ s.started = st.started
        /\ \A x \in Element : s.auto_click[x] = IF x = e /\ st.auto_click[x] # 0 THEN st.auto_click[x] - 1
                                                ELSE st.auto_click[x]
    BY <1>2, Messages
  <2> HIDE DEF s
  <2>2. \A x \in Element : st.auto_click[x] \in Nat
    BY <1>2 DEF Statics
  <2>3. Timed(s)
    <3>1. ASSUME NEW x \in Element \ st.late
          PROVE  s.auto_click[x] = 0 \/ (s.auto_click[x] = 1 /\ x = st.captured)
      <4>1. st.auto_click[x] = 0 \/ (st.auto_click[x] = 1 /\ x = st.captured)
        BY <1>2, <3>1 DEF Remembers, Timed
      <4> QED
        BY <2>1, <4>1
    <3>2. ASSUME NEW x \in Element \ AutoRepeat
          PROVE  s.auto_click[x] = 0
      BY <1>2, <2>1, <3>2 DEF Remembers, Timed
    <3> QED
      BY <1>2, <2>1, <3>1, <3>2 DEF Remembers, Timed
  <2>4. Remembers(s, exists)
    <3>1. ASSUME NEW x \in Element \ exists
          PROVE  s.auto_click[x] = 0
      BY <1>2, <2>1 DEF Remembers
    <3> QED
      BY <1>2, <2>1, <2>3, <3>1 DEF Remembers
  <2>5. Pressing(s, press)
    BY <1>2, <2>1 DEF Pressing
  <2>6. e \in Calm(s) /\ e \in AutoRepeat
    <3>1. e \in st.late => e \in Calm(s)
      BY <2>1 DEF Calm
    <3>2. ASSUME e \notin st.late
          PROVE  e \in Calm(s)
      <4>1. st.auto_click[e] = 0 \/ st.auto_click[e] = 1
        BY <1>2, <3>2 DEF Remembers, Timed
      <4>2. s.auto_click[e] = 0
        BY <1>1, <2>1, <4>1
      <4> QED
        BY <4>2 DEF Calm
    <3>3. e \in AutoRepeat
      BY <1>1, <1>2 DEF Remembers, Timed
    <3> QED
      BY <3>1, <3>2, <3>3
  <2>7. Running(<<>>, result, told, st.focused, Calm(s))
    <3>1. DOMAIN <<>> = {}
      OBVIOUS
    <3> QED
      BY <1>1, <1>2, <3>1 DEF Running, Holds
  <2>8. Running(stack', result', told, st.focused, Calm(s))
    BY <1>2, <1>4, <2>6, <2>7, InvokedBy DEF Invoke
  <2> QED
    BY <1>4, <2>1, <2>4, <2>5, <2>8, StepKeeps
<1>5. CASE UNCHANGED <<tree, st, stack, result, told, press, crashed>>
  BY <1>2, <1>5, QuietStep
<1> QED
  BY <1>3, <1>4, <1>5 DEF AutoClick

(* A repeated click returns: the message it posts is the only one, and of what
   is captured, unless it is late. *)
LEMMA AutoClickedStep ==
  ASSUME IInv, AutoClicked
  PROVE  IInv'
<1>1. In("auto_click")
  BY DEF AutoClicked
<1>2. /\ Running(stack, result, told, st.focused, Calm(st))
      /\ Remembers(st, exists) /\ st \in Statics /\ Pressing(st, press) /\ exists \subseteq Element
  BY DEF IInv, Remembers, TreeAgrees
<1>3. stack # <<>> /\ Top.op = "auto_click" /\ Top = Last(stack)
  BY <1>1, InTop
<1>4. CASE Crash("PostMessageDelayed")
  BY <1>4, CrashStep
<1> DEFINE e == Top.el
           posted == Post(st, e)
           late == IF st.captured = e THEN st.late ELSE st.late \cup {e}
           s == [posted EXCEPT !.late = IF st.captured = e THEN @ ELSE @ \cup {e}]
<1>5. CASE /\ e \in exists /\ st' = s /\ Return(TRUE)
           /\ UNCHANGED <<tree, told, press, crashed>>
  <2>1. stack \in Seq(Frames) /\ Len(stack) \in DOMAIN stack /\ Top = stack[Len(stack)] /\ e \in Element
    BY <1>2, <1>3, <1>5, TopProperties DEF Running
  <2>2. Len(stack) = 1 /\ e \in Calm(st) /\ e \in AutoRepeat
    BY <1>2, <1>3, <2>1 DEF Running, Holds
  <2>3. Front(stack) = <<>>
    BY <2>1, <2>2 DEF Front
  <2>4. Running(stack', result', told, st.focused, Calm(st))
    BY <1>2, <1>3, <1>5, Returned
  <2>5. stack' = <<>>
    BY <1>5, <2>3 DEF Return
  <2> HIDE DEF e
  <2>6. /\ posted \in Statics /\ posted.hovered = st.hovered /\ posted.captured = st.captured
        /\ posted.focused = st.focused /\ posted.late = st.late
        /\ posted.cancel_click = st.cancel_click /\ posted.key_pressed = st.key_pressed
        /\ posted.long_click = st.long_click /\ posted.panning = st.panning /\ posted.started = st.started
        /\ \A x \in Element : posted.auto_click[x] = IF x = e THEN st.auto_click[x] + 1 ELSE st.auto_click[x]
    BY <1>2, <2>1, Messages
  <2> HIDE DEF posted
  <2>7. /\ s \in Statics /\ s.hovered = st.hovered /\ s.captured = st.captured /\ s.focused = st.focused
        /\ s.cancel_click = st.cancel_click /\ s.key_pressed = st.key_pressed
        /\ s.long_click = st.long_click /\ s.panning = st.panning /\ s.started = st.started
        /\ s.late = late /\ s.auto_click = posted.auto_click
    BY <2>1, <2>6 DEF Statics
  <2> HIDE DEF s
  <2>8. Timed(s)
    <3>1. ASSUME NEW x \in Element \ late
          PROVE  s.auto_click[x] = 0 \/ (s.auto_click[x] = 1 /\ x = st.captured)
      <4>1. st.auto_click[x] = 0 \/ (st.auto_click[x] = 1 /\ x = st.captured)
        BY <1>2, <3>1 DEF Remembers, Timed
      <4>2. CASE x # e
        BY <2>6, <2>7, <4>1, <4>2
      <4>3. CASE x = e
        <5>1. st.auto_click[x] = 0 /\ x = st.captured
          BY <2>2, <3>1, <4>3 DEF Calm
        <5>2. s.auto_click[x] = 1
          BY <2>6, <2>7, <4>3, <5>1
        <5> QED
          BY <2>2, <5>1, <5>2, <4>3
      <4> QED
        BY <4>2, <4>3
    <3>2. ASSUME NEW x \in Element \ AutoRepeat
          PROVE  s.auto_click[x] = 0
      <4>1. x # e
        BY <2>2, <3>2
      <4> QED
        BY <1>2, <2>6, <2>7, <3>2, <4>1 DEF Remembers, Timed
    <3> QED
      BY <1>2, <2>7, <3>1, <3>2 DEF Remembers, Timed
  <2>9. Remembers(s, exists)
    <3>1. ASSUME NEW x \in Element \ exists
          PROVE  s.auto_click[x] = 0
      <4>1. x # e
        BY <1>5, <3>1
      <4> QED
        BY <1>2, <2>6, <2>7, <3>1, <4>1 DEF Remembers
    <3> QED
      BY <1>2, <2>7, <2>8, <3>1 DEF Remembers
  <2>10. Pressing(s, press)
    BY <1>2, <2>7 DEF Pressing
  <2>11. Running(stack', result', told, st.focused, Calm(s))
    <3>1. DOMAIN <<>> = {}
      OBVIOUS
    <3> QED
      BY <2>4, <2>5, <3>1 DEF Running, Holds
  <2> QED
    BY <1>5, <2>7, <2>9, <2>10, <2>11, StepKeeps
<1> QED
  BY <1>4, <1>5 DEF AutoClicked

(* A scroller that stops concerns no call. *)
LEMMA ScrollEndsStep ==
  ASSUME IInv, NEW e \in Element, ScrollEnds(e)
  PROVE  IInv'
<1>1. st' = Stop(st, e) /\ UNCHANGED <<tree, stack, result, told, press, crashed>>
  BY DEF ScrollEnds
<1>2. /\ Remembers(st', exists) /\ st'.captured = st.captured /\ st'.focused = st.focused
         /\ Calm(st') = Calm(st)
      /\ st'.cancel_click = st.cancel_click
  BY <1>1, StopKeeps DEF IInv
<1>3. Pressing(st', press') /\ Running(stack', result', told', st'.focused, Calm(st'))
  BY <1>1, <1>2 DEF IInv, Pressing
<1> QED
  BY <1>1, <1>2, <1>3, StepKeeps

-----------------------------------------------------------------------------
(* The pointer moves, or its wheel *)

(* What is hovered exists, and nothing else changes that the invariant names. *)
LEMMA HoverKeeps ==
  ASSUME IInv, NEW pos \in Position, Hover(pos)
  PROVE  /\ Remembers(st', exists) /\ Pressing(st', press') /\ st'.captured = st.captured /\ st'.focused = st.focused
         /\ Calm(st') = Calm(st)
         /\ Pointed(st') \in Element \cup {NULL}
         /\ stack = <<>> /\ UNCHANGED <<tree, result, told, press, crashed>>
<1> DEFINE s == SetHoveredElement(st, GetElementAt(pos))
           where == IF Pointed(s) = NULL THEN s.pointer_move ELSE pos
           t == [s EXCEPT !.pointer_move = where]
<1>1. stack = <<>> /\ UNCHANGED <<tree, result, told, press, crashed>> /\ st' = t
  BY DEF Hover, Idle
<1>2. TreeAgrees /\ Remembers(st, exists) /\ Pressing(st, press) /\ exists \subseteq Element
  BY DEF IInv, TreeAgrees
<1>3. /\ Remembers(s, exists) /\ s.captured = st.captured /\ s.focused = st.focused
      /\ s.cancel_click = st.cancel_click /\ Calm(s) = Calm(st)
  BY <1>2, ElementAt, SetHoveredElementProperties
<1> HIDE DEF s
<1>4. where \in Position \cup {CHOOSE p \in Position : TRUE}
  BY <1>3 DEF Remembers, Statics
<1> HIDE DEF where
<1>5. /\ t \in Statics /\ t.hovered = s.hovered /\ t.captured = s.captured /\ t.focused = s.focused
      /\ t.cancel_click = s.cancel_click /\ t.key_pressed = s.key_pressed
      /\ t.long_click = s.long_click /\ t.auto_click = s.auto_click /\ t.late = s.late
      /\ t.panning = s.panning /\ t.started = s.started
  BY <1>3, <1>4 DEF Remembers, Statics
<1> HIDE DEF t
<1>6. Remembers(t, exists) /\ Pressing(t, press) /\ Calm(t) = Calm(s)
  BY <1>2, <1>3, <1>5 DEF Remembers, Timed, Pressing, Calm
<1>7. Pointed(t) \in Element \cup {NULL}
  BY <1>5 DEF Pointed, Statics
<1>8. st' = t /\ press' = press
  BY <1>1
<1> QED
  BY <1>1, <1>3, <1>5, <1>6, <1>7, <1>8

(* A move goes to the captured element, else to the hovered one. *)
LEMMA InvokePointerMoveStep ==
  ASSUME IInv, NEW pos \in Position, InvokePointerMove(pos)
  PROVE  IInv'
<1>1. /\ Remembers(st', exists) /\ Pressing(st', press') /\ st'.captured = st.captured /\ st'.focused = st.focused
         /\ Calm(st') = Calm(st)
      /\ Pointed(st') \in Element \cup {NULL}
      /\ stack = <<>> /\ UNCHANGED <<tree, result, told, press, crashed>>
  BY HoverKeeps DEF InvokePointerMove
<1>2. Running(stack, result, told, st.focused, Calm(st)) /\ result \in BOOLEAN
  BY DEF IInv, Running
<1>3. Running(stack', result', told, st.focused, Calm(st))
  <2>1. CASE stack' = stack
    BY <1>1, <1>2, <2>1
  <2>2. CASE Invoke(<<>>, "move", Pointed(st'), "any")
    BY <1>1, <1>2, <2>2, InvokedBy DEF Invoke
  <2> QED
    BY <2>1, <2>2 DEF InvokePointerMove
<1> QED
  BY <1>1, <1>3, StepKeeps

(* The wheel goes to the captured element, else to the hovered one. *)
LEMMA InvokeWheelStep ==
  ASSUME IInv, NEW pos \in Position, InvokeWheel(pos)
  PROVE  IInv'
<1>1. /\ Remembers(st', exists) /\ Pressing(st', press') /\ st'.captured = st.captured /\ st'.focused = st.focused
         /\ Calm(st') = Calm(st)
      /\ Pointed(st') \in Element \cup {NULL}
      /\ stack = <<>> /\ UNCHANGED <<tree, result, told, press, crashed>>
  BY HoverKeeps DEF InvokeWheel
<1>2. Running(stack, result, told, st.focused, Calm(st)) /\ result \in BOOLEAN
  BY DEF IInv, Running
<1>3. Running(stack', result', told, st.focused, Calm(st))
  <2>1. CASE stack' = stack
    BY <1>1, <1>2, <2>1
  <2>2. CASE InvokeEvent(<<>>, Pointed(st'), "any")
    BY <1>1, <1>2, <2>2, Invoked
  <2> QED
    BY <2>1, <2>2 DEF InvokeWheel
<1> QED
  BY <1>1, <1>3, StepKeeps

(* A move nobody handled pans: the long click ends, and the click does once
   the scroller moved. *)
LEMMA MovedStep ==
  ASSUME IInv, Moved
  PROVE  IInv'
<1> DEFINE e == st.captured
           still == [st EXCEPT !.long_click = @ \ {e}]
           scroller == GetReadyScroller(st, e)
           pan(moved) == [still EXCEPT !.started = @ \cup {scroller},
                                       !.panning = IF moved THEN @ \cup {e} ELSE @,
                                       !.cancel_click = @ \/ moved]
<1>1. In("move") /\ Return(result) /\ UNCHANGED <<tree, told, crashed>>
  BY DEF Moved
<1>2. /\ Running(stack, result, told, st.focused, Calm(st)) /\ result \in BOOLEAN
      /\ Remembers(st, exists) /\ st \in Statics /\ Pressing(st, press) /\ TreeAgrees /\ exists \subseteq Element
  BY DEF IInv, Running, Remembers, TreeAgrees
<1>3. stack # <<>> /\ Top.op = "move"
  BY <1>1, InTop
<1>4. Running(stack', result', told, st.focused, Calm(st))
  BY <1>1, <1>2, <1>3, Returned
<1>5. CASE UNCHANGED <<st, press>>
  BY <1>1, <1>4, <1>5, QuietStep
<1>6. /\ still \in Statics /\ still.hovered = st.hovered /\ still.captured = st.captured /\ still.focused = st.focused
      /\ still.cancel_click = st.cancel_click /\ still.key_pressed = st.key_pressed
      /\ still.long_click \subseteq st.long_click /\ still.auto_click = st.auto_click /\ still.late = st.late
      /\ still.panning = st.panning /\ still.started = st.started
  BY <1>2 DEF Statics
<1>7. CASE st' = still /\ press' = press
  <2>1. Remembers(still, exists) /\ Pressing(still, press) /\ Calm(still) = Calm(st)
    BY <1>2, <1>6 DEF Remembers, Timed, Pressing, Calm
  <2> QED
    BY <1>1, <1>4, <1>6, <1>7, <2>1, StepKeeps
<1>8. ASSUME NEW moved \in BOOLEAN, e # NULL, scroller # NULL, st' = pan(moved),
             press' = [press EXCEPT !.quiet = @ \/ moved]
      PROVE  IInv'
  <2>1. scroller \in exists
    <3>1. FindStartedScroller(st, e) \in exists \cup {NULL} /\ Nearest(e, Scrollable) \in exists \cup {NULL}
      BY <1>2, NearestProperties DEF FindStartedScroller
    <3> QED
      BY <1>8, <3>1 DEF GetReadyScroller
  <2>2. e \in exists
    BY <1>2, <1>8 DEF Remembers
  <2> DEFINE cancel == still.cancel_click \/ moved
             panning == IF moved THEN still.panning \cup {e} ELSE still.panning
             t == [still EXCEPT !.started = @ \cup {scroller}, !.panning = panning, !.cancel_click = cancel]
  <2>3. pan(moved) = t
    OBVIOUS
  <2> HIDE DEF scroller, still, pan
  <2>4. cancel \in BOOLEAN /\ panning \in SUBSET Element /\ panning \subseteq still.panning \cup {e}
    <3>1. panning \in SUBSET Element /\ panning \subseteq still.panning \cup {e}
      BY <1>2, <1>6, <2>2 DEF Statics
    <3>2. cancel \in BOOLEAN
      OBVIOUS
    <3> QED
      BY <3>1, <3>2
  <2> HIDE DEF cancel, panning
  <2>5. /\ t \in Statics /\ t.hovered = still.hovered /\ t.captured = still.captured /\ t.focused = still.focused
        /\ t.cancel_click = cancel /\ t.key_pressed = still.key_pressed
        /\ t.long_click = still.long_click /\ t.auto_click = still.auto_click /\ t.late = still.late
        /\ t.panning = panning /\ t.started = still.started \cup {scroller}
    BY <1>2, <1>6, <2>1, <2>4 DEF Statics
  <2>6. st' = t
    BY <1>8, <2>3
  <2> HIDE DEF t
  <2>7. Remembers(t, exists) /\ Calm(t) = Calm(st)
    BY <1>2, <1>6, <2>1, <2>2, <2>5, <2>4 DEF Remembers, Timed, Calm
  <2>8. Pressing(t, press')
    BY <1>2, <1>6, <1>8, <2>5 DEF Pressing, cancel
  <2> QED
    BY <1>1, <1>4, <1>6, <2>5, <2>6, <2>7, <2>8, StepKeeps
<1> QED
  BY <1>5, <1>7, <1>8 DEF Moved, HandlePanningOnMove

-----------------------------------------------------------------------------
(* Keys *)

(* A key presses or clicks the focused element only, or goes to it. *)
LEMMA InvokeKeyStep ==
  ASSUME IInv, NEW key, NEW down \in BOOLEAN, InvokeKey(key, down)
  PROVE  IInv'
<1> DEFINE e == st.focused
           f == Frame("tab", NULL, NULL, "any")
           s == EmulatePress(down)
<1>1. stack = <<>> /\ UNCHANGED <<tree, told, press, crashed>>
  BY DEF InvokeKey, Idle
<1>2. /\ Running(stack, result, told, st.focused, Calm(st)) /\ result \in BOOLEAN
      /\ Remembers(st, exists) /\ st \in Statics /\ Pressing(st, press) /\ e \in Element \cup {NULL}
  BY DEF IInv, Running, Remembers, Statics
<1>3. CASE stack' = <<f>> /\ result' = FALSE /\ st' = st
  <2>1. f \in Frames /\ f.op = "tab" /\ Append(<<>>, f) = <<f>>
    BY DEF Frame, Frames
  <2> HIDE DEF f
  <2>2. Running(Append(<<>>, f), result', told, st.focused, Calm(st))
    BY <1>1, <1>2, <1>3, <2>1, Pushed
  <2> QED
    BY <1>1, <1>3, <2>1, <2>2, QuietStep
<1>4. CASE e # NULL /\ st' = s /\ result' = result /\ (stack' = stack \/ InvokeEvent(<<>>, e, "click"))
  <2> DEFINE had == IF down /\ st.check_pressed THEN st.focused \in st.pressed ELSE st.had_pressed
             on(set) == IF had THEN set ELSE IF down THEN set \cup {st.focused} ELSE set \ {st.focused}
             check == ~down
             pressed == on(st.pressed)
             key_pressed == on(st.key_pressed)
             t == [st EXCEPT !.had_pressed = had, !.check_pressed = check,
                             !.pressed = pressed, !.key_pressed = key_pressed]
  <2>1. s = t
    BY DEF EmulatePress
  <2>2. had \in BOOLEAN /\ e \in Element
    <3>1. st.had_pressed \in BOOLEAN /\ e \in Element
      BY <1>2, <1>4 DEF Statics
    <3>2. (st.focused \in st.pressed) \in BOOLEAN
      OBVIOUS
    <3> QED
      BY <3>1, <3>2, Zenon
  <2> HIDE DEF had, s
  <2>3. pressed \in SUBSET Element /\ key_pressed \in SUBSET Element /\ key_pressed \subseteq st.key_pressed \cup {e}
    BY <1>2, <2>2 DEF Statics
  <2>4. check \in BOOLEAN
    OBVIOUS
  <2> HIDE DEF pressed, key_pressed, check
  <2>5. /\ t \in Statics /\ t.hovered = st.hovered /\ t.captured = st.captured /\ t.focused = st.focused
        /\ t.cancel_click = st.cancel_click /\ t.key_pressed = key_pressed
        /\ t.long_click = st.long_click /\ t.auto_click = st.auto_click /\ t.late = st.late
        /\ t.panning = st.panning /\ t.started = st.started
    BY <1>2, <2>2, <2>3, <2>4 DEF Statics
  <2> HIDE DEF t
  <2>6. Remembers(t, exists) /\ Pressing(t, press) /\ Calm(t) = Calm(st)
    BY <1>2, <2>5, <2>3 DEF Remembers, Timed, Pressing, Calm
  <2>7. Running(stack', result', told, st.focused, Calm(st))
    BY <1>1, <1>2, <1>4, Invoked
  <2> QED
    BY <1>1, <1>4, <2>1, <2>5, <2>6, <2>7, StepKeeps
<1>5. CASE /\ UNCHANGED <<st, result>>
           /\ Invoke(<<>>, "tab", e, "any") \/ InvokeEvent(<<>>, e, "any")
  <2>1. Running(stack', result', told, st.focused, Calm(st))
    BY <1>1, <1>2, <1>5, Invoked, InvokedBy DEF Invoke
  <2> QED
    BY <1>1, <1>5, <2>1, QuietStep
<1> QED
  BY <1>3, <1>4, <1>5 DEF InvokeKey

(* A tab nobody handled moves the focus to an element that exists. *)
LEMMA TabPressedStep ==
  ASSUME IInv, TabPressed
  PROVE  IInv'
<1> DEFINE to == MoveFocusTarget
<1>1. In("tab") /\ UNCHANGED <<tree, press, crashed>>
  BY DEF TabPressed
<1>2. /\ Running(stack, result, told, st.focused, Calm(st)) /\ result \in BOOLEAN
      /\ Remembers(st, exists) /\ Pressing(st, press) /\ TreeAgrees
  BY DEF IInv, Running
<1>3. stack # <<>> /\ Top.op = "tab" /\ Top = Last(stack)
  BY <1>1, InTop
<1>4. CASE Return(result) /\ UNCHANGED <<st, told>>
  <2>1. Running(stack', result', told, st.focused, Calm(st))
    BY <1>2, <1>3, <1>4, Returned
  <2> QED
    BY <1>1, <1>4, <2>1, QuietStep
<1>5. CASE to # NULL /\ SetFocus(st, Front(stack), to) /\ result' = result
  <2>1. Running(Front(stack), result, told, st.focused, Calm(st))
    BY <1>2, <1>3, Popped
  <2>3. to \in exists
    BY <1>5, TargetExists
  <2>4. /\ Remembers(st', exists)
        /\ Running(stack', result, told', st'.focused, Calm(st'))
        /\ st'.captured = st.captured /\ st'.cancel_click = st.cancel_click
    BY <1>2, <1>5, <2>1, <2>3, SetFocusProperties
  <2>5. Pressing(st', press')
    BY <1>1, <1>2, <2>4 DEF Pressing
  <2> QED
    BY <1>1, <1>5, <2>4, <2>5, StepKeeps
<1> QED
  BY <1>4, <1>5 DEF TabPressed

-----------------------------------------------------------------------------
(* What the program does in a callback *)

(* ~Element: nothing that is gone is remembered. *)
LEMMA GoneKeeps ==
  ASSUME IInv, NEW set, Gone(set)
  PROVE  /\ Remembers(st', exists') /\ Pressing(st', press) /\ told' = told \ set
         /\ st'.focused = IF st.focused \in set THEN NULL ELSE st.focused
         /\ Calm(st) \subseteq Calm(st')
<1> DEFINE keep(e) == IF e \in set THEN NULL ELSE e
           auto_click == [e \in Element |-> IF e \in set THEN 0 ELSE st.auto_click[e]]
           t == [st EXCEPT !.hovered = keep(@), !.captured = keep(@), !.focused = keep(@),
                           !.long_click = @ \ set, !.panning = @ \ set, !.auto_click = auto_click,
                           !.started = @ \ set, !.scrolling = @ \ set,
                           !.pressed = @ \ set, !.key_pressed = @ \ set]
<1>1. st' = t /\ exists' = exists \ set /\ told' = told \ set
  BY DEF Gone
<1>2. Remembers(st, exists) /\ st \in Statics /\ Pressing(st, press)
  BY DEF IInv, Remembers
<1> DEFINE hovered == keep(st.hovered)
           captured == keep(st.captured)
           focused == keep(st.focused)
<1>3. {hovered, captured, focused} \subseteq Element \cup {NULL} /\ auto_click \in [Element -> Nat]
  BY <1>2 DEF Statics
<1>7. \A e \in Element : auto_click[e] = IF e \in set THEN 0 ELSE st.auto_click[e]
  OBVIOUS
<1>4. /\ t.hovered = hovered /\ t.captured = captured /\ t.focused = focused
      /\ t.cancel_click = st.cancel_click /\ t.key_pressed = st.key_pressed \ set
      /\ t.long_click = st.long_click \ set /\ t.auto_click = auto_click /\ t.late = st.late
      /\ t.panning = st.panning \ set /\ t.started = st.started \ set
      /\ t \in Statics
  <2> DEFINE u == [st EXCEPT !.hovered = hovered, !.captured = captured, !.focused = focused]
             v == [u EXCEPT !.long_click = @ \ set, !.panning = @ \ set, !.auto_click = auto_click,
                            !.started = @ \ set, !.scrolling = @ \ set,
                            !.pressed = @ \ set, !.key_pressed = @ \ set]
  <2> HIDE DEF auto_click
  <2>1. t = v
    BY <1>2 DEF Statics
  <2> HIDE DEF hovered, captured, focused, t
  <2>2. /\ u \in Statics /\ u.hovered = hovered /\ u.captured = captured /\ u.focused = focused
        /\ u.cancel_click = st.cancel_click /\ u.key_pressed = st.key_pressed
        /\ u.long_click = st.long_click /\ u.late = st.late
        /\ u.panning = st.panning /\ u.started = st.started
    BY <1>2, <1>3 DEF Statics
  <2> HIDE DEF u
  <2>3. /\ v \in Statics /\ v.hovered = u.hovered /\ v.captured = u.captured /\ v.focused = u.focused
        /\ v.cancel_click = u.cancel_click /\ v.key_pressed = u.key_pressed \ set
        /\ v.long_click = u.long_click \ set /\ v.auto_click = auto_click /\ v.late = u.late
        /\ v.panning = u.panning \ set /\ v.started = u.started \ set
    BY <1>3, <2>2 DEF Statics
  <2> HIDE DEF v
  <2> QED
    BY <2>1, <2>2, <2>3
<1> HIDE DEF t, auto_click
<1>8. \A e \in Element : t.auto_click[e] = IF e \in set THEN 0 ELSE st.auto_click[e]
  BY <1>4, <1>7
<1>9. Timed(t) /\ \A e \in Element \ (exists \ set) : t.auto_click[e] = 0
  <2>1. Timed(st) /\ \A e \in Element \ exists : st.auto_click[e] = 0
    BY <1>2 DEF Remembers
  <2>2. ASSUME NEW e \in Element \ t.late
        PROVE  t.auto_click[e] = 0 \/ (t.auto_click[e] = 1 /\ e = t.captured)
    BY <1>4, <1>8, <2>1, <2>2 DEF Timed
  <2>3. \A e \in Element \ AutoRepeat : t.auto_click[e] = 0
    BY <1>8, <2>1 DEF Timed
  <2>4. t.long_click \subseteq {t.captured}
    BY <1>4, <2>1 DEF Timed
  <2>5. \A e \in Element \ (exists \ set) : t.auto_click[e] = 0
    BY <1>8, <2>1
  <2> QED
    BY <2>2, <2>3, <2>4, <2>5 DEF Timed
<1>5. Remembers(t, exists \ set)
  BY <1>2, <1>4, <1>9 DEF Remembers
<1>6. Pressing(t, press)
  BY <1>2, <1>4 DEF Pressing
<1>10. Calm(st) \subseteq Calm(t)
  BY <1>4, <1>8 DEF Calm
<1> QED
  BY <1>1, <1>4, <1>5, <1>6, <1>10

(* An element that goes, or is removed *)
LEMMA DetachKeeps ==
  ASSUME IInv, NEW e, e # Root, NEW and_delete, Detach(e, and_delete), NEW t, NEW r, NEW r2 \in BOOLEAN,
         Running(t, r, told, st.focused, Calm(st))
  PROVE  /\ TreeAgrees' /\ Rooted' /\ Remembers(st', exists') /\ Pressing(st', press)
         /\ Running(t, r2, told', st'.focused, Calm(st'))
<1>1. TreeAgrees' /\ Rooted'
  BY Detached DEF IInv
<1>2. /\ Remembers(st', exists') /\ Pressing(st', press) /\ Tells(t, told', st'.focused)
      /\ Calm(st) \subseteq Calm(st')
  <2>1. Tells(t, told, st.focused)
    BY DEF Running
  <2>2. CASE and_delete
    <3>1. Gone(Deep(e))
      BY <2>2 DEF Detach, Delete
    <3>2. /\ Remembers(st', exists') /\ Pressing(st', press) /\ told' = told \ Deep(e)
          /\ st'.focused = IF st.focused \in Deep(e) THEN NULL ELSE st.focused
          /\ Calm(st) \subseteq Calm(st')
      BY <3>1, GoneKeeps
    <3> QED
      BY <2>1, <3>2 DEF Tells
  <2>3. CASE ~and_delete
    <3>1. exists' = exists /\ st' = st /\ told' = told
      BY <2>3 DEF Detach
    <3> QED
      BY <2>1, <3>1 DEF IInv
  <2> QED
    BY <2>2, <2>3
<1>3. Running(t, r2, told', st'.focused, Calm(st'))
  BY <1>2, Freed
<1> QED
  BY <1>1, <1>2, <1>3

(* The focus was handed on: the element is removed then, if it is still there,
   and it is not the root. *)
LEMMA EndRemoveStep ==
  ASSUME IInv, EndRemove
  PROVE  IInv'
<1>1. In("remove")
  BY DEF EndRemove
<1>2. Running(stack, result, told, st.focused, Calm(st))
  BY DEF IInv
<1>3. stack # <<>> /\ Top.op = "remove" /\ Top = Last(stack)
  BY <1>1, InTop
<1>4. /\ stack \in Seq(Frames) /\ Len(stack) \in DOMAIN stack /\ Top = stack[Len(stack)]
      /\ DOMAIN Front(stack) = 1 .. Len(stack) - 1 /\ DOMAIN stack = 1 .. Len(stack) /\ Len(stack) \in Nat
      /\ \A i \in 1 .. Len(stack) - 1 : Front(stack)[i] = stack[i]
  BY <1>2, <1>3, TopProperties DEF Running
<1>5. CASE Crash("RemoveChild")
  BY <1>5, CrashStep
<1>6. CASE Detach(Top.el, Top.type = "delete") /\ Return(FALSE) /\ UNCHANGED <<calls, press, crashed>>
  <2>1. Running(Front(stack), FALSE, told, st.focused, Calm(st))
    BY <1>2, <1>3, Popped
  <2>2. Top.el # Root
    BY <1>2, <1>3, <1>4 DEF Running, Tells
  <2>5. stack' = Front(stack) /\ result' = FALSE /\ press' = press /\ crashed' = crashed
    BY <1>6 DEF Return
  <2>6. /\ TreeAgrees' /\ Rooted' /\ Remembers(st', exists') /\ Pressing(st', press)
        /\ Running(Front(stack), FALSE, told', st'.focused, Calm(st'))
    BY <1>6, <2>1, <2>2, DetachKeeps
  <2> QED
    BY <2>5, <2>6 DEF IInv
<1> QED
  BY <1>5, <1>6 DEF EndRemove

(* The beginning of a removal: at once, or after the focus was handed on *)
LEMMA BeginRemoveKeeps ==
  ASSUME IInv, NEW e \in Element, NEW and_delete \in BOOLEAN, BeginRemove(e, and_delete), e # Root,
         UNCHANGED <<result, press, crashed>>
  PROVE  IInv'
<1>1. /\ Running(stack, result, told, st.focused, Calm(st)) /\ result \in BOOLEAN
      /\ Remembers(st, exists) /\ Pressing(st, press) /\ TreeAgrees
  BY DEF IInv, Running
<1>2. result' = result /\ press' = press /\ crashed' = crashed
  OBVIOUS
<1>3. CASE HandsOn(e)
  <2> DEFINE f == Frame("remove", e, Parent(e), IF and_delete THEN "delete" ELSE "remove")
             base == Append(stack, f)
  <2>1. /\ SetFocus(st, base, MoveFocusTarget)
        /\ children' = children /\ exists' = exists /\ disabled' = disabled
        /\ dying' = IF and_delete THEN dying \cup {e} ELSE dying
    BY <1>3 DEF BeginRemove
  <2>2. MoveFocusTarget \in exists
    BY <1>3, TargetExists DEF HandsOn
  <2>3. e \in exists
    <3>1. e # NULL
      BY Constants
    <3> QED
      BY <1>1, <1>3, <3>1 DEF HandsOn, Remembers
  <2>4. f \in Frames /\ f.op = "remove" /\ f.el = e
    <3>1. Parent(e) \in Element \cup {NULL}
      BY <1>1, ParentProperties DEF TreeAgrees
    <3> QED
      BY <3>1 DEF Frame, Frames
  <2> HIDE DEF f
  <2>5. Running(base, result, told, st.focused, Calm(st))
    BY <1>1, <2>3, <2>4, Pushed
  <2> HIDE DEF base
  <2>7. /\ Remembers(st', exists)
        /\ Running(stack', result, told', st'.focused, Calm(st'))
        /\ st'.captured = st.captured /\ st'.cancel_click = st.cancel_click
    BY <1>1, <2>1, <2>2, <2>5, SetFocusProperties
  <2>8. TreeAgrees' /\ Pressing(st', press)
    BY <1>1, <2>1, <2>7 DEF TreeAgrees, Pressing
  <2>9. Rooted'
    BY <2>1 DEF IInv, Rooted
  <2> QED
    BY <1>2, <2>1, <2>7, <2>8, <2>9 DEF IInv
<1>4. CASE ~HandsOn(e)
  <2>1. Detach(e, and_delete) /\ stack' = stack
    BY <1>4 DEF BeginRemove
  <2>2. /\ TreeAgrees' /\ Rooted' /\ Remembers(st', exists') /\ Pressing(st', press)
        /\ Running(stack, result, told', st'.focused, Calm(st'))
    BY <1>1, <2>1, DetachKeeps
  <2> QED
    BY <1>2, <2>1, <2>2 DEF IInv
<1> QED
  BY <1>3, <1>4

(* An element dies, at once or when the listener that kept it lets it go. *)
LEMMA DieStep ==
  ASSUME IInv, NEW e \in Element, NEW kept \in BOOLEAN, Die(e, kept)
  PROVE  IInv'
<1>1. /\ e # Root /\ UNCHANGED <<result, press, crashed>>
  BY DEF Die, Call
<1>2. CASE kept
  <2>1. /\ dying' = dying \cup {e} /\ children' = children /\ exists' = exists /\ disabled' = disabled
        /\ st' = st /\ stack' = stack /\ told' = told /\ result' = result /\ press' = press /\ crashed' = crashed
    BY <1>1, <1>2 DEF Die
  <2> QED
    BY <1>1, <2>1 DEF IInv, TreeAgrees, Rooted
<1>3. CASE ~kept
  <2>1. BeginRemove(e, TRUE)
    BY <1>3 DEF Die
  <2> QED
    BY <1>1, <2>1, BeginRemoveKeeps
<1> QED
  BY <1>2, <1>3

(* The listener that kept a dying element deletes it. *)
LEMMA FinishDyingStep ==
  ASSUME IInv, NEW e \in Element, FinishDying(e)
  PROVE  IInv'
<1>1. /\ stack = <<>> /\ e \in dying /\ BeginRemove(e, TRUE) /\ UNCHANGED <<result, press, crashed>>
  BY DEF FinishDying, Idle
<1>2. e # Root
  BY <1>1 DEF IInv, Rooted
<1> QED
  BY <1>1, <1>2, BeginRemoveKeeps

(* An element is removed and lives on without a parent. *)
LEMMA RemoveChildStep ==
  ASSUME IInv, NEW e \in Element, RemoveChild(e)
  PROVE  IInv'
<1>1. /\ e # Root /\ UNCHANGED <<result, press, crashed>>
      /\ BeginRemove(e, FALSE)
  BY DEF RemoveChild, Call
<1> QED
  BY <1>1, BeginRemoveKeeps

(* Only the children change. *)
LEMMA TreeStep ==
  ASSUME IInv, TreeAgrees', Rooted', exists' = exists,
         UNCHANGED <<st, stack, result, told, press, crashed>>
  PROVE  IInv'
  BY DEF IInv

(* An element without a parent becomes a child of the root, and of that only. *)
LEMMA AddChildStep ==
  ASSUME IInv, NEW e \in Element, AddChild(e)
  PROVE  IInv'
<1>1. /\ e \in exists \ {Root} /\ Parent(e) = NULL
      /\ children' = [children EXCEPT ![Root] = Append(@, e)]
      /\ UNCHANGED <<exists, dying, disabled, st, stack, result, told, press, crashed>>
  BY DEF AddChild
<1>2. TreeAgrees /\ Rooted /\ Root \in exists /\ NULL \notin exists /\ exists \subseteq Element
  BY Constants DEF IInv, TreeAgrees, Rooted
<1>3. \A q \in Element : e \notin ToSet(children[q])
  <2>1. SUFFICES ASSUME NEW q \in Element, e \in ToSet(children[q])
                 PROVE  FALSE
    OBVIOUS
  <2>2. q \in exists
    BY <1>2, <2>1 DEF TreeAgrees
  <2> QED
    BY <1>1, <1>2, <2>1, <2>2, ParentProperties
<1>4. children \in [Element -> Seq(Element)] /\ \A q \in Element : ToSet(children[q]) = ToSet(children[q]) \ {e}
  BY <1>2, <1>3 DEF TreeAgrees
<1> QED
  BY <1>1, <1>2, <1>4, Linked, TreeStep

(* set_z leaves every element with the parent it has. *)
LEMMA RaiseStep ==
  ASSUME IInv, NEW e \in Element, Raise(e)
  PROVE  IInv'
<1>1. /\ e \in exists /\ Parent(e) # NULL
      /\ children' = [Unlink(e) EXCEPT ![Parent(e)] = Append(@, e)]
      /\ UNCHANGED <<exists, dying, disabled, st, stack, result, told, press, crashed>>
  BY DEF Raise
<1>2. TreeAgrees /\ Rooted /\ exists \subseteq Element
  BY DEF IInv, TreeAgrees
<1>3. Parent(e) \in exists /\ e \in ToSet(children[Parent(e)])
  BY <1>1, <1>2, ParentProperties
<1>4. e # Root
  BY <1>2, <1>3 DEF Rooted
<1>5. /\ Unlink(e) \in [Element -> Seq(Element)]
      /\ \A q \in Element : ToSet(Unlink(e)[q]) = ToSet(children[q]) \ {e}
  BY <1>2, Unlinked
<1>6. TreeAgrees' /\ Rooted'
  BY <1>1, <1>2, <1>3, <1>4, <1>5, Linked
<1>7. exists' = exists /\ UNCHANGED <<st, stack, result, told, press, crashed>>
  BY <1>1
<1> QED
  BY <1>6, <1>7, TreeStep

(* What is disabled concerns no call. *)
LEMMA SetStateStep ==
  ASSUME IInv, NEW e \in Element, SetState(e)
  PROVE  IInv'
<1>1. /\ disabled' \subseteq disabled \cup {e} /\ children' = children /\ exists' = exists /\ dying' = dying
      /\ UNCHANGED <<st, stack, result, told, press, crashed>>
  BY DEF SetState
<1>2. TreeAgrees' /\ Rooted'
  BY <1>1 DEF IInv, TreeAgrees, Rooted
<1> QED
  BY <1>1, <1>2, TreeStep

(* What is hidden concerns no call. *)
LEMMA SetVisibilityStep ==
  ASSUME IInv, NEW e \in Element, SetVisibility(e)
  PROVE  IInv'
<1>1. /\ disabled' = disabled /\ children' = children /\ exists' = exists /\ dying' = dying
      /\ UNCHANGED <<st, stack, result, told, press, crashed>>
  BY DEF SetVisibility
<1>2. TreeAgrees' /\ Rooted'
  BY <1>1 DEF IInv, TreeAgrees, Rooted
<1> QED
  BY <1>1, <1>2, TreeStep

(* The program ends a capture: nothing is known of a press then. *)
LEMMA ReleaseCaptureStep ==
  ASSUME IInv, ReleaseCapture
  PROVE  IInv'
<1>1. UNCHANGED <<tree, stack, result, told, press, crashed>>
  BY DEF ReleaseCapture, Call
<1>2. Remembers(st', exists) /\ st'.focused = st.focused /\ st'.captured = NULL /\ Calm(st) \subseteq Calm(st')
  BY ReleaseKeeps DEF ReleaseCapture
<1>3. /\ Running(stack, result, told, st.focused, Calm(st)) /\ result \in BOOLEAN /\ Pressing(st, press)
      /\ Tells(stack, told, st.focused)
  BY DEF IInv, Running
<1>4. Running(stack, result, told, st.focused, Calm(st'))
  BY <1>2, <1>3, Freed
<1>5. Pressing(st', press')
  BY <1>1, <1>2, <1>3 DEF Pressing
<1> QED
  BY <1>1, <1>2, <1>4, <1>5, StepKeeps

(* The program moves the focus: who gets it is about to be told. *)
LEMMA set_focusStep ==
  ASSUME IInv, NEW e \in Element, set_focus(e)
  PROVE  IInv'
<1>1. e \in exists /\ SetFocus(st, stack, e) /\ UNCHANGED <<tree, result, press, crashed>>
  BY DEF set_focus, Call
<1>2. /\ Running(stack, result, told, st.focused, Calm(st)) /\ result \in BOOLEAN
      /\ Remembers(st, exists) /\ Pressing(st, press) /\ TreeAgrees
  BY DEF IInv, Running
<1>4. /\ Remembers(st', exists)
      /\ Running(stack', result, told', st'.focused, Calm(st'))
      /\ st'.captured = st.captured /\ st'.cancel_click = st.cancel_click
  BY <1>1, <1>2, SetFocusProperties
<1>5. Pressing(st', press')
  BY <1>1, <1>2, <1>4 DEF Pressing
<1> QED
  BY <1>1, <1>4, <1>5, StepKeeps

(* What looks pressed concerns no call. *)
LEMMA set_valueStep ==
  ASSUME IInv, NEW e \in Element, set_value(e)
  PROVE  IInv'
<1> DEFINE t == [st EXCEPT !.pressed = IF e \in @ THEN @ \ {e} ELSE @ \cup {e}]
<1>1. st' = t /\ UNCHANGED <<tree, stack, result, told, press, crashed>>
  BY DEF set_value
<1>2. /\ Running(stack, result, told, st.focused, Calm(st))
      /\ Remembers(st, exists) /\ st \in Statics /\ Pressing(st, press)
  BY DEF IInv, Remembers
<1>3. /\ t \in Statics /\ t.hovered = st.hovered /\ t.captured = st.captured /\ t.focused = st.focused
      /\ t.cancel_click = st.cancel_click /\ t.key_pressed = st.key_pressed
      /\ t.long_click = st.long_click /\ t.auto_click = st.auto_click /\ t.late = st.late
      /\ t.panning = st.panning /\ t.started = st.started
  BY <1>2 DEF Statics
<1> HIDE DEF t
<1>4. Remembers(t, exists) /\ Pressing(t, press) /\ Calm(t) = Calm(st)
  BY <1>2, <1>3 DEF Remembers, Timed, Pressing, Calm
<1> QED
  BY <1>1, <1>2, <1>3, <1>4, StepKeeps

-----------------------------------------------------------------------------
(* The invariant holds *)

(* At first nothing is remembered and no call is under way. *)
LEMMA InitHolds ==
  ASSUME Init
  PROVE  IInv
<1>1. /\ children = Tree /\ exists = Element /\ dying = {} /\ disabled = {}
      /\ stack = <<>> /\ result = FALSE /\ told = {} /\ press = [el |-> NULL, quiet |-> FALSE]
  BY DEF Init
<1>2. /\ st \in Statics /\ st.hovered = NULL /\ st.captured = NULL /\ st.focused = NULL
      /\ st.cancel_click = FALSE /\ st.key_pressed = {} /\ st.long_click = {} /\ st.auto_click = [e \in Element |-> 0]
      /\ st.panning = {} /\ st.started = {}
  BY DEF Init, Statics
<1>3. TreeAgrees /\ Rooted
  <2>1. \A p \in Element : ToSet(Tree[p]) \subseteq Element
    BY EventsAssumption DEF ToSet
  <2> QED
    BY <1>1, <2>1, EventsAssumption DEF TreeAgrees, Rooted
<1>4. Remembers(st, exists) /\ Pressing(st, press)
  BY <1>1, <1>2, EventsAssumption DEF Remembers, Timed, Pressing
<1>5. Running(stack, result, told, st.focused, Calm(st))
  <2>1. <<>> \in Seq(Frames) /\ DOMAIN <<>> = {}
    OBVIOUS
  <2> QED
    BY <1>1, <1>2, <2>1 DEF Running, Tells, Holds
<1> QED
  BY <1>1, <1>3, <1>4, <1>5 DEF IInv

(* Every step keeps the invariant, action by action. *)
LEMMA NextKeeps ==
  ASSUME IInv, [Next]_vars
  PROVE  IInv'
<1>1. CASE Input
  <2>1. ASSUME NEW pos \in Position,
               \/ \E touch \in BOOLEAN : InvokePointerDown(pos, touch)
               \/ InvokePointerUp(pos) \/ InvokePointerMove(pos) \/ InvokeWheel(pos)
        PROVE  IInv'
    BY <2>1, InvokePointerDownStep, InvokePointerUpStep, InvokePointerMoveStep, InvokeWheelStep
  <2>2. ASSUME NEW e \in Element,
               MaybeInvokeLongClickOrContextMenu(e) \/ AutoClick(e) \/ ScrollEnds(e) \/ FinishDying(e)
        PROVE  IInv'
    BY <2>2, MaybeInvokeLongClickOrContextMenuStep, AutoClickStep, ScrollEndsStep, FinishDyingStep
  <2> QED
    BY <1>1, <2>1, <2>2, InvokeKeyStep DEF Input
<1>2. CASE Step
  BY <1>2, ListenersStep, OnEventStep, OnFocusChangedStep, FocusDoneStep, PointerDownStep, PointerUpStep,
     ReleaseStep, LongClickedStep, ContextMenuStep, AutoClickedStep, MovedStep, TabPressedStep, EndRemoveStep
     DEF Step
<1>3. CASE Program
  <2>1. ASSUME NEW e \in Element,
               \/ \E kept \in BOOLEAN : Die(e, kept)
               \/ RemoveChild(e) \/ AddChild(e) \/ Raise(e) \/ SetState(e) \/ SetVisibility(e)
               \/ set_focus(e) \/ set_value(e)
        PROVE  IInv'
    BY <2>1, DieStep, RemoveChildStep, AddChildStep, RaiseStep, SetStateStep, SetVisibilityStep,
       set_focusStep, set_valueStep
  <2> QED
    BY <1>3, <2>1, ReleaseCaptureStep DEF Program
<1>4. CASE UNCHANGED vars
  <2>1. UNCHANGED <<tree, crashed, st, stack, result, told, press>>
    BY <1>4 DEF vars
  <2> QED
    BY <2>1, QuietStep DEF IInv
<1> QED
  BY <1>1, <1>2, <1>3, <1>4 DEF Next

(* In every state of every run the invariant holds. *)
THEOREM Invariance == Spec => []IInv
  BY InitHolds, NextKeeps, PTL DEF Spec

(* What a crash says of the state it leaves: it is one of the four calls that do
   not look again, and a repeated click that comes while its button is not
   captured was posted late. *)
CrashKnown ==
  /\ crashed \in {"", "OnEvent", "MaybeInvokeLongClickOrContextMenu", "PostMessageDelayed",
                  "OnMessageReceived", "RemoveChild"}
  /\ crashed = "OnMessageReceived" => \E e \in st.late \ {st.captured} : st.auto_click[e] > 0

(* A step that begins in a state without a crash crashes in one of these calls. *)
LEMMA CrashKnownStep ==
  ASSUME IInv, CrashKnown, [Next]_vars
  PROVE  CrashKnown'
<1>1. CASE crashed' = crashed /\ (crashed = "" \/ st' = st)
  BY <1>1 DEF CrashKnown
<1>2. ASSUME NEW call \in {"OnEvent", "MaybeInvokeLongClickOrContextMenu", "PostMessageDelayed", "RemoveChild"},
             Crash(call)
      PROVE  CrashKnown'
  BY <1>2 DEF Crash, CrashKnown
<1>3. ASSUME NEW e \in Element, st.auto_click[e] > 0, st.captured # e, Crash("OnMessageReceived")
      PROVE  CrashKnown'
  <2>1. e \in st.late
    BY <1>3 DEF IInv, Remembers, Timed
  <2>2. st' = st /\ crashed' = "OnMessageReceived"
    BY <1>3 DEF Crash
  <2> QED
    BY <1>3, <2>1, <2>2 DEF CrashKnown
<1>4. CASE Input
  <2>1. ASSUME NEW pos, \/ \E touch \in BOOLEAN : InvokePointerDown(pos, touch)
                        \/ InvokePointerUp(pos) \/ InvokePointerMove(pos) \/ InvokeWheel(pos)
        PROVE  crashed' = crashed /\ crashed = ""
    BY <2>1 DEF InvokePointerDown, InvokePointerUp, InvokePointerMove, InvokeWheel, Hover, Idle
  <2>2. ASSUME NEW key, NEW down, InvokeKey(key, down)
        PROVE  crashed' = crashed /\ crashed = ""
    BY <2>2 DEF InvokeKey, Idle
  <2>3. ASSUME NEW e, MaybeInvokeLongClickOrContextMenu(e) \/ ScrollEnds(e) \/ FinishDying(e)
        PROVE  crashed' = crashed /\ crashed = ""
    BY <2>3 DEF MaybeInvokeLongClickOrContextMenu, ScrollEnds, FinishDying, Idle
  <2>4. ASSUME NEW e \in Element, AutoClick(e)
        PROVE  CrashKnown'
    BY <1>1, <1>3, <2>4 DEF AutoClick, Idle
  <2> QED
    BY <1>1, <1>4, <2>1, <2>2, <2>3, <2>4 DEF Input
<1>5. CASE Step
  <2>1. ASSUME \/ Listeners \/ OnFocusChanged \/ FocusDone \/ PointerDown \/ PointerUp \/ Release
               \/ ContextMenu \/ Moved \/ TabPressed
        PROVE  crashed' = crashed /\ crashed = ""
    BY <2>1 DEF Listeners, OnFocusChanged, FocusDone, PointerDown, PointerUp, Release, ContextMenu, Moved,
       TabPressed, In
  <2>2. ASSUME OnEvent \/ LongClicked \/ AutoClicked \/ EndRemove
        PROVE  \/ crashed' = crashed /\ crashed = ""
               \/ \E call \in {"OnEvent", "MaybeInvokeLongClickOrContextMenu", "PostMessageDelayed", "RemoveChild"} :
                    Crash(call)
    BY <2>2 DEF OnEvent, LongClicked, AutoClicked, EndRemove, In
  <2> QED
    BY <1>1, <1>2, <1>5, <2>1, <2>2 DEF Step
<1>6. CASE Program
  <2>1. ASSUME NEW e, \/ \E kept \in BOOLEAN : Die(e, kept)
                      \/ RemoveChild(e) \/ AddChild(e) \/ Raise(e) \/ SetState(e) \/ SetVisibility(e)
                      \/ set_focus(e) \/ set_value(e) \/ ReleaseCapture
        PROVE  crashed' = crashed /\ Callback
    BY <2>1 DEF Die, RemoveChild, AddChild, Raise, SetState, SetVisibility, set_focus, set_value, ReleaseCapture, Call
  <2>2. Callback => crashed = ""
    BY DEF Callback, Idle, In
  <2> QED
    BY <1>1, <1>6, <2>1, <2>2 DEF Program
<1>7. CASE UNCHANGED vars
  BY <1>1, <1>7 DEF vars
<1> QED
  BY <1>4, <1>5, <1>6, <1>7 DEF Next

(* Whatever handlers do, nothing that was deleted is remembered, and no call
   reaches it but where InvokeEvent, MaybeInvokeLongClickOrContextMenu, a
   repeated click and RemoveChild do not look again. *)
THEOREM CallsReach == Spec => []CallsReachElements
<1>1. IInv /\ CrashKnown => CallsReachElements
  <2>1. ASSUME IInv, CrashKnown
        PROVE  CallsReachElements
    <3>1. st \in Statics /\ Remembers(st, exists)
      BY <2>1 DEF IInv, Remembers
    <3>2. \A e \in Repeating : e \in exists
      BY <3>1 DEF Remembers, Repeating
    <3> QED
      BY <2>1, <3>1, <3>2 DEF Remembers, CrashKnown, CallsReachElements
  <2> QED
    BY <2>1
<1>2. Init => CrashKnown
  BY DEF Init, CrashKnown
<1> QED
  BY <1>1, <1>2, CrashKnownStep, Invariance, PTL DEF Spec

(* Whatever handlers do, a long click or a repeated click is of what is captured
   but for late ones (SetCapturedElement, Button::OnMessageReceived). *)
THEOREM TimersFollow == Spec => []TimersFollowCapture
<1>1. IInv => TimersFollowCapture
  BY DEF IInv, Remembers, Timed, TimersFollowCapture
<1> QED
  BY <1>1, Invariance, PTL

(* Whatever handlers do, between two events the focused element is the one
   that was told so (Element::set_focus). *)
THEOREM FocusTold == Spec => []FocusToldAgrees
<1>1. IInv => FocusToldAgrees
  <2>1. ASSUME IInv, stack = <<>>
        PROVE  told = {st.focused} \ {NULL}
    BY <2>1 DEF IInv, Running, Tells
  <2> QED
    BY <2>1 DEF IInv, Remembers, FocusToldAgrees
<1> QED
  BY <1>1, Invariance, PTL

(* A step out of kPointerUp clicks what the pointer went down on, exactly if
   nothing took the click away (InvokePointerUp). *)
LEMMA PointerUpClicks ==
  ASSUME IInv, Next, In("up"), ~In("up")'
  PROVE  LET clicked == In("listen")' /\ Top'.type = "click"
         IN  /\ clicked <=> /\ st.captured # NULL /\ ~press.quiet
                            /\ GetHitStatus(st.captured, Top.at)
             /\ clicked => Top'.el = press.el
<1>1. /\ stack # <<>> /\ stack \in Seq(Frames) /\ Top.op = "up" /\ Front(stack) \in Seq(Frames)
      /\ st.captured \in Element \cup {NULL}
  BY InTop, TopProperties DEF IInv, Remembers, Statics, In
<1>2. PointerUp
  <2>1. ~Callback
    BY <1>1 DEF Callback, Idle, In
  <2>2. ~Program
    BY <2>1 DEF Program, Call, Die, RemoveChild, AddChild, Raise, SetState, SetVisibility, ReleaseCapture,
       set_focus, set_value
  <2>3. ~Input
    <3>1. /\ \A pos, touch : InvokePointerDown(pos, touch) => Idle
          /\ \A pos : (InvokePointerUp(pos) => Idle) /\ (Hover(pos) => Idle)
          /\ \A pos : (InvokePointerMove(pos) => Hover(pos)) /\ (InvokeWheel(pos) => Hover(pos))
      <4>1. ASSUME NEW pos, NEW touch, InvokePointerDown(pos, touch)
            PROVE  Idle
        BY <4>1 DEF InvokePointerDown
      <4>2. \A pos : (InvokePointerUp(pos) => Idle) /\ (Hover(pos) => Idle)
        BY DEF InvokePointerUp, Hover
      <4>3. \A pos : (InvokePointerMove(pos) => Hover(pos)) /\ (InvokeWheel(pos) => Hover(pos))
        BY DEF InvokePointerMove, InvokeWheel
      <4> QED
        BY <4>1, <4>2, <4>3
    <3>2. \A key, down : InvokeKey(key, down) => Idle
      BY DEF InvokeKey
    <3>3. \A e : /\ (MaybeInvokeLongClickOrContextMenu(e) => Idle) /\ (AutoClick(e) => Idle)
                 /\ (ScrollEnds(e) => Idle) /\ (FinishDying(e) => Idle)
      BY DEF MaybeInvokeLongClickOrContextMenu, AutoClick, ScrollEnds, FinishDying
    <3>4. Input => Idle
      BY <3>1, <3>2, <3>3 DEF Input
    <3> QED
      BY <1>1, <3>4 DEF Idle
  <2>4. Step => PointerUp
    BY <1>1 DEF Step, In, Listeners, OnEvent, OnFocusChanged, FocusDone, PointerDown, Release, LongClicked,
       ContextMenu, AutoClicked, Moved, TabPressed, EndRemove
  <2> QED
    BY <2>2, <2>3, <2>4 DEF Next
<1>3. crashed' = crashed
  BY <1>2 DEF PointerUp
<1>4. Clicks(Top.at) <=> st.captured # NULL /\ ~press.quiet /\ GetHitStatus(st.captured, Top.at)
  BY DEF Clicks, IInv, Pressing
<1>5. CASE Clicks(Top.at) /\ Invoke(Front(stack), "release", st.captured, "click")
  <2> DEFINE under == Append(Front(stack), Frame("release", st.captured, NULL, "click"))
             f == Frame("listen", st.captured, NULL, "click")
  <2>1. stack' = Append(under, f)
    BY <1>5 DEF Invoke, InvokeEvent
  <2>2. /\ f \in Frames /\ f.op = "listen" /\ f.type = "click" /\ f.el = st.captured
        /\ Frame("release", st.captured, NULL, "click") \in Frames
    BY <1>1 DEF Frame, Frames
  <2>3. under \in Seq(Frames)
    BY <1>1, <2>2, PushProperties
  <2> HIDE DEF under, f
  <2>4. stack' # <<>> /\ Last(stack') = f
    BY <2>1, <2>2, <2>3, PushProperties
  <2>5. In("listen")' /\ Top' = f
    BY <1>1, <1>3, <2>2, <2>4 DEF In, Top
  <2>6. press.el = st.captured
    BY <1>4, <1>5 DEF IInv, Pressing
  <2> QED
    BY <1>4, <1>5, <2>2, <2>5, <2>6
<1>6. CASE ~Clicks(Top.at) /\ Become(Frame("release", NULL, NULL, "any"))
  <2> DEFINE f == Frame("release", NULL, NULL, "any")
  <2>1. stack' = Append(Front(stack), f)
    BY <1>6 DEF Become
  <2>2. f \in Frames /\ f.op = "release"
    BY DEF Frame, Frames
  <2> HIDE DEF f
  <2>3. Last(stack') = f
    BY <1>1, <2>1, <2>2, PushProperties
  <2>4. ~In("listen")'
    BY <2>2, <2>3 DEF In, Top
  <2> QED
    BY <1>4, <1>6, <2>4
<1> QED
  BY <1>2, <1>5, <1>6 DEF PointerUp

(* After kPointerUp a click goes to what the pointer went down on, and only if
   nothing took it away (InvokePointerUp). *)
THEOREM ClicksFollow == Spec => ClickFollowsPress
<1>1. IInv /\ [Next]_vars =>
        [In("up") /\ ~In("up")' =>
           LET clicked == In("listen")' /\ Top'.type = "click"
           IN  /\ clicked <=> /\ st.captured # NULL /\ ~press.quiet
                              /\ GetHitStatus(st.captured, Top.at)
               /\ clicked => Top'.el = press.el]_vars
  BY PointerUpClicks
<1> QED
  BY <1>1, Invariance, PTL DEF Spec, ClickFollowsPress
=============================================================================
