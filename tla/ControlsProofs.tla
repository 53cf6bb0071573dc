-------------------------- MODULE ControlsProofs ----------------------------
(***************************************************************************)
(* Proofs about five parts that the controls are built of.                 *)
(*                                                                         *)
(* Popups, for any elements and windows: what is open has its target, and  *)
(* what closes leaves no dimmer and no animation behind.  What an operator *)
(* does to a ui is stated for any ui, since the actions apply several of   *)
(* them one after the other.                                               *)
(*                                                                         *)
(* ListBoxes, which menus and others show: a valid list has the items of   *)
(* its source, and the one of its value is selected.                       *)
(*                                                                         *)
(* ElementValues: the elements connected to a value show it, and one box   *)
(* of a group is on.  The calls under way are a stack, and what they still *)
(* owe the others is said of any stack.                                    *)
(*                                                                         *)
(* Panels: of tab and split containers, group and spin boxes, what follows *)
(* from something else follows it.                                         *)
(*                                                                         *)
(* TextBoxes: caret, bar, size and selection of a text box agree with what *)
(* is done to it.                                                          *)
(***************************************************************************)
EXTENDS Popups, ListBoxes, ElementValues, Panels, TextBoxes, ListLemmas, FiniteSetTheorems

Objects == Element \cup Window

(* What can have the focus *)
Focusables == {e \in Element : e \in ToSet(Fields[FormOf(e)])}

(* What forms remember of the focus *)
Memories == {l \in [Forms -> Element \cup {NULL}] : \A f \in Forms : l[f] \in ToSet(Fields[f]) \cup {NULL}}

UI == [z : Seq(Forms \cup {DimmerOf(w) : w \in Window}),
       dying : SUBSET Window, target : [Window -> Element \cup {NULL}],
       dimmers : SUBSET Window, dimmers_dying : SUBSET Window,
       anims : SUBSET ((Window \cup {DimmerOf(w) : w \in Window}) \X {"in", "out"}),
       active : SUBSET Forms, last : Memories, focus : Focusables \cup {NULL}, moved : BOOLEAN]

DimmersOf(set) == {DimmerOf(w) : w \in set}

(* What fades out *)
Leaving(u) == {a[1] : a \in {b \in u.anims : b[2] = "out"}}

(* Exists, for any windows shown and any elements that are left *)
There(e, shown, live) == IF Windows[e] = {} THEN e \in live ELSE Windows[e] \subseteq shown

(* w has its target, if it needs one, and that does not die, unless w is a
   tooltip. *)
Sits(u, live, w) ==
  /\ w \in Tooltip \/ Target[w] # NULL => u.target[w] # NULL
  /\ u.target[w] # NULL => /\ There(u.target[w], Shown(u), live)
                           /\ w \in Tooltip \/ Inside(u.target[w]) \cap u.dying = {}

(* Dimmers and animations are those of the windows that are shown or die. *)
Fades(u) ==
  /\ u.dying \subseteq Shown(u) /\ u.dimmers \subseteq Dimmed \cap Shown(u) /\ u.dimmers_dying \subseteq u.dimmers
  /\ u.dimmers \ u.dimmers_dying = (Dimmed \cap Shown(u)) \ u.dying
  /\ u.dying \cup DimmersOf(u.dimmers_dying) = Leaving(u)
  /\ \A a \in u.anims : a[1] \in Shown(u) \cup DimmersOf(u.dimmers)

(* Only what is shown has a target, and none is in a tooltip. *)
Targets(u) ==
  \A w \in Window : (w \notin Shown(u) => u.target[w] = NULL) /\ Inside(u.target[w]) \cap Tooltip = {}

Base(u) == u \in UI /\ Fades(u) /\ Targets(u)

(* All that are open sit on their targets, but for some. *)
OpenBut(u, live, some) == \A w \in Shown(u) \ (u.dying \cup some) : Sits(u, live, w)

Sound(u, live) == Base(u) /\ OpenBut(u, live, {})

(* The tooltip w of the manager is open, unless there is a reason. *)
Held(u, w) == w # NULL => w \in Shown(u) \ u.dying \/ u.moved \/ Lost(u, w)

TipAgrees ==
  /\ tip \in [m_tooltip : Tooltip \cup {NULL}, m_last_tipped_element : Tipped \cup {NULL},
              show : SUBSET Tipped, hide : SUBSET Window]
  /\ Held(ui, tip.m_tooltip)

(* The inductive invariant *)
IInv == Sound(ui, present) /\ present \subseteq Element /\ hovered \in Objects \cup {NULL} /\ TipAgrees

-----------------------------------------------------------------------------
(* Reached holds what it starts from, and is closed. *)
LEMMA ReachedClosed ==
  ASSUME NEW within, NEW from \in SUBSET within, NEW next \in [within -> SUBSET within]
  PROVE  /\ Reached(from, next, within) \subseteq within
         /\ from \subseteq Reached(from, next, within)
         /\ \A y \in Reached(from, next, within) : next[y] \subseteq Reached(from, next, within)
<1> DEFINE R == Reached(from, next, within)
<1>1. R \subseteq within /\ from \subseteq R
  BY DEF Reached
<1>2. ASSUME NEW y \in R, NEW z \in next[y]
      PROVE  z \in R
  <2>1. z \in within
    BY <1>1
  <2>2. CASE \A x \in from : next[x] \subseteq from
    BY <2>2 DEF Reached
  <2>3. CASE z \in from
    BY <1>1, <2>3
  <2>4. CASE z \notin from /\ ~(\A x \in from : next[x] \subseteq from)
    <3>1. ASSUME NEW set \in SUBSET (within \ from), \A x \in from \cup set : next[x] \subseteq from \cup set
          PROVE  z \in set
      <4>1. y \in from \cup set
        BY <2>4, <3>1 DEF Reached
      <4> QED
        BY <2>4, <3>1, <4>1
    <3> QED
      BY <2>1, <2>4, <3>1 DEF Reached
  <2> QED
    BY <2>2, <2>3, <2>4
<1> QED
  BY <1>1, <1>2

(* It lies in every such set. *)
LEMMA ReachedLeast ==
  ASSUME NEW within, NEW from, NEW next, NEW set \in SUBSET within,
         from \subseteq set, \A y \in set : next[y] \subseteq set
  PROVE  Reached(from, next, within) \subseteq set
<1> DEFINE rest == set \ from
<1>1. rest \in SUBSET (within \ from) /\ from \cup rest = set
  OBVIOUS
<1> HIDE DEF rest
<1>2. \A y \in from \cup rest : next[y] \subseteq from \cup rest
  BY <1>1
<1> QED
  BY <1>1, <1>2 DEF Reached

(* The constants, in the words the proofs use *)
LEMMA Constants ==
  /\ Element \cap Window = {} /\ NULL \notin Objects /\ Tooltip \subseteq Window /\ Tooltip \cap Dimmed = {}
  /\ Dimmed \subseteq Window /\ \A w \in Window : DimmerOf(w) \notin Objects
  /\ \A x \in Objects : Parents(x) \in Objects \cup {NULL}
  /\ \A w \in Window : Contents[w] \in Element
  /\ \A w \in Window \ Tooltip : Target[w] \in Element \cup {NULL} /\ Inside(Target[w]) \cap Tooltip = {}
  /\ Tipped \subseteq Element /\ \A e \in Tipped : Inside(e) \cap Tooltip = {}
  /\ DropDown \in Element /\ DropMenu \in Window \ Tooltip /\ Target[DropMenu] = DropDown
  /\ Main \notin Objects \cup {NULL} /\ \A w \in Window : Main # DimmerOf(w)
  /\ \A f \in Forms : Fields[f] \in Seq(Element) /\ ToSet(Fields[f]) \subseteq Element
<1> HIDE DEF DimmerOf
<1>1. \A f \in Forms : Fields[f] \in Seq(Element)
  BY PopupsAssumption
<1>2. \A s \in Seq(Element) : ToSet(s) \subseteq Element
  BY DEF ToSet
<1> QED
  BY <1>1, <1>2, PopupsAssumption DEF Objects, Parents

-----------------------------------------------------------------------------
(* Inside goes up through the parents to the end. *)
LEMMA InsideClosed ==
  /\ Inside(NULL) = {}
  /\ \A x \in Objects : /\ Inside(x) \subseteq Objects /\ x \in Inside(x)
                        /\ \A y \in Inside(x) : Parents(y) # NULL => Parents(y) \in Inside(x)
  /\ \A x \in Objects : \A set \in SUBSET Objects :
       x \in set /\ (\A y \in set : Parents(y) # NULL => Parents(y) \in set) => Inside(x) \subseteq set
<1> DEFINE up == [x \in Objects |-> {Parents(x)} \ {NULL}]
<1>1. up \in [Objects -> SUBSET Objects]
  BY Constants
<1>2. \A x \in Objects \cup {NULL} : Inside(x) = Reached({x} \ {NULL}, up, Objects)
  BY DEF Inside, Ancestry, Objects
<1>3. \A x \in Objects : up[x] = {Parents(x)} \ {NULL}
  OBVIOUS
<1> HIDE DEF up
<1>4. Inside(NULL) = {}
  <2>1. Reached({}, up, Objects) \subseteq {}
    BY ReachedLeast
  <2> QED
    BY <1>2, <2>1
<1>5. ASSUME NEW x \in Objects
      PROVE  /\ Inside(x) \subseteq Objects /\ x \in Inside(x)
             /\ \A y \in Inside(x) : Parents(y) # NULL => Parents(y) \in Inside(x)
  <2>1. x # NULL /\ {x} \ {NULL} = {x} /\ {x} \in SUBSET Objects
    BY Constants
  <2>2. Inside(x) = Reached({x}, up, Objects)
    BY <1>2, <2>1
  <2>3. /\ Reached({x}, up, Objects) \subseteq Objects /\ {x} \subseteq Reached({x}, up, Objects)
        /\ \A y \in Reached({x}, up, Objects) : up[y] \subseteq Reached({x}, up, Objects)
    BY <1>1, <2>1, ReachedClosed
  <2> QED
    BY <1>3, <2>2, <2>3
<1>6. ASSUME NEW x \in Objects, NEW set \in SUBSET Objects, x \in set,
             \A y \in set : Parents(y) # NULL => Parents(y) \in set
      PROVE  Inside(x) \subseteq set
  <2>1. \A y \in set : up[y] \subseteq set
    BY <1>3, <1>6
  <2>2. Reached({x} \ {NULL}, up, Objects) \subseteq set
    BY <1>6, <2>1, ReachedLeast
  <2> QED
    BY <1>2, <2>2
<1> QED
  BY <1>4, <1>5, <1>6

(* What holds of Inside *)
LEMMA InsideProperties ==
  /\ Inside(NULL) = {}
  /\ \A x \in Objects : x \in Inside(x) /\ Inside(x) \subseteq Objects
  /\ \A x \in Objects : \A y \in Inside(x) : Inside(y) \subseteq Inside(x)
  /\ \A x \in Objects : Inside(x) \subseteq {x} \cup Inside(Parents(x))
  /\ \A x \in Objects \cup {NULL} : Windows[x] = Inside(x) \cap Window
<1>1. \A x \in Objects \cup {NULL} : Windows[x] = Inside(x) \cap Window
  BY DEF Windows, Inside, Ancestry, Objects
<1>2. ASSUME NEW x \in Objects, NEW y \in Inside(x)
      PROVE  Inside(y) \subseteq Inside(x)
  <2>1. y \in Objects
    BY InsideClosed
  <2> QED
    BY <2>1, InsideClosed
<1>3. ASSUME NEW x \in Objects
      PROVE  Inside(x) \subseteq {x} \cup Inside(Parents(x))
  <2> DEFINE set == {x} \cup Inside(Parents(x))
  <2>1. CASE Parents(x) = NULL
    <3>1. set = {x} /\ {x} \in SUBSET Objects
      BY <2>1, InsideClosed
    <3>2. \A y \in {x} : Parents(y) # NULL => Parents(y) \in {x}
      BY <2>1
    <3>3. Inside(x) \subseteq {x}
      BY <3>1, <3>2, InsideClosed
    <3> QED
      BY <3>1, <3>3
  <2>2. CASE Parents(x) # NULL
    <3>1. Parents(x) \in Objects
      BY <2>2, Constants
    <3>2. /\ Inside(Parents(x)) \subseteq Objects /\ Parents(x) \in Inside(Parents(x))
          /\ \A y \in Inside(Parents(x)) : Parents(y) # NULL => Parents(y) \in Inside(Parents(x))
      BY <3>1, InsideClosed
    <3>3. set \in SUBSET Objects /\ x \in set /\ \A y \in set : Parents(y) # NULL => Parents(y) \in set
      BY <3>2
    <3> HIDE DEF set
    <3>4. Inside(x) \subseteq set
      BY <3>3, InsideClosed
    <3> QED
      BY <3>4 DEF set
  <2> QED
    BY <2>1, <2>2
<1> QED
  BY <1>1, <1>2, <1>3, InsideClosed

(* A window is in nothing but itself. *)
LEMMA InsideWindow ==
  ASSUME NEW w \in Window
  PROVE  Inside(w) = {w} /\ Windows[w] = {w}
<1>1. w \in Objects /\ Parents(w) = NULL
  BY DEF Objects, Parents
<1>2. Inside(w) = {w}
  BY <1>1, InsideProperties
<1> QED
  BY <1>1, <1>2, InsideProperties

(* All that an element is in is in its window. *)
LEMMA InsideOne ==
  ASSUME NEW x \in Objects, NEW w \in Windows[x], NEW y \in Inside(x)
  PROVE  w \in Inside(y)
<1> DEFINE set == {z \in Inside(x) : w \in Inside(z)}
<1>1. w \in Window /\ w \in Inside(x) /\ x \in Inside(x) /\ Inside(x) \subseteq Objects
  BY InsideProperties
<1>2. set \in SUBSET Objects /\ x \in set
  BY <1>1
<1>3. ASSUME NEW z \in set, Parents(z) # NULL
      PROVE  Parents(z) \in set
  <2>1. z \in Objects /\ z # w /\ Parents(z) \in Inside(x)
    BY <1>1, <1>3, InsideClosed DEF Parents
  <2>2. Inside(z) \subseteq {z} \cup Inside(Parents(z))
    BY <2>1, InsideProperties
  <2> QED
    BY <1>3, <2>1, <2>2
<1>4. Inside(x) \subseteq set
  BY <1>2, <1>3, InsideClosed
<1> QED
  BY <1>4

(* The nearest of some elements *)
LEMMA NearestProperties ==
  ASSUME NEW h \in Objects \cup {NULL}, NEW some
  PROVE  Nearest(h, some) # NULL => Nearest(h, some) \in some \cap Inside(h)
<1> DEFINE tipped == Inside(h) \cap some
           ahead == {x \in Inside(h) : tipped \subseteq Inside(x)}
<1> SUFFICES ASSUME tipped # {}
             PROVE  \E e \in tipped : \A f \in tipped : f \in Inside(e)
  BY DEF Nearest
<1>1. h \in Objects
  BY InsideProperties
<1>2. h \in ahead /\ ahead \subseteq Inside(h) /\ Inside(h) \subseteq Objects
  BY <1>1, InsideProperties
<1>3. CASE \E x \in ahead : x \in some
  <2>1. PICK e \in ahead : e \in some
    BY <1>3
  <2>2. e \in tipped /\ \A f \in tipped : f \in Inside(e)
    BY <2>1
  <2> QED
    BY <2>2
<1>4. CASE \A x \in ahead : x \notin some
  <2>1. ASSUME NEW x \in ahead
        PROVE  Parents(x) # NULL => Parents(x) \in ahead
    <3> SUFFICES ASSUME Parents(x) # NULL PROVE Parents(x) \in ahead
      OBVIOUS
    <3>1. x \in Objects /\ x \notin tipped
      BY <1>2, <1>4
    <3>2. Inside(x) \subseteq {x} \cup Inside(Parents(x))
      BY <3>1, InsideProperties
    <3>3. tipped \subseteq Inside(Parents(x))
      BY <3>1, <3>2
    <3>4. Parents(x) \in Inside(h)
      BY <1>1, <1>2, InsideClosed
    <3> QED
      BY <3>3, <3>4
  <2>2. Inside(h) \subseteq ahead
    <3>1. ahead \in SUBSET Objects
      BY <1>2
    <3> HIDE DEF ahead
    <3> QED
      BY <1>1, <1>2, <2>1, <3>1, InsideClosed
  <2> QED
    BY <1>4, <2>2
<1> QED
  BY <1>3, <1>4

-----------------------------------------------------------------------------
(* What hangs on some: these, and what hangs on it, as far as it is shown *)
LEMMA HangingClosed ==
  ASSUME NEW u, NEW from
  PROVE  LET hanging == Hanging(u, from)
         IN  /\ hanging \subseteq Shown(u) /\ Shown(u) \cap from \subseteq hanging
             /\ \A w \in Shown(u) : Inside(u.target[w]) \cap (from \cup hanging) # {} => w \in hanging
<1> DEFINE first == {w \in Shown(u) : w \in from \/ Inside(u.target[w]) \cap from # {}}
           next == [v \in Shown(u) |-> {w \in Shown(u) : v \in Inside(u.target[w])}]
           hanging == Hanging(u, from)
<1>1. hanging = Reached(first, next, Shown(u))
  BY DEF Hanging
<1>2. first \in SUBSET Shown(u) /\ next \in [Shown(u) -> SUBSET Shown(u)]
  OBVIOUS
<1>3. \A v \in Shown(u) : next[v] = {w \in Shown(u) : v \in Inside(u.target[w])}
  OBVIOUS
<1> HIDE DEF next, hanging
<1>4. hanging \subseteq Shown(u) /\ first \subseteq hanging /\ \A v \in hanging : next[v] \subseteq hanging
  <2> HIDE DEF first
  <2> QED
    BY <1>1, <1>2, ReachedClosed
<1>5. ASSUME NEW w \in Shown(u), NEW x \in Inside(u.target[w]), x \in hanging
      PROVE  w \in hanging
  BY <1>3, <1>4, <1>5
<1> QED
  BY <1>4, <1>5 DEF hanging

(* And nothing else *)
LEMMA HangingLeast ==
  ASSUME NEW u, NEW from, NEW set \in SUBSET Shown(u),
         \A w \in Shown(u) : w \in from \/ Inside(u.target[w]) \cap (from \cup set) # {} => w \in set
  PROVE  Hanging(u, from) \subseteq set
<1> DEFINE first == {w \in Shown(u) : w \in from \/ Inside(u.target[w]) \cap from # {}}
           next == [v \in Shown(u) |-> {w \in Shown(u) : v \in Inside(u.target[w])}]
<1>1. Hanging(u, from) = Reached(first, next, Shown(u))
  BY DEF Hanging
<1>2. first \subseteq set
  OBVIOUS
<1>3. \A v \in set : next[v] \subseteq set
  OBVIOUS
<1> HIDE DEF first, next
<1> QED
  BY <1>1, <1>2, <1>3, ReachedLeast

(* What an event for e goes through does not hang on pop-ups it does not go
   through. *)
LEMMA UnrelatedHang ==
  ASSUME NEW u \in UI, NEW e \in Element
  PROVE  Inside(e) \cap Hanging(u, Unrelated(u, e)) = {}
<1> DEFINE to == [w \in Window |-> Windows[u.target[w]]]
           through == Destinations(u, e)
           others == Shown(u) \ through
           unrelated == Unrelated(u, e)
<1>1. e \in Objects /\ \A w \in Window : u.target[w] \in Objects \cup {NULL}
  BY DEF Objects, UI
<1>2. \A x \in Objects \cup {NULL} : Windows[x] = Inside(x) \cap Window
  BY InsideProperties
<1>3. to \in [Window -> SUBSET Window] /\ Windows[e] \in SUBSET Window
  BY <1>1, <1>2
<1>4. \A w \in Window : to[w] = Inside(u.target[w]) \cap Window
  BY <1>1, <1>2
<1>5. through = Reached(Windows[e], to, Window)
  BY DEF Destinations
<1> HIDE DEF to, through
<1>6. /\ through \subseteq Window /\ Windows[e] \subseteq through
      /\ \A w \in through : Inside(u.target[w]) \cap Window \subseteq through
  BY <1>3, <1>4, <1>5, ReachedClosed
<1>7. unrelated \subseteq Shown(u) \ through
  BY DEF Unrelated, through
<1>8. Shown(u) \subseteq Window
  BY DEF Shown
<1> HIDE DEF unrelated
<1>9. ASSUME NEW w \in Shown(u), w \in unrelated \/ Inside(u.target[w]) \cap (unrelated \cup others) # {}
      PROVE  w \in others
  BY <1>6, <1>7, <1>8, <1>9
<1>10. others \in SUBSET Shown(u)
  OBVIOUS
<1> HIDE DEF others
<1>11. Hanging(u, unrelated) \subseteq others
  BY <1>9, <1>10, HangingLeast
<1>12. Inside(e) \cap others = {}
  BY <1>1, <1>2, <1>6, <1>8 DEF others
<1> QED
  BY <1>11, <1>12 DEF unrelated

(* What hangs on some is one of them, or its target is in them or hangs on them. *)
LEMMA HangingBecause ==
  ASSUME NEW u, NEW from, NEW w \in Hanging(u, from)
  PROVE  w \in from \/ Inside(u.target[w]) \cap (from \cup Hanging(u, from)) # {}
<1> DEFINE hanging == Hanging(u, from)
           because == {x \in hanging : x \in from \/ Inside(u.target[x]) \cap (from \cup hanging) # {}}
<1>1. /\ hanging \subseteq Shown(u) /\ Shown(u) \cap from \subseteq hanging
      /\ \A x \in Shown(u) : Inside(u.target[x]) \cap (from \cup hanging) # {} => x \in hanging
  BY HangingClosed
<1> HIDE DEF hanging
<1>2. ASSUME NEW x \in Shown(u), x \in from \/ Inside(u.target[x]) \cap (from \cup because) # {}
      PROVE  x \in because
  BY <1>1, <1>2
<1>3. because \in SUBSET Shown(u)
  BY <1>1
<1> HIDE DEF because
<1>4. hanging \subseteq because
  BY <1>2, <1>3, HangingLeast DEF hanging
<1> QED
  BY <1>4 DEF because, hanging

(* Where elements and windows are *)
LEMMA FormOfProperties ==
  ASSUME NEW x \in Objects
  PROVE  /\ FormOf(x) \in Forms
         /\ Windows[x] = {} => FormOf(x) = Main
         /\ Windows[x] # {} => FormOf(x) \in Windows[x]
         /\ Windows[x] \subseteq Window
<1>1. Windows[x] \subseteq Window
  BY InsideProperties
<1> QED
  BY <1>1 DEF FormOf, Forms

(* An element is in one window at most. *)
LEMMA OneWindow ==
  ASSUME NEW x \in Objects
  PROVE  Windows[x] = {FormOf(x)} \ {Main}
<1>1. Main \notin Window /\ Windows[x] \subseteq Window /\ Windows[x] = Inside(x) \cap Window
  BY Constants, InsideProperties DEF Objects
<1>2. ASSUME NEW w \in Windows[x], NEW v \in Windows[x]
      PROVE  w = v
  <2>1. w \in Inside(v) /\ v \in Window
    BY <1>1, InsideOne
  <2> QED
    BY <2>1, InsideWindow
<1> QED
  BY <1>1, <1>2, FormOfProperties

(* The focusable elements of a form are in it. *)
LEMMA FieldsOf ==
  ASSUME NEW f \in Forms, NEW e \in ToSet(Fields[f])
  PROVE  e \in Focusables /\ FormOf(e) = f
<1>1. e \in Element /\ Windows[e] = {f} \ {Main}
  BY PopupsAssumption, Constants DEF ToSet
<1>2. Windows[e] = {FormOf(e)} \ {Main} /\ FormOf(e) \in Forms
  BY <1>1, OneWindow, FormOfProperties DEF Objects
<1>3. FormOf(e) = f
  BY <1>1, <1>2 DEF FormOf
<1> QED
  BY <1>1, <1>3 DEF Focusables

-----------------------------------------------------------------------------
(* The fields of a ui after Close *)
LEMMA CloseFields ==
  ASSUME NEW u \in UI, NEW from
  PROVE  LET v == Close(u, from)
             closing == Hanging(u, from) \ u.dying
             dimmed == closing \cap u.dimmers
         IN  /\ v \in UI
             /\ v.z = u.z /\ v.dying = u.dying \cup closing /\ v.target = u.target /\ v.dimmers = u.dimmers
             /\ v.dimmers_dying = u.dimmers_dying \cup dimmed
             /\ v.anims = u.anims \cup {<<o, "out">> : o \in closing \cup DimmersOf(dimmed)}
             /\ v.active = u.active /\ v.last = u.last /\ v.focus = u.focus /\ v.moved = u.moved
<1> DEFINE closing == Hanging(u, from) \ u.dying
           dimmed == closing \cap u.dimmers
           died == [u EXCEPT !.dying = @ \cup closing]
           faded == FadeOut(died, closing)
           v == Close(u, from)
<1>1. Shown(u) \subseteq Window
  BY DEF Shown
<1>2. closing \subseteq Window /\ dimmed \subseteq Window
  BY <1>1, HangingClosed
<1>3. v = OnDie(faded, closing)
  BY DEF Close
<1> HIDE DEF closing
<1>4. /\ died.z = u.z /\ died.dying = u.dying \cup closing /\ died.target = u.target
      /\ died.dimmers = u.dimmers /\ died.dimmers_dying = u.dimmers_dying /\ died.anims = u.anims
      /\ died.active = u.active /\ died.last = u.last /\ died.focus = u.focus /\ died.moved = u.moved
      /\ died \in UI
  BY <1>2 DEF UI
<1> HIDE DEF died
<1> DEFINE outs == {<<o, "out">> : o \in closing}
           ends == {<<o, "out">> : o \in DimmersOf(dimmed)}
<1>5. outs \subseteq (Window \cup {DimmerOf(w) : w \in Window}) \X {"in", "out"}
  BY <1>2
<1>6. ends \subseteq (Window \cup {DimmerOf(w) : w \in Window}) \X {"in", "out"}
  BY <1>2 DEF DimmersOf
<1>7. faded = [died EXCEPT !.anims = @ \cup outs]
  BY DEF FadeOut
<1>8. outs \cup ends = {<<o, "out">> : o \in closing \cup DimmersOf(dimmed)}
  OBVIOUS
<1> HIDE DEF outs
<1>9. /\ faded.z = u.z /\ faded.dying = u.dying \cup closing /\ faded.target = u.target
      /\ faded.dimmers = u.dimmers /\ faded.dimmers_dying = u.dimmers_dying /\ faded.anims = u.anims \cup outs
      /\ faded.active = u.active /\ faded.last = u.last /\ faded.focus = u.focus /\ faded.moved = u.moved
      /\ faded \in UI
  BY <1>4, <1>5, <1>7 DEF UI
<1> HIDE DEF faded
<1>10. v = [[faded EXCEPT !.dimmers_dying = @ \cup dimmed] EXCEPT !.anims = @ \cup ends]
  BY <1>3, <1>9 DEF OnDie, FadeOut, DimmersOf
<1> HIDE DEF v, ends, dimmed
<1>11. /\ v.z = u.z /\ v.dying = u.dying \cup closing /\ v.target = u.target
       /\ v.dimmers = u.dimmers /\ v.dimmers_dying = u.dimmers_dying \cup dimmed
       /\ v.anims = (u.anims \cup outs) \cup ends
       /\ v.active = u.active /\ v.last = u.last /\ v.focus = u.focus /\ v.moved = u.moved
       /\ v \in UI
  BY <1>2, <1>6, <1>9, <1>10 DEF UI
<1>12. v.anims = u.anims \cup {<<o, "out">> : o \in closing \cup DimmersOf(dimmed)}
  BY <1>8, <1>11
<1> QED
  BY <1>11, <1>12 DEF v, dimmed, closing

(* Closing what some hang on: those that were not open on their targets are
   among what closes. *)
LEMMA CloseSound ==
  ASSUME NEW u, NEW live, NEW from, Base(u), OpenBut(u, live, from)
  PROVE  LET v == Close(u, from)
         IN  /\ Sound(v, live) /\ Shown(v) = Shown(u) /\ v.target = u.target /\ v.moved = u.moved
             /\ v.dying = u.dying \cup Hanging(u, from)
<1> DEFINE hanging == Hanging(u, from)
           closing == hanging \ u.dying
           dimmed == closing \cap u.dimmers
           v == Close(u, from)
           ends == {<<o, "out">> : o \in closing \cup DimmersOf(dimmed)}
<1>1. u \in UI /\ Fades(u) /\ Targets(u)
  BY DEF Base
<1>2. /\ v \in UI
      /\ v.z = u.z /\ v.dying = u.dying \cup closing /\ v.target = u.target /\ v.dimmers = u.dimmers
      /\ v.dimmers_dying = u.dimmers_dying \cup dimmed
      /\ v.anims = u.anims \cup ends /\ v.moved = u.moved
  BY <1>1, CloseFields
<1>3. /\ hanging \subseteq Shown(u) /\ Shown(u) \cap from \subseteq hanging
      /\ \A w \in Shown(u) : Inside(u.target[w]) \cap (from \cup hanging) # {} => w \in hanging
  BY HangingClosed
<1> HIDE DEF v, hanging
<1>4. Shown(v) = Shown(u) /\ v.dying = u.dying \cup hanging
  BY <1>2 DEF Shown
<1>5. Targets(v)
  BY <1>1, <1>2, <1>4 DEF Targets
<1>6. Fades(v)
  <2>1. /\ u.dying \subseteq Shown(u) /\ u.dimmers \subseteq Dimmed \cap Shown(u) /\ u.dimmers_dying \subseteq u.dimmers
        /\ u.dimmers \ u.dimmers_dying = (Dimmed \cap Shown(u)) \ u.dying
        /\ u.dying \cup DimmersOf(u.dimmers_dying) = Leaving(u)
        /\ \A a \in u.anims : a[1] \in Shown(u) \cup DimmersOf(u.dimmers)
    BY <1>1 DEF Fades
  <2>2. v.dying \subseteq Shown(v) /\ v.dimmers \subseteq Dimmed \cap Shown(v) /\ v.dimmers_dying \subseteq v.dimmers
    BY <1>2, <1>3, <1>4, <2>1
  <2>3. v.dimmers \ v.dimmers_dying = (Dimmed \cap Shown(v)) \ v.dying
    BY <1>2, <1>3, <1>4, <2>1
  <2>4. Leaving(v) = Leaving(u) \cup (closing \cup DimmersOf(dimmed))
    <3>1. \A a \in ends : a[2] = "out" /\ a[1] \in closing \cup DimmersOf(dimmed)
      OBVIOUS
    <3>2. \A o \in closing \cup DimmersOf(dimmed) : <<o, "out">> \in ends
      OBVIOUS
    <3> HIDE DEF ends, closing, dimmed
    <3>3. ASSUME NEW o \in Leaving(v) PROVE o \in Leaving(u) \cup (closing \cup DimmersOf(dimmed))
      <4>1. PICK a \in v.anims : a[2] = "out" /\ o = a[1]
        BY DEF Leaving
      <4> QED
        BY <1>2, <3>1, <4>1 DEF Leaving
    <3>4. ASSUME NEW o \in Leaving(u) PROVE o \in Leaving(v)
      <4>1. PICK a \in u.anims : a[2] = "out" /\ o = a[1]
        BY DEF Leaving
      <4> QED
        BY <1>2, <4>1 DEF Leaving
    <3>5. ASSUME NEW o \in closing \cup DimmersOf(dimmed) PROVE o \in Leaving(v)
      <4> DEFINE a == <<o, "out">>
      <4>1. a \in v.anims /\ a[2] = "out" /\ o = a[1]
        BY <1>2, <3>2
      <4> HIDE DEF a
      <4> QED
        BY <4>1 DEF Leaving
    <3> QED
      BY <3>3, <3>4, <3>5
  <2>5. DimmersOf(v.dimmers_dying) = DimmersOf(u.dimmers_dying) \cup DimmersOf(dimmed)
    BY <1>2 DEF DimmersOf
  <2>6. v.dying \cup DimmersOf(v.dimmers_dying) = Leaving(v)
    BY <1>2, <2>1, <2>4, <2>5
  <2>7. \A a \in v.anims : a[1] \in Shown(v) \cup DimmersOf(v.dimmers)
    <3>1. closing \subseteq Shown(u) /\ DimmersOf(dimmed) \subseteq DimmersOf(u.dimmers)
      BY <1>3 DEF DimmersOf
    <3> QED
      BY <1>2, <1>4, <2>1, <3>1
  <2> QED
    BY <2>2, <2>3, <2>6, <2>7 DEF Fades
<1>7. OpenBut(v, live, {})
  <2> SUFFICES ASSUME NEW w \in Shown(v) \ v.dying
               PROVE  Sits(v, live, w)
    BY DEF OpenBut
  <2>1. w \in Shown(u) \ (u.dying \cup from) /\ w \notin hanging
    BY <1>3, <1>4
  <2>2. Sits(u, live, w)
    BY <2>1 DEF OpenBut
  <2>3. Inside(u.target[w]) \cap hanging = {}
    BY <1>3, <2>1
  <2> QED
    BY <1>2, <1>4, <2>2, <2>3 DEF Sits
<1> QED
  BY <1>2, <1>4, <1>5, <1>6, <1>7 DEF Sound, Base, v, hanging

-----------------------------------------------------------------------------
(* What the other operators do to a sound ui *)

(* Closing of what is open on its target *)
LEMMA CloseKeepsSound ==
  ASSUME NEW u, NEW live, NEW from, Sound(u, live)
  PROVE  LET v == Close(u, from)
         IN  /\ Sound(v, live) /\ Shown(v) = Shown(u) /\ v.target = u.target /\ v.moved = u.moved
             /\ v.dying = u.dying \cup Hanging(u, from)
<1>1. Base(u) /\ OpenBut(u, live, from)
  BY DEF Sound, OpenBut
<1> QED
  BY <1>1, CloseSound

(* Where the focus is, and which form is active and on top, is nothing to what
   is shown and what closes. *)
Resembles(u, v) ==
  /\ v \in UI /\ Shown(v) = Shown(u) /\ v.dying = u.dying /\ v.target = u.target
  /\ v.dimmers = u.dimmers /\ v.dimmers_dying = u.dimmers_dying /\ v.anims = u.anims

LEMMA ResemblesSound ==
  ASSUME NEW u, NEW live, Sound(u, live), NEW v, Resembles(u, v)
  PROVE  Sound(v, live)
<1>1. u \in UI /\ Fades(u) /\ Targets(u) /\ OpenBut(u, live, {})
  BY DEF Sound, Base
<1>2. Fades(v)
  BY <1>1 DEF Resembles, Fades, Leaving
<1>3. Targets(v)
  BY <1>1 DEF Resembles, Targets
<1>4. OpenBut(v, live, {})
  BY <1>1 DEF Resembles, OpenBut, Sits
<1> QED
  BY <1>2, <1>3, <1>4 DEF Sound, Base, Resembles

(* KillToolTip *)
LEMMA KillSound ==
  ASSUME NEW u, NEW live, Sound(u, live), NEW t
  PROVE  LET v == Kill(u, t)
         IN  Sound(v, live) /\ Shown(v) = Shown(u) /\ v.target = u.target /\ u.dying \subseteq v.dying
<1> DEFINE closed == IF t.m_tooltip = NULL THEN u ELSE Close(u, {t.m_tooltip})
           v == Kill(u, t)
<1>1. Sound(closed, live) /\ Shown(closed) = Shown(u) /\ closed.target = u.target /\ u.dying \subseteq closed.dying
  BY CloseKeepsSound
<1>2. v = [closed EXCEPT !.moved = FALSE]
  BY DEF Kill
<1> HIDE DEF closed, v
<1>3. closed \in UI
  BY <1>1 DEF Sound, Base
<1>4. Resembles(closed, v) /\ v.target = closed.target /\ v.dying = closed.dying
  BY <1>2, <1>3 DEF UI, Resembles, Shown
<1>5. Sound(v, live) /\ Shown(v) = Shown(closed)
  BY <1>1, <1>4, ResemblesSound DEF Resembles
<1> QED
  BY <1>1, <1>4, <1>5 DEF v

(* v is u after the focus moved, or did not: if it did not, nothing closed. *)
Follows(u, live, v) ==
  /\ Sound(v, live) /\ Shown(v) = Shown(u) /\ v.target = u.target /\ u.dying \subseteq v.dying
  /\ u.moved => v.moved
  /\ v.dying = u.dying \/ v.moved

(* The focus moved to form f, if it did: what is in that and what it goes
   through stays open. *)
Spares(u, f, v) == \A x \in Element : FormOf(x) = f => Inside(x) \cap v.dying \subseteq u.dying

(* One after the other *)
LEMMA FollowsOn ==
  ASSUME NEW u, NEW live, NEW v, NEW w, Follows(u, live, v), Follows(v, live, w)
  PROVE  /\ Follows(u, live, w)
         /\ \A f : Spares(u, f, v) /\ Spares(v, f, w) => Spares(u, f, w)
  BY DEF Follows, Spares

LEMMA FollowsItself ==
  ASSUME NEW u, NEW live, Sound(u, live)
  PROVE  Follows(u, live, u) /\ \A f : Spares(u, f, u)
  BY DEF Follows, Spares

LEMMA ResemblesFollows ==
  ASSUME NEW u, NEW live, Sound(u, live), NEW v, Resembles(u, v), v.moved = u.moved
  PROVE  Follows(u, live, v) /\ \A f : Spares(u, f, v)
  BY ResemblesSound DEF Resembles, Follows, Spares

(* set_focus closes pop-ups only when the focus moves, and not what it moves in. *)
LEMMA SetFocusSound ==
  ASSUME NEW u, NEW live, Sound(u, live), NEW e \in Element
  PROVE  Follows(u, live, set_focus(u, e)) /\ Spares(u, FormOf(e), set_focus(u, e))
<1> DEFINE f == FormOf(e)
           remembered == [u EXCEPT !.last[f] = e]
           focused == [remembered EXCEPT !.focus = e, !.moved = TRUE]
<1>1. u \in UI /\ e \in Objects
  BY DEF Sound, Base, Objects
<1>2. CASE u.focus = e \/ ~Accepts(u, e)
  BY <1>2, FollowsItself DEF set_focus
<1>3. CASE ~(u.focus = e \/ ~Accepts(u, e))
  <2>1. e \in ToSet(Fields[f]) /\ e \in Focusables
    BY <1>3 DEF Accepts, Focusables
  <2>2. Resembles(u, remembered) /\ remembered.moved = u.moved
    <3>1. [u.last EXCEPT ![f] = e] \in Memories
      BY <1>1, <2>1 DEF UI, Memories
    <3> QED
      BY <1>1, <3>1 DEF UI, Resembles, Shown
  <2>3. CASE f \in Activable \ u.active
    BY <1>3, <2>2, <2>3, ResemblesFollows DEF set_focus
  <2>4. CASE f \notin Activable \ u.active
    <3>1. set_focus(u, e) = Close(focused, Unrelated(focused, e))
      BY <1>3, <2>4 DEF set_focus, CloseUnrelated
    <3>2. remembered \in UI
      BY <2>2 DEF Resembles
    <3>3. Resembles(remembered, focused) /\ focused.moved = TRUE
      <4> HIDE DEF remembered
      <4> QED
        BY <2>1, <3>2 DEF UI, Resembles, Shown
    <3>4. Resembles(u, focused)
      BY <2>2, <3>3 DEF Resembles
    <3>5. Sound(focused, live) /\ focused \in UI
      BY <3>4, ResemblesSound DEF Resembles
    <3> DEFINE v == Close(focused, Unrelated(focused, e))
    <3>6. /\ Sound(v, live) /\ Shown(v) = Shown(focused) /\ v.target = focused.target /\ v.moved = focused.moved
          /\ v.dying = focused.dying \cup Hanging(focused, Unrelated(focused, e))
      BY <3>5, CloseKeepsSound
    <3> HIDE DEF v, focused, remembered
    <3>7. ASSUME NEW x \in Element, FormOf(x) = f
          PROVE  Inside(x) \cap Hanging(focused, Unrelated(focused, e)) = {}
      <4>1. Windows[x] = Windows[e]
        BY <1>1, <3>7, OneWindow DEF Objects
      <4>2. Unrelated(focused, e) = Unrelated(focused, x)
        BY <4>1 DEF Unrelated, Destinations
      <4> QED
        BY <3>5, <4>2, UnrelatedHang
    <3>8. Spares(u, f, v)
      BY <3>4, <3>6, <3>7 DEF Spares, Resembles
    <3>9. Follows(u, live, v)
      BY <3>3, <3>4, <3>6 DEF Follows, Resembles
    <3> QED
      BY <3>1, <3>8, <3>9 DEF v
  <2> QED
    BY <2>3, <2>4
<1> QED
  BY <1>2, <1>3

(* And so the first of some that accepts the focus gets it. *)
LEMMA FocusFirstSound ==
  ASSUME NEW u, NEW live, Sound(u, live), NEW seq \in Seq(Element)
  PROVE  /\ Follows(u, live, FocusFirst(u, seq))
         /\ \A f \in Forms : ToSet(seq) \subseteq ToSet(Fields[f]) => Spares(u, f, FocusFirst(u, seq))
<1> DEFINE takers == Without(seq, {e \in Element : ~Accepts(u, e)})
           first == FirstOf(takers, NULL)
<1>1. takers \in Seq(Element) /\ ToSet(takers) \subseteq ToSet(seq)
  BY WithoutProperties
<1>2. first = NULL \/ (first \in Element /\ first \in ToSet(seq))
  <2> HIDE DEF takers
  <2>1. NULL \notin Element
    BY Constants DEF Objects
  <2> QED
    BY <1>1, <2>1, FirstProperties
<1> HIDE DEF takers, first
<1>3. FocusFirst(u, seq) = IF first = NULL THEN u ELSE set_focus(u, first)
  BY DEF FocusFirst, first, takers
<1>4. \A f \in Forms : first # NULL /\ ToSet(seq) \subseteq ToSet(Fields[f]) => FormOf(first) = f
  BY <1>2, FieldsOf
<1> QED
  BY <1>2, <1>3, <1>4, SetFocusSound, FollowsItself

LEMMA EnsureFocusSound ==
  ASSUME NEW u, NEW live, Sound(u, live), NEW f \in Forms
  PROVE  Follows(u, live, EnsureFocus(u, f)) /\ Spares(u, f, EnsureFocus(u, f))
<1>1. u \in UI /\ Fields[f] \in Seq(Element)
  BY Constants DEF Sound, Base
<1>2. u.last[f] # NULL => u.last[f] \in ToSet(Fields[f])
  BY <1>1 DEF UI, Memories
<1>3. u.last[f] # NULL => u.last[f] \in Element
  BY <1>2, FieldsOf DEF Focusables
<1> DEFINE last == IF u.last[f] = NULL THEN <<>> ELSE <<u.last[f]>>
<1>4. last \in Seq(Element) /\ ToSet(last) \subseteq ToSet(Fields[f])
  BY <1>2, <1>3 DEF ToSet
<1>5. EnsureFocus(u, f) = u \/ EnsureFocus(u, f) = FocusFirst(u, last \o Fields[f])
  BY DEF EnsureFocus
<1> HIDE DEF last
<1>6. last \o Fields[f] \in Seq(Element) /\ ToSet(last \o Fields[f]) \subseteq ToSet(Fields[f])
  BY <1>1, <1>4, JoinedProperties
<1> QED
  BY <1>5, <1>6, FollowsItself, FocusFirstSound

(* MoveFocus *)
LEMMA MoveFocusSound ==
  ASSUME NEW u, NEW live, Sound(u, live), NEW e \in Focusables, NEW out
  PROVE  Follows(u, live, MoveFocusFrom(u, e, out))
<1> DEFINE fields == Fields[FormOf(e)]
           at == CHOOSE i \in 1..Len(fields) : fields[i] = e
           around == SubSeq(fields, at + 1, Len(fields)) \o SubSeq(fields, 1, at - 1)
<1>1. e \in Element /\ e \in ToSet(fields) /\ fields \in Seq(Element)
  BY FormOfProperties, Constants DEF Focusables, Objects
<1>2. MoveFocusFrom(u, e, out) = FocusFirst(u, Without(around, out))
  BY DEF MoveFocusFrom
<1> HIDE DEF fields
<1>3. at \in 1..Len(fields)
  BY <1>1, IndexOf
<1> HIDE DEF at
<1>4. SubSeq(fields, at + 1, Len(fields)) \in Seq(Element) /\ SubSeq(fields, 1, at - 1) \in Seq(Element)
  BY <1>1, <1>3, SubSeqProperties
<1>5. Without(around, out) \in Seq(Element)
  <2>1. around \in Seq(Element)
    BY <1>4
  <2> HIDE DEF around
  <2> QED
    BY <2>1, WithoutProperties
<1> QED
  BY <1>2, <1>5, FocusFirstSound

(* A form that is in the root comes to the top. *)
LEMMA RaisedResembles ==
  ASSUME NEW u \in UI, NEW f \in Shown(u) \cup {Main}, NEW active \in SUBSET Forms
  PROVE  LET v == [u EXCEPT !.active = active, !.z = Append(Without(@, {f}), f)]
         IN  Resembles(u, v) /\ v.moved = u.moved
<1> DEFINE All == Forms \cup {DimmerOf(w) : w \in Window}
           left == Without(u.z, {f})
           raised == Append(left, f)
           v == [u EXCEPT !.active = active, !.z = raised]
<1>1. f \in All /\ u.z \in Seq(All)
  BY DEF UI, Forms, Shown
<1> HIDE DEF All
<1>2. left \in Seq(All) /\ ToSet(left) = ToSet(u.z) \ {f}
  BY <1>1, WithoutProperties
<1> HIDE DEF left
<1>3. raised \in Seq(All) /\ ToSet(raised) = ToSet(left) \cup {f}
  BY <1>1, <1>2, AppendedProperties
<1> HIDE DEF raised
<1>4. /\ v \in UI /\ v.z = raised /\ v.dying = u.dying /\ v.target = u.target /\ v.dimmers = u.dimmers
      /\ v.dimmers_dying = u.dimmers_dying /\ v.anims = u.anims /\ v.moved = u.moved
  BY <1>3 DEF UI, All
<1>5. ToSet(raised) \cap Window = ToSet(u.z) \cap Window
  BY <1>2, <1>3, Constants DEF Shown, Objects
<1> HIDE DEF v
<1>6. Resembles(u, v) /\ v.moved = u.moved
  BY <1>4, <1>5 DEF Resembles, Shown
<1> QED
  BY <1>6 DEF v, raised, left

LEMMA ActivateSound ==
  ASSUME NEW u, NEW live, Sound(u, live), NEW f \in Shown(u) \cup {Main}
  PROVE  Follows(u, live, Activate(u, f)) /\ Spares(u, f, Activate(u, f))
<1> DEFINE active == (u.active \ {GetTopMostOtherForm(u, f)}) \cup {f}
           v == [u EXCEPT !.active = active, !.z = Append(Without(@, {f}), f)]
<1>1. u \in UI /\ f \in Forms
  BY DEF Sound, Base, Shown, Forms
<1>2. active \in SUBSET Forms
  BY <1>1 DEF UI
<1>3. v = [u EXCEPT !.active = (@ \ {GetTopMostOtherForm(u, f)}) \cup {f}, !.z = Append(Without(@, {f}), f)]
  BY <1>1 DEF UI
<1> HIDE DEF active
<1>4. Resembles(u, v) /\ v.moved = u.moved
  BY <1>1, <1>2, RaisedResembles
<1>5. Activate(u, f) = u \/ Activate(u, f) = EnsureFocus(u, f) \/ Activate(u, f) = EnsureFocus(v, f)
  <2>1. Activate(u, f) = IF f \notin Activable THEN u ELSE EnsureFocus(IF f \in u.active THEN u ELSE v, f)
    BY <1>3 DEF Activate
  <2> QED
    BY <2>1
<1> HIDE DEF v
<1>6. Sound(v, live) /\ Follows(u, live, v) /\ Spares(u, f, v)
  BY <1>4, ResemblesSound, ResemblesFollows
<1>7. /\ Follows(u, live, EnsureFocus(u, f)) /\ Spares(u, f, EnsureFocus(u, f))
      /\ Follows(u, live, u) /\ Spares(u, f, u)
  BY <1>1, EnsureFocusSound, FollowsItself
<1>8. Follows(v, live, EnsureFocus(v, f)) /\ Spares(v, f, EnsureFocus(v, f))
  BY <1>1, <1>6, EnsureFocusSound
<1>9. Follows(u, live, EnsureFocus(v, f)) /\ Spares(u, f, EnsureFocus(v, f))
  BY <1>6, <1>8, FollowsOn
<1> QED
  BY <1>5, <1>7, <1>9

(* The form that is activated when another is removed is in the root. *)
LEMMA TopIsShown ==
  ASSUME NEW u \in UI, NEW f
  PROVE  GetTopMostOtherForm(u, f) \in Shown(u) \cup {Main, NULL}
<1> DEFINE All == Forms \cup {DimmerOf(w) : w \in Window}
           gone == {f} \cup {x \in ToSet(u.z) : x \notin Activable}
           others == Without(u.z, gone)
<1>1. u.z \in Seq(All)
  BY DEF UI
<1> HIDE DEF All, gone
<1>2. others \in Seq(All) /\ ToSet(others) = ToSet(u.z) \ gone
  BY <1>1, WithoutProperties
<1> HIDE DEF others
<1>3. ToSet(others) \subseteq Shown(u) \cup {Main}
  BY <1>2, Constants DEF gone, Shown, Activable
<1>4. others # <<>> => others[Len(others)] \in ToSet(others)
  <2>1. others # <<>> => Len(others) \in DOMAIN others
    BY <1>2
  <2> QED
    BY <2>1 DEF ToSet
<1> QED
  BY <1>3, <1>4 DEF GetTopMostOtherForm, others, gone

(* Form::OnRemove *)
LEMMA OnRemoveSound ==
  ASSUME NEW u, NEW live, Sound(u, live), NEW w \in Window
  PROVE  Follows(u, live, OnRemove(u, w))
<1> DEFINE left == [u EXCEPT !.active = @ \ {w}]
           top == GetTopMostOtherForm(u, w)
<1>1. u \in UI
  BY DEF Sound, Base
<1>2. Resembles(u, left) /\ left.moved = u.moved
  BY <1>1 DEF UI, Resembles, Shown
<1>3. top \in Shown(u) \cup {Main, NULL}
  BY <1>1, TopIsShown
<1>4. OnRemove(u, w) = u \/ OnRemove(u, w) = left \/ (top # NULL /\ OnRemove(u, w) = Activate(left, top))
  BY DEF OnRemove
<1> HIDE DEF left, top
<1>5. Sound(left, live) /\ Follows(u, live, left) /\ Shown(left) = Shown(u)
  BY <1>2, ResemblesSound, ResemblesFollows DEF Resembles
<1>6. top # NULL => Follows(left, live, Activate(left, top))
  BY <1>3, <1>5, ActivateSound
<1>7. top # NULL => Follows(u, live, Activate(left, top))
  BY <1>5, <1>6, FollowsOn
<1> QED
  BY <1>4, <1>5, <1>7, FollowsItself

(* A press activates the form it is in, moves the focus and closes pop-ups, but
   not what it is in. *)
LEMMA PressSound ==
  ASSUME NEW u, NEW live, Sound(u, live), NEW e \in Element, There(e, Shown(u), live)
  PROVE  LET v == PressOn(u, e)
         IN  Sound(v, live) /\ Shown(v) = Shown(u) /\ Inside(e) \cap v.dying \subseteq u.dying
<1> DEFINE f == FormOf(e)
           up == Activate(u, f)
           nearest == Nearest(e, {x \in Inside(e) : Accepts(up, x)})
           focused == IF nearest = NULL THEN up ELSE set_focus(up, nearest)
           v == PressOn(u, e)
<1>1. e \in Objects /\ f \in Shown(u) \cup {Main}
  BY FormOfProperties DEF Objects, There
<1>2. Follows(u, live, up) /\ Spares(u, f, up)
  BY <1>1, ActivateSound
<1>3. v = Close(focused, Unrelated(focused, e))
  BY DEF PressOn, FocusOn, CloseUnrelated
<1> HIDE DEF up
<1>4. nearest # NULL => nearest \in Element /\ FormOf(nearest) = f
  <2>1. nearest # NULL => nearest \in Inside(e) /\ Accepts(up, nearest)
    BY <1>1, NearestProperties
  <2> HIDE DEF nearest
  <2>2. nearest # NULL => nearest \in Objects /\ nearest \in ToSet(Fields[FormOf(nearest)])
    BY <1>1, <2>1, InsideProperties DEF Accepts
  <2>3. nearest # NULL => nearest \in Element
    BY <2>2, FormOfProperties, FieldsOf DEF Focusables
  <2>4. nearest # NULL => Windows[nearest] = Windows[e]
    <3>1. nearest # NULL => Windows[nearest] = Inside(nearest) \cap Window /\ Inside(nearest) \subseteq Inside(e)
      BY <1>1, <2>1, <2>2, InsideProperties
    <3>2. Windows[e] = Inside(e) \cap Window
      BY <1>1, InsideProperties
    <3> QED
      BY <1>1, <2>1, <3>1, <3>2, InsideOne
  <2>5. nearest # NULL => FormOf(nearest) = f
    <3>1. nearest # NULL => Windows[nearest] = {FormOf(nearest)} \ {Main}
      BY <2>2, OneWindow
    <3>2. Windows[e] = {f} \ {Main}
      BY <1>1, OneWindow
    <3>3. nearest # NULL /\ Windows[nearest] = {} => FormOf(nearest) = Main
      BY <2>2, FormOfProperties
    <3>4. Windows[e] = {} => f = Main
      BY <1>1, FormOfProperties
    <3> QED
      BY <2>4, <3>1, <3>2, <3>3, <3>4
  <2> QED
    BY <2>3, <2>5
<1> HIDE DEF nearest
<1>5. Sound(up, live)
  BY <1>2 DEF Follows
<1>6. Follows(u, live, focused) /\ Spares(u, f, focused)
  <2>1. CASE nearest = NULL
    BY <1>2, <2>1
  <2>2. CASE nearest # NULL
    <3>1. Follows(up, live, focused) /\ Spares(up, f, focused)
      BY <1>4, <1>5, <2>2, SetFocusSound
    <3> HIDE DEF focused
    <3> QED
      BY <1>2, <3>1, FollowsOn
  <2> QED
    BY <2>1, <2>2
<1> HIDE DEF focused, v
<1>7. Sound(focused, live) /\ focused \in UI
  BY <1>6 DEF Follows, Sound, Base
<1>8. Sound(v, live) /\ Shown(v) = Shown(focused) /\ v.dying = focused.dying \cup Hanging(focused, Unrelated(focused, e))
  BY <1>3, <1>7, CloseKeepsSound
<1>9. Inside(e) \cap v.dying \subseteq u.dying
  BY <1>6, <1>7, <1>8, UnrelatedHang DEF Spares
<1> QED
  BY <1>6, <1>8, <1>9 DEF Follows, v

-----------------------------------------------------------------------------
(* Opening and deletion *)

(* What a window needs of the target it is opened with *)
Aims(u, live, w, target) ==
  /\ target \in Element \cup {NULL} /\ Inside(target) \cap Tooltip = {}
  /\ w \in Tooltip \/ Target[w] # NULL => target # NULL
  /\ target # NULL => There(target, Shown(u), live)
  /\ w \in Tooltip \/ Inside(target) \cap u.dying = {}

(* v is u with a window more, before the focus moves to it. *)
Placed(u, w, target, v) ==
  /\ v \in UI
  /\ Shown(v) = Shown(u) \cup {w} /\ v.dying = u.dying /\ v.target = [u.target EXCEPT ![w] = target]
  /\ v.dimmers = u.dimmers \cup (Dimmed \cap {w}) /\ v.dimmers_dying = u.dimmers_dying
  /\ v.anims = u.anims \cup {<<w, "in">>} /\ v.moved = u.moved

(* A window comes above the others, on its target. *)
LEMMA PlacedSound ==
  ASSUME NEW u, NEW live, Sound(u, live), NEW w \in Window, w \notin Shown(u), NEW target, Aims(u, live, w, target),
         NEW v, Placed(u, w, target, v)
  PROVE  Sound(v, live)
<1>1. u \in UI /\ Fades(u) /\ Targets(u) /\ OpenBut(u, live, {}) /\ Shown(u) \subseteq Window
  BY DEF Sound, Base, Shown
<1>2. u.target \in [Window -> Element \cup {NULL}]
  BY <1>1 DEF UI
<1>3. /\ v \in UI
      /\ v.dying = u.dying /\ v.target = [u.target EXCEPT ![w] = target]
      /\ v.dimmers = u.dimmers \cup (Dimmed \cap {w}) /\ v.dimmers_dying = u.dimmers_dying
      /\ v.anims = u.anims \cup {<<w, "in">>}
  BY DEF Placed
<1>4. Shown(v) = Shown(u) \cup {w}
  BY DEF Placed
<1>5. /\ u.dying \subseteq Shown(u) /\ u.dimmers \subseteq Dimmed \cap Shown(u) /\ u.dimmers_dying \subseteq u.dimmers
      /\ u.dimmers \ u.dimmers_dying = (Dimmed \cap Shown(u)) \ u.dying
      /\ u.dying \cup DimmersOf(u.dimmers_dying) = Leaving(u)
      /\ \A a \in u.anims : a[1] \in Shown(u) \cup DimmersOf(u.dimmers)
  BY <1>1 DEF Fades
<1>6. Fades(v)
  <2>1. v.dying \subseteq Shown(v) /\ v.dimmers \subseteq Dimmed \cap Shown(v) /\ v.dimmers_dying \subseteq v.dimmers
    BY <1>3, <1>4, <1>5
  <2>2. v.dimmers \ v.dimmers_dying = (Dimmed \cap Shown(v)) \ v.dying
    BY <1>3, <1>4, <1>5
  <2>3. {b \in v.anims : b[2] = "out"} = {b \in u.anims : b[2] = "out"}
    BY <1>3
  <2>4. v.dying \cup DimmersOf(v.dimmers_dying) = Leaving(v)
    BY <1>3, <1>5, <2>3 DEF Leaving
  <2>5. DimmersOf(u.dimmers) \subseteq DimmersOf(v.dimmers)
    BY <1>3 DEF DimmersOf
  <2>6. \A a \in v.anims : a[1] \in Shown(v) \cup DimmersOf(v.dimmers)
    <3>1. <<w, "in">>[1] = w
      OBVIOUS
    <3> QED
      BY <1>3, <1>4, <1>5, <2>5, <3>1
  <2> QED
    BY <2>1, <2>2, <2>4, <2>6 DEF Fades
<1>7. Targets(v)
  BY <1>1, <1>2, <1>3, <1>4 DEF Targets, Aims
<1>8. OpenBut(v, live, {})
  <2> SUFFICES ASSUME NEW x \in Shown(v) \ v.dying
               PROVE  Sits(v, live, x)
    BY DEF OpenBut
  <2>1. CASE x = w
    <3>1. v.target[x] = target
      BY <1>2, <1>3, <2>1
    <3> QED
      BY <1>3, <1>4, <2>1, <3>1 DEF Sits, Aims, There
  <2>2. CASE x # w
    <3>1. x \in Shown(u) \ u.dying /\ x \in Window
      BY <1>1, <1>3, <1>4, <2>2
    <3>2. v.target[x] = u.target[x] /\ Sits(u, live, x)
      BY <1>1, <1>2, <1>3, <2>2, <3>1 DEF OpenBut
    <3> QED
      BY <1>3, <1>4, <3>2 DEF Sits, There
  <2> QED
    BY <2>1, <2>2
<1> QED
  BY <1>3, <1>6, <1>7, <1>8 DEF Sound, Base

(* A window above those before, with its dimmer below it if it has one *)
LEMMA OnTop ==
  ASSUME NEW u \in UI, NEW w \in Window
  PROVE  LET All == Forms \cup {DimmerOf(x) : x \in Window}
         IN  /\ Append(u.z, w) \in Seq(All) /\ ToSet(Append(u.z, w)) \cap Window = Shown(u) \cup {w}
             /\ u.z \o <<DimmerOf(w), w>> \in Seq(All)
             /\ ToSet(u.z \o <<DimmerOf(w), w>>) \cap Window = Shown(u) \cup {w}
<1> DEFINE All == Forms \cup {DimmerOf(x) : x \in Window}
           below == Append(u.z, DimmerOf(w))
<1>1. u.z \in Seq(All) /\ w \in All /\ DimmerOf(w) \in All /\ DimmerOf(w) \notin Window
  BY Constants DEF UI, Forms, Objects
<1> HIDE DEF All, DimmerOf
<1>2. Append(u.z, w) \in Seq(All) /\ ToSet(Append(u.z, w)) = ToSet(u.z) \cup {w}
  BY <1>1, AppendedProperties
<1>3. below \in Seq(All) /\ ToSet(below) = ToSet(u.z) \cup {DimmerOf(w)}
  BY <1>1, AppendedProperties
<1>4. u.z \o <<DimmerOf(w), w>> = Append(below, w)
  BY <1>1
<1> HIDE DEF below
<1>5. Append(below, w) \in Seq(All) /\ ToSet(Append(below, w)) = ToSet(below) \cup {w}
  BY <1>1, <1>3, AppendedProperties
<1> QED
  BY <1>1, <1>2, <1>3, <1>4, <1>5 DEF Shown, All

(* A pop-up closes nothing when it opens; what a message form closes, which is
   activated, it does because the focus moves. *)
LEMMA OpenedSound ==
  ASSUME NEW u, NEW live, Sound(u, live), NEW w \in Window, w \notin Shown(u), NEW target, Aims(u, live, w, target)
  PROVE  LET v == Opened(u, w, target)
         IN  /\ Sound(v, live) /\ Shown(v) = Shown(u) \cup {w}
             /\ \A x \in Window \ {w} : v.target[x] = u.target[x]
             /\ u.dying \subseteq v.dying /\ (u.moved => v.moved) /\ (v.dying = u.dying \/ v.moved)
             /\ w \notin Dimmed => v.dying = u.dying
<1> DEFINE placed == [u EXCEPT !.z = Append(@, w), !.target[w] = target]
           added == FadeIn(placed, w)
           first == IF target # NULL /\ Contents[w] \in ToSet(Fields[w]) THEN Contents[w] ELSE NULL
           above == u.z \o <<DimmerOf(w), w>>
           dimming == [added EXCEPT !.z = above, !.dimmers = @ \cup {w}, !.last[w] = first]
           All == Forms \cup {DimmerOf(x) : x \in Window}
<1>1. u \in UI /\ u.target \in [Window -> Element \cup {NULL}] /\ u.last \in Memories
  BY DEF Sound, Base, UI
<1>2. /\ Append(u.z, w) \in Seq(All) /\ ToSet(Append(u.z, w)) \cap Window = Shown(u) \cup {w}
      /\ above \in Seq(All) /\ ToSet(above) \cap Window = Shown(u) \cup {w}
  BY <1>1, OnTop
<1>3. /\ placed \in UI
      /\ placed.z = Append(u.z, w) /\ placed.dying = u.dying /\ placed.target = [u.target EXCEPT ![w] = target]
      /\ placed.dimmers = u.dimmers /\ placed.dimmers_dying = u.dimmers_dying /\ placed.anims = u.anims
      /\ placed.last = u.last /\ placed.moved = u.moved
  <2>1. [u.target EXCEPT ![w] = target] \in [Window -> Element \cup {NULL}]
    BY <1>1 DEF Aims
  <2> QED
    BY <1>1, <1>2, <2>1 DEF UI
<1> HIDE DEF placed
<1>4. /\ added \in UI
      /\ added.z = Append(u.z, w) /\ added.dying = u.dying /\ added.target = [u.target EXCEPT ![w] = target]
      /\ added.dimmers = u.dimmers /\ added.dimmers_dying = u.dimmers_dying
      /\ added.anims = u.anims \cup {<<w, "in">>} /\ added.last = u.last /\ added.moved = u.moved
  <2>1. <<w, "in">> \in (Window \cup {DimmerOf(x) : x \in Window}) \X {"in", "out"}
    OBVIOUS
  <2> QED
    BY <1>3, <2>1 DEF UI, FadeIn
<1> HIDE DEF added
<1>5. Opened(u, w, target) = IF w \in Dimmed THEN Activate(dimming, w) ELSE added
  BY DEF Opened, added, placed
<1>6. CASE w \in Dimmed
  <2>1. [u.last EXCEPT ![w] = first] \in Memories
    BY <1>1, Constants DEF Memories, Forms
  <2> HIDE DEF above, first, All
  <2>2. /\ dimming \in UI /\ dimming.z = above
        /\ dimming.dying = u.dying /\ dimming.target = [u.target EXCEPT ![w] = target]
        /\ dimming.dimmers = u.dimmers \cup {w} /\ dimming.dimmers_dying = u.dimmers_dying
        /\ dimming.anims = u.anims \cup {<<w, "in">>} /\ dimming.moved = u.moved
    BY <1>2, <1>4, <2>1 DEF UI, All
  <2> HIDE DEF dimming
  <2>3. Placed(u, w, target, dimming)
    BY <1>2, <1>6, <2>2 DEF Placed, Shown
  <2>4. Sound(dimming, live) /\ w \in Shown(dimming)
    BY <2>3, PlacedSound DEF Placed
  <2>5. Follows(dimming, live, Activate(dimming, w))
    BY <2>4, ActivateSound
  <2> QED
    BY <1>1, <1>5, <1>6, <2>3, <2>5 DEF Follows, Placed
<1>7. CASE w \notin Dimmed
  <2>1. Placed(u, w, target, added)
    BY <1>2, <1>4, <1>7 DEF Placed, Shown
  <2>2. Sound(added, live)
    BY <2>1, PlacedSound
  <2> QED
    BY <1>1, <1>5, <1>7, <2>1, <2>2 DEF Placed
<1> QED
  BY <1>6, <1>7

(* What Deleted leaves before windows close that lost their target *)
Remains(u, set) ==
  [DeleteDimmers(AbortAnimations(Forget(u, set), set), set \cap Window)
     EXCEPT !.z = Without(@, set \cap Window), !.dying = @ \ set,
            !.target = [w \in Window |-> IF w \in Targeting(u, set) \cup (set \cap Window) THEN NULL ELSE @[w]]]

(* That is v. *)
Remaining(u, set, v) ==
  LET gone == set \cap Window
  IN  /\ v \in UI /\ Shown(v) = Shown(u) \ set /\ v.dying = u.dying \ set
      /\ v.target = [w \in Window |-> IF w \in Targeting(u, set) \cup gone THEN NULL ELSE u.target[w]]
      /\ v.dimmers = u.dimmers \ gone /\ v.dimmers_dying = u.dimmers_dying \ gone
      /\ v.anims = {a \in u.anims : a[1] \notin set \cup DimmersOf(gone)} /\ v.moved = u.moved

(* Its fields *)
LEMMA RemainsFields ==
  ASSUME NEW u \in UI, NEW set \in SUBSET Objects
  PROVE  Remaining(u, set, Remains(u, set))
<1> DEFINE All == Forms \cup {DimmerOf(w) : w \in Window}
           gone == set \cap Window
           v == Remains(u, set)
           target == [w \in Window |-> IF w \in Targeting(u, set) \cup gone THEN NULL ELSE u.target[w]]
           forgot == Forget(u, set)
           aborted == AbortAnimations(forgot, set)
           below == Without(u.z, DimmersOf(gone))
           undimmed == [aborted EXCEPT !.z = below, !.dimmers = @ \ gone, !.dimmers_dying = @ \ gone]
           deleted == AbortAnimations(undimmed, DimmersOf(gone))
           z == Without(below, gone)
<1>1. u.z \in Seq(All) /\ u.target \in [Window -> Element \cup {NULL}]
  BY DEF UI
<1>2. below \in Seq(All) /\ ToSet(below) = ToSet(u.z) \ DimmersOf(gone)
  <2> HIDE DEF All, gone
  <2> QED
    BY <1>1, WithoutProperties
<1>3. z \in Seq(All) /\ ToSet(z) = ToSet(below) \ gone
  <2> HIDE DEF All, gone, below
  <2> QED
    BY <1>2, WithoutProperties
<1>4. target \in [Window -> Element \cup {NULL}]
  BY <1>1
<1>5. /\ forgot \in UI
      /\ forgot.z = u.z /\ forgot.dying = u.dying /\ forgot.target = u.target /\ forgot.dimmers = u.dimmers
      /\ forgot.dimmers_dying = u.dimmers_dying /\ forgot.anims = u.anims /\ forgot.moved = u.moved
  <2> DEFINE last == [f \in Forms |-> Unless(u.last[f], set)]
  <2>1. Unless(u.focus, set) \in Focusables \cup {NULL}
    BY DEF UI, Unless
  <2>2. last \in Memories
    BY DEF UI, Unless, Memories
  <2>3. u.active \ set \in SUBSET Forms
    BY DEF UI
  <2>4. forgot = [u EXCEPT !.active = u.active \ set, !.focus = Unless(u.focus, set), !.last = last]
    BY DEF Forget, UI
  <2> HIDE DEF last, forgot
  <2> QED
    BY <2>1, <2>2, <2>3, <2>4 DEF UI
<1> HIDE DEF forgot, below, z, All
<1>6. /\ aborted \in UI
      /\ aborted.z = u.z /\ aborted.dying = u.dying /\ aborted.target = u.target /\ aborted.dimmers = u.dimmers
      /\ aborted.dimmers_dying = u.dimmers_dying /\ aborted.anims = {a \in u.anims : a[1] \notin set}
      /\ aborted.moved = u.moved
  BY <1>5 DEF UI, AbortAnimations
<1>7. deleted = DeleteDimmers(aborted, gone)
  BY <1>6 DEF DeleteDimmers, DimmersOf, below
<1> HIDE DEF aborted
<1>8. /\ undimmed \in UI
      /\ undimmed.z = below /\ undimmed.dying = u.dying /\ undimmed.target = u.target
      /\ undimmed.dimmers = u.dimmers \ gone /\ undimmed.dimmers_dying = u.dimmers_dying \ gone
      /\ undimmed.anims = aborted.anims /\ undimmed.moved = u.moved
  BY <1>2, <1>6 DEF UI, All
<1> HIDE DEF undimmed
<1>9. /\ deleted \in UI
      /\ deleted.z = below /\ deleted.dying = u.dying /\ deleted.target = u.target
      /\ deleted.dimmers = u.dimmers \ gone /\ deleted.dimmers_dying = u.dimmers_dying \ gone
      /\ deleted.anims = {a \in u.anims : a[1] \notin set \cup DimmersOf(gone)} /\ deleted.moved = u.moved
  <2>1. deleted.anims = {a \in aborted.anims : a[1] \notin DimmersOf(gone)}
    BY <1>8 DEF AbortAnimations, UI
  <2>2. deleted.anims = {a \in u.anims : a[1] \notin set \cup DimmersOf(gone)}
    BY <1>6, <2>1
  <2>3. /\ deleted \in UI
        /\ deleted.z = below /\ deleted.dying = u.dying /\ deleted.target = u.target
        /\ deleted.dimmers = u.dimmers \ gone /\ deleted.dimmers_dying = u.dimmers_dying \ gone
        /\ deleted.moved = u.moved
    BY <1>8 DEF AbortAnimations, UI
  <2> QED
    BY <2>2, <2>3
<1>10. v = [deleted EXCEPT !.z = Without(@, gone), !.dying = @ \ set,
                           !.target = [w \in Window |-> IF w \in Targeting(u, set) \cup gone THEN NULL ELSE @[w]]]
  BY <1>7 DEF Remains, aborted, forgot
<1> HIDE DEF deleted
<1>11. v = [deleted EXCEPT !.z = z, !.dying = u.dying \ set, !.target = target]
  BY <1>9, <1>10 DEF z
<1> HIDE DEF v, target
<1>12. /\ v \in UI /\ v.z = z /\ v.dying = u.dying \ set /\ v.target = target
       /\ v.dimmers = u.dimmers \ gone /\ v.dimmers_dying = u.dimmers_dying \ gone
       /\ v.anims = {a \in u.anims : a[1] \notin set \cup DimmersOf(gone)} /\ v.moved = u.moved
  BY <1>3, <1>4, <1>9, <1>11 DEF UI, All
<1>13. Shown(v) = Shown(u) \ set
  <2>1. DimmersOf(gone) \cap Window = {}
    BY Constants DEF DimmersOf, Objects
  <2> QED
    BY <1>2, <1>3, <1>12, <2>1 DEF Shown
<1> QED
  BY <1>12, <1>13 DEF v, target, Remaining

(* Deletion takes the animations of what is deleted with it, and only windows
   that lose their target are not open on it. *)
LEMMA RemainsBase ==
  ASSUME NEW u, NEW live, Sound(u, live), NEW set \in SUBSET Objects
  PROVE  LET v == Remains(u, set)
         IN  Base(v) /\ OpenBut(v, live \ set, Targeting(u, set))
<1> DEFINE v == Remains(u, set)
           gone == set \cap Window
           hit == Targeting(u, set)
<1>1. u \in UI /\ Fades(u) /\ Targets(u) /\ OpenBut(u, live, {}) /\ Shown(u) \subseteq Window
  BY DEF Sound, Base, UI, Shown, ToSet
<1>2. /\ v \in UI /\ Shown(v) = Shown(u) \ set /\ v.dying = u.dying \ set
      /\ v.target = [w \in Window |-> IF w \in hit \cup gone THEN NULL ELSE u.target[w]]
      /\ v.dimmers = u.dimmers \ gone /\ v.dimmers_dying = u.dimmers_dying \ gone
      /\ v.anims = {a \in u.anims : a[1] \notin set \cup DimmersOf(gone)}
  <2>1. Remaining(u, set, v)
    BY <1>1, RemainsFields
  <2> HIDE DEF v
  <2> QED
    BY <2>1 DEF Remaining
<1>3. \A w \in Window : w \in set <=> w \in gone
  OBVIOUS
<1> HIDE DEF v, gone
<1>4. /\ u.dying \subseteq Shown(u) /\ u.dimmers \subseteq Dimmed \cap Shown(u) /\ u.dimmers_dying \subseteq u.dimmers
      /\ u.dimmers \ u.dimmers_dying = (Dimmed \cap Shown(u)) \ u.dying
      /\ u.dying \cup DimmersOf(u.dimmers_dying) = Leaving(u)
      /\ \A a \in u.anims : a[1] \in Shown(u) \cup DimmersOf(u.dimmers)
  BY <1>1 DEF Fades
<1>5. ASSUME NEW some \in SUBSET Window
      PROVE  /\ DimmersOf(some \ gone) = DimmersOf(some) \ DimmersOf(gone)
             /\ DimmersOf(some) \cap set = {} /\ DimmersOf(gone) \cap Window = {}
  <2>1. \A w \in Window : DimmerOf(w) \notin set /\ DimmerOf(w) \notin Window
    BY Constants DEF Objects
  <2>2. \A w, x \in Window : DimmerOf(w) = DimmerOf(x) => w = x
    BY DEF DimmerOf
  <2>3. gone \subseteq Window
    BY DEF gone
  <2> HIDE DEF DimmerOf
  <2> QED
    BY <2>1, <2>2, <2>3 DEF DimmersOf
<1>6. Fades(v)
  <2>1. v.dying \subseteq Shown(v) /\ v.dimmers \subseteq Dimmed \cap Shown(v) /\ v.dimmers_dying \subseteq v.dimmers
    BY <1>1, <1>2, <1>3, <1>4
  <2>2. v.dimmers \ v.dimmers_dying = (Dimmed \cap Shown(v)) \ v.dying
    BY <1>1, <1>2, <1>3, <1>4
  <2>3. Leaving(v) = Leaving(u) \ (set \cup DimmersOf(gone))
    BY <1>2 DEF Leaving
  <2>4. u.dimmers_dying \subseteq Window /\ u.dimmers \subseteq Window
    BY <1>1, <1>4
  <2>5. /\ DimmersOf(v.dimmers_dying) = DimmersOf(u.dimmers_dying) \ DimmersOf(gone)
        /\ DimmersOf(u.dimmers_dying) \cap set = {} /\ DimmersOf(gone) \cap Window = {}
    BY <1>2, <1>5, <2>4
  <2>6. v.dying \cup DimmersOf(v.dimmers_dying) = Leaving(v)
    BY <1>1, <1>2, <1>4, <2>3, <2>5
  <2>7. DimmersOf(v.dimmers) = DimmersOf(u.dimmers) \ DimmersOf(gone)
    BY <1>2, <1>5, <2>4
  <2>8. \A a \in v.anims : a[1] \in Shown(v) \cup DimmersOf(v.dimmers)
    BY <1>2, <1>4, <2>7
  <2> QED
    BY <2>1, <2>2, <2>6, <2>8 DEF Fades
<1>7. Targets(v)
  BY <1>1, <1>2, <1>3, InsideProperties DEF Targets
<1>8. ASSUME NEW w \in Shown(v) \ (v.dying \cup hit)
      PROVE  Sits(v, live \ set, w)
  <2>1. w \in Shown(u) \ (u.dying \cup set) /\ w \in Window
    BY <1>1, <1>2, <1>8
  <2>2. v.target[w] = u.target[w]
    BY <1>2, <1>3, <1>8, <2>1
  <2>3. Sits(u, live, w)
    BY <1>1, <2>1 DEF OpenBut
  <2>4. Inside(u.target[w]) \cap set = {}
    BY <1>8, <2>1 DEF Targeting
  <2>5. CASE u.target[w] = NULL
    BY <2>2, <2>3, <2>5 DEF Sits
  <2>6. CASE u.target[w] # NULL
    <3> DEFINE e == u.target[w]
    <3>1. e \in Objects
      BY <1>1, <2>1, <2>6 DEF UI, Objects
    <3>2. e \in Inside(e) /\ Windows[e] = Inside(e) \cap Window
      BY <3>1, InsideProperties
    <3>3. There(e, Shown(u), live) /\ (w \in Tooltip \/ Inside(e) \cap u.dying = {})
      BY <2>3, <2>6 DEF Sits
    <3>4. There(e, Shown(v), live \ set) /\ (w \in Tooltip \/ Inside(e) \cap v.dying = {})
      BY <1>2, <2>4, <3>2, <3>3 DEF There
    <3> QED
      BY <2>2, <2>6, <3>4 DEF Sits
  <2> QED
    BY <2>5, <2>6
<1> QED
  BY <1>2, <1>6, <1>7, <1>8 DEF Base, OpenBut, v

(* What is deleted is gone, and what lost its target closes. *)
LEMMA DeletedSound ==
  ASSUME NEW u, NEW live, Sound(u, live), NEW set \in SUBSET Objects
  PROVE  LET v == Deleted(u, set)
         IN  Sound(v, live \ set) /\ Shown(v) = Shown(u) \ set
<1> DEFINE v == Deleted(u, set)
           left == Remains(u, set)
           hit == Targeting(u, set)
<1>1. v = Close(left, hit)
  BY DEF Deleted, Remains
<1>2. u \in UI
  BY DEF Sound, Base
<1>3. Base(left) /\ OpenBut(left, live \ set, hit)
  BY RemainsBase
<1>4. Shown(left) = Shown(u) \ set
  <2>1. Remaining(u, set, left)
    BY <1>2, RemainsFields
  <2> HIDE DEF left
  <2> QED
    BY <2>1 DEF Remaining
<1> HIDE DEF v, left, hit
<1>5. Sound(v, live \ set) /\ Shown(v) = Shown(left)
  BY <1>1, <1>3, CloseSound
<1> QED
  BY <1>4, <1>5 DEF v

-----------------------------------------------------------------------------
(* The tooltip of the manager *)

(* The focus moved, or nothing closed. *)
LEMMA HeldFollows ==
  ASSUME NEW u, NEW live, NEW v, Follows(u, live, v), NEW w, Held(u, w)
  PROVE  Held(v, w)
  BY DEF Follows, Held, Lost

(* Something else closes, with what hangs on it. *)
LEMMA HeldClose ==
  ASSUME NEW u, NEW live, Sound(u, live), NEW from, NEW w, w \notin from, Held(u, w)
  PROVE  Held(Close(u, from), w) \/ Inside(u.target[w]) \cap (from \ Shown(u)) # {}
<1> DEFINE v == Close(u, from)
           hanging == Hanging(u, from)
<1>1. Shown(v) = Shown(u) /\ v.target = u.target /\ v.moved = u.moved /\ v.dying = u.dying \cup hanging
  BY CloseKeepsSound
<1>2. Shown(u) \cap from \subseteq hanging
  BY HangingClosed
<1>3. w \in hanging => Inside(u.target[w]) \cap (from \cup hanging) # {}
  BY HangingBecause
<1> HIDE DEF v, hanging
<1> QED
  BY <1>1, <1>2, <1>3 DEF Held, Lost, v

(* What lost its target when that was deleted has none. *)
LEMMA HeldDeleted ==
  ASSUME NEW u, NEW live, Sound(u, live), NEW set \in SUBSET Objects, NEW w \in Tooltip \cup {NULL},
         Held(u, w) \/ Inside(u.target[w]) \cap set # {}
  PROVE  Held(Deleted(u, set), w)
<1> SUFFICES ASSUME w # NULL PROVE Held(Deleted(u, set), w)
  BY DEF Held
<1> DEFINE v == Deleted(u, set)
           left == Remains(u, set)
           hit == Targeting(u, set)
           hanging == Hanging(left, hit)
<1>1. v = Close(left, hit)
  BY DEF Deleted, Remains
<1>2. u \in UI /\ Targets(u) /\ w \in Window
  BY Constants DEF Sound, Base
<1>3. Base(left) /\ OpenBut(left, live \ set, hit)
  BY RemainsBase
<1>4. /\ Shown(left) = Shown(u) \ set /\ left.dying = u.dying \ set
      /\ left.target = [x \in Window |-> IF x \in hit \cup (set \cap Window) THEN NULL ELSE u.target[x]]
      /\ left.moved = u.moved
  <2>1. Remaining(u, set, left)
    BY <1>2, RemainsFields
  <2> HIDE DEF left
  <2> QED
    BY <2>1 DEF Remaining
<1>5. hit \subseteq Shown(left) /\ \A x \in Shown(u) \ set : Inside(u.target[x]) \cap set # {} => x \in hit
  BY <1>4 DEF Targeting
<1> HIDE DEF v, left, hit, hanging
<1>6. /\ Shown(v) = Shown(left) /\ v.target = left.target /\ v.moved = left.moved
      /\ v.dying = left.dying \cup hanging
  BY <1>1, <1>3, CloseSound DEF hanging
<1>7. Shown(left) \cap hit \subseteq hanging
  BY HangingClosed DEF hanging
<1>8. w \in hanging => w \in hit \/ Inside(left.target[w]) \cap (hit \cup hanging) # {}
  BY HangingBecause DEF hanging
<1>9. CASE w \in hit \cup set
  <2>1. v.target[w] = NULL
    BY <1>2, <1>4, <1>6, <1>9
  <2> QED
    BY <2>1 DEF Held, Lost, v
<1>10. CASE w \notin hit \cup set
  <2>1. v.target[w] = u.target[w]
    BY <1>2, <1>4, <1>6, <1>10
  <2>2. Inside(u.target[w]) \cap set = {}
    <3>1. CASE w \in Shown(u)
      BY <1>5, <1>10, <3>1
    <3>2. CASE w \notin Shown(u)
      BY <1>2, <3>2, InsideProperties DEF Targets
    <3> QED
      BY <3>1, <3>2
  <2>3. Held(u, w)
    BY <2>2
  <2> QED
    BY <1>4, <1>5, <1>6, <1>7, <1>8, <1>10, <2>1, <2>2, <2>3 DEF Held, Lost, v
<1> QED
  BY <1>9, <1>10

-----------------------------------------------------------------------------
(* The actions *)

(* Where the focus or a press goes, and what a window is opened on *)
LEMMA ReachableIsThere ==
  ASSUME NEW e \in Element, Reachable(e)
  PROVE  There(e, Shown(ui), present) /\ Inside(e) \cap ui.dying = {}
  BY DEF Reachable, Exists, There

(* What the tooltip manager keeps *)
Tips == [m_tooltip : Tooltip \cup {NULL}, m_last_tipped_element : Tipped \cup {NULL},
         show : SUBSET Tipped, hide : SUBSET Window]

(* Once it has killed its tooltip it has none. *)
LEMMA TipKilled ==
  ASSUME IInv
  PROVE  Killed(tip) \in Tips /\ Killed(tip).m_tooltip = NULL
  BY DEF IInv, TipAgrees, Tips, Killed, DeleteShowMessages

(* Every event but the move of the pointer kills the tooltip. *)
LEMMA EventPreserves ==
  ASSUME IInv, NEW u, Sound(u, present), Event(u), hovered' \in Objects \cup {NULL}
  PROVE  IInv'
<1>1. ui' = Kill(u, tip) /\ tip' = Killed(tip) /\ UNCHANGED present
  BY DEF Event
<1>2. Sound(ui', present)
  BY <1>1, KillSound
<1>3. TipAgrees'
  BY <1>1, TipKilled DEF TipAgrees, Tips, Held
<1> QED
  BY <1>1, <1>2, <1>3 DEF IInv

(* What the program does it does not hear of. *)
LEMMA ByProgramPreserves ==
  ASSUME IInv, NEW u, Sound(u, present'), ByProgram(u), Held(u, tip.m_tooltip), present' \subseteq Element,
         hovered' \in Objects \cup {NULL}
  PROVE  IInv'
  BY DEF IInv, ByProgram, TipAgrees

(* A press, and a click, leave open what they are in. *)
LEMMA ClickSound ==
  ASSUME IInv, NEW e \in Element, NEW u, ClickOn(e, u)
  PROVE  /\ Sound(u, present) /\ Shown(u) = Shown(ui) /\ Inside(e) \cap u.dying = {}
         /\ hovered' \in Objects \cup {NULL}
<1>1. Sound(ui, present) /\ hovered \in Objects \cup {NULL}
  BY DEF IInv
<1>2. CASE Reachable(e) /\ u = PressOn(ui, e) /\ hovered' = Hovered(e)
  <2>1. There(e, Shown(ui), present) /\ Inside(e) \cap ui.dying = {}
    BY <1>2, ReachableIsThere
  <2> QED
    BY <1>1, <1>2, <2>1, PressSound DEF Hovered, Objects
<1>3. CASE ui.focus = e /\ Inside(e) \cap ui.dying = {} /\ u = ui /\ UNCHANGED hovered
  BY <1>1, <1>3
<1> QED
  BY <1>2, <1>3 DEF ClickOn

LEMMA InvokePointerDownPreserves ==
  ASSUME IInv, NEW e \in Element, InvokePointerDown(e)
  PROVE  IInv'
<1>1. Event(PressOn(ui, e)) /\ ClickOn(e, PressOn(ui, e))
  BY DEF InvokePointerDown, ClickOn
<1>2. Sound(PressOn(ui, e), present) /\ hovered' \in Objects \cup {NULL}
  BY <1>1, ClickSound
<1> QED
  BY <1>1, <1>2, EventPreserves

LEMMA InvokeContextMenuPreserves ==
  ASSUME IInv, NEW e \in Element, InvokeContextMenu(e)
  PROVE  IInv'
<1> DEFINE u == Close(ui, Unrelated(ui, e))
<1>1. Event(u) /\ hovered' \in Objects \cup {NULL}
  BY DEF InvokeContextMenu, CloseUnrelated, Hovered, Objects
<1>2. Sound(u, present)
  BY CloseKeepsSound DEF IInv
<1> HIDE DEF u
<1> QED
  BY <1>1, <1>2, EventPreserves

(* A click in a window closes it. *)
LEMMA ClickInsidePreserves ==
  ASSUME IInv, NEW w \in Window, ClickInside(w)
  PROVE  IInv'
<1>1. PICK u : ClickOn(Contents[w], u) /\ Event(Close(u, {w}))
  BY DEF ClickInside
<1>2. Contents[w] \in Element
  BY Constants
<1>3. Sound(u, present) /\ hovered' \in Objects \cup {NULL}
  BY <1>1, <1>2, ClickSound
<1>4. Sound(Close(u, {w}), present)
  BY <1>3, CloseKeepsSound
<1> QED
  BY <1>1, <1>3, <1>4, EventPreserves

(* The drop-down button opens its menu, or closes it. *)
LEMMA ClickDropDownPreserves ==
  ASSUME IInv, ClickDropDown
  PROVE  IInv'
<1>1. PICK u : /\ ClickOn(DropDown, u)
               /\ Event(IF DropMenu \in Shown(u) THEN Close(u, {DropMenu}) ELSE OpenForm(u))
  BY DEF ClickDropDown
<1>2. /\ DropDown \in Element /\ DropMenu \in Window \ Tooltip /\ Inside(DropDown) \cap Tooltip = {}
      /\ DropDown # NULL
  BY Constants DEF Objects
<1>3. /\ Sound(u, present) /\ Shown(u) = Shown(ui) /\ Inside(DropDown) \cap u.dying = {}
      /\ hovered' \in Objects \cup {NULL}
  BY <1>1, <1>2, ClickSound
<1>4. CASE DropMenu \in Shown(u)
  <2>1. Event(Close(u, {DropMenu})) /\ Sound(Close(u, {DropMenu}), present)
    BY <1>1, <1>3, <1>4, CloseKeepsSound
  <2> QED
    BY <1>3, <2>1, EventPreserves
<1>5. CASE DropMenu \notin Shown(u)
  <2>1. There(DropDown, Shown(u), present)
    BY <1>3 DEF ClickDropDown, Exists, There
  <2>2. Aims(u, present, DropMenu, DropDown)
    BY <1>2, <1>3, <2>1 DEF Aims
  <2>3. Event(Opened(u, DropMenu, DropDown)) /\ Sound(Opened(u, DropMenu, DropDown), present)
    BY <1>1, <1>2, <1>3, <1>5, <2>2, OpenedSound DEF OpenForm
  <2> QED
    BY <1>3, <2>3, EventPreserves
<1> QED
  BY <1>4, <1>5

(* A sub menu opens on the list it belongs to, which the click leaves open. *)
LEMMA OpenSubMenuPreserves ==
  ASSUME IInv, NEW w \in Window, OpenSubMenu(w)
  PROVE  IInv'
<1> DEFINE e == Target[w]
           u == PressOn(ui, e)
<1>1. /\ w \notin Tooltip /\ w \notin Shown(ui) /\ e # NULL /\ Reachable(e)
      /\ Event(Opened(u, w, e)) /\ hovered' = Hovered(e)
  BY DEF OpenSubMenu
<1>2. e \in Element /\ Inside(e) \cap Tooltip = {}
  BY <1>1, Constants
<1>3. There(e, Shown(ui), present) /\ ClickOn(e, u)
  BY <1>1, <1>2, ReachableIsThere DEF ClickOn
<1> HIDE DEF u
<1>4. /\ Sound(u, present) /\ Shown(u) = Shown(ui) /\ Inside(e) \cap u.dying = {}
      /\ hovered' \in Objects \cup {NULL}
  BY <1>2, <1>3, ClickSound
<1>5. Aims(u, present, w, e)
  BY <1>1, <1>2, <1>3, <1>4 DEF Aims
<1>6. Sound(Opened(u, w, e), present)
  BY <1>1, <1>4, <1>5, OpenedSound
<1> QED
  BY <1>1, <1>4, <1>6, EventPreserves

(* A key *)
LEMMA InvokeKeyPreserves ==
  ASSUME IInv, NEW tab \in BOOLEAN, InvokeKey(tab)
  PROVE  IInv'
<1>1. Sound(ui, present) /\ hovered \in Objects \cup {NULL}
  BY DEF IInv
<1>2. ui.focus \in Focusables
  BY <1>1 DEF InvokeKey, Sound, Base, UI
<1>3. PICK from : Event(IF tab THEN MoveFocusFrom(ui, ui.focus, {}) ELSE Close(ui, from))
  BY DEF InvokeKey
<1>4. Sound(MoveFocusFrom(ui, ui.focus, {}), present)
  BY <1>1, <1>2, MoveFocusSound DEF Follows
<1>5. Sound(Close(ui, from), present)
  BY <1>1, CloseKeepsSound
<1>6. UNCHANGED hovered
  BY DEF InvokeKey
<1> QED
  BY <1>1, <1>3, <1>4, <1>5, <1>6, EventPreserves

(* The program opens a window. *)
LEMMA ShowPreserves ==
  ASSUME IInv, NEW w \in Window, Show(w)
  PROVE  IInv'
<1> DEFINE u == Opened(ui, w, Target[w])
           m == tip.m_tooltip
<1>1. /\ w \notin Tooltip /\ w \notin Shown(ui) /\ (Target[w] # NULL => Reachable(Target[w]))
      /\ ByProgram(u) /\ UNCHANGED <<present, hovered>>
  BY DEF Show
<1>2. Target[w] \in Element \cup {NULL} /\ Inside(Target[w]) \cap Tooltip = {} /\ Inside(NULL) = {}
  BY <1>1, Constants, InsideProperties
<1>3. /\ Sound(ui, present) /\ present \subseteq Element /\ hovered \in Objects \cup {NULL}
      /\ Held(ui, m) /\ m \in Tooltip \cup {NULL}
  BY DEF IInv, TipAgrees
<1>4. Aims(ui, present, w, Target[w])
  <2>1. Target[w] # NULL => There(Target[w], Shown(ui), present) /\ Inside(Target[w]) \cap ui.dying = {}
    BY <1>1, <1>2, ReachableIsThere
  <2> QED
    BY <1>1, <1>2, <2>1 DEF Aims
<1>5. /\ Sound(u, present) /\ Shown(u) = Shown(ui) \cup {w} /\ \A x \in Window \ {w} : u.target[x] = ui.target[x]
      /\ ui.dying \subseteq u.dying /\ (ui.moved => u.moved) /\ (u.dying = ui.dying \/ u.moved)
  BY <1>1, <1>3, <1>4, OpenedSound
<1> HIDE DEF u
<1>6. m # NULL => u.target[m] = ui.target[m]
  BY <1>1, <1>3, <1>5, Constants
<1>7. Held(u, m)
  BY <1>3, <1>5, <1>6 DEF Held, Lost
<1> QED
  BY <1>1, <1>3, <1>5, <1>7, ByProgramPreserves

(* It closes one. *)
LEMMA FormClosePreserves ==
  ASSUME IInv, NEW w \in Window, FormClose(w)
  PROVE  IInv'
<1> DEFINE u == Close(ui, {w})
<1>1. w \in Shown(ui) \ Tooltip /\ ByProgram(u) /\ UNCHANGED <<present, hovered>>
  BY DEF FormClose
<1>2. /\ Sound(ui, present) /\ present \subseteq Element /\ hovered \in Objects \cup {NULL}
      /\ Held(ui, tip.m_tooltip) /\ tip.m_tooltip \in Tooltip \cup {NULL} /\ NULL \notin Window
  BY Constants DEF IInv, TipAgrees, Objects
<1>3. Sound(u, present)
  BY <1>2, CloseKeepsSound
<1>4. Held(u, tip.m_tooltip)
  BY <1>1, <1>2, HeldClose
<1> HIDE DEF u
<1> QED
  BY <1>1, <1>2, <1>3, <1>4, ByProgramPreserves

(* It moves the focus. *)
LEMMA SetFocusPreserves ==
  ASSUME IInv, NEW e \in Element, SetFocus(e)
  PROVE  IInv'
<1>1. ByProgram(set_focus(ui, e)) /\ UNCHANGED <<present, hovered>>
  BY DEF SetFocus
<1>2. /\ Sound(ui, present) /\ present \subseteq Element /\ hovered \in Objects \cup {NULL} /\ Held(ui, tip.m_tooltip)
  BY DEF IInv, TipAgrees
<1>3. Follows(ui, present, set_focus(ui, e))
  BY <1>2, SetFocusSound
<1>4. Sound(set_focus(ui, e), present) /\ Held(set_focus(ui, e), tip.m_tooltip)
  BY <1>2, <1>3, HeldFollows DEF Follows
<1> QED
  BY <1>1, <1>2, <1>4, ByProgramPreserves

(* It deletes an element: the focus moves on, and what has its target in it
   closes. *)
LEMMA RemoveElementPreserves ==
  ASSUME IInv, NEW e \in Element, NEW dies \in BOOLEAN, RemoveElement(e, dies)
  PROVE  IInv'
<1> DEFINE set   == {x \in present : e \in Inside(x)}
           u     == IF dies THEN Close(ui, {e}) ELSE ui
           moved == IF u.focus = e THEN MoveFocusFrom(u, e, IF dies THEN set ELSE {}) ELSE u
           m     == tip.m_tooltip
<1>1. /\ e \in present /\ ByProgram(Deleted(moved, set)) /\ present' = present \ set
      /\ hovered' = IF hovered \in set THEN NULL ELSE hovered
  BY DEF RemoveElement
<1>2. /\ Sound(ui, present) /\ present \subseteq Element /\ hovered \in Objects \cup {NULL}
      /\ Held(ui, m) /\ m \in Tooltip \cup {NULL}
  BY DEF IInv, TipAgrees
<1>3. set \in SUBSET Objects /\ set \subseteq present /\ e \in set
  <2>1. e \in Inside(e)
    BY InsideProperties DEF Objects
  <2> QED
    BY <1>1, <1>2, <2>1 DEF Objects
<1>4. e # m /\ e # NULL
  BY <1>2, Constants DEF Objects
<1> HIDE DEF set, m
<1>5. Sound(u, present) /\ (Held(u, m) \/ Inside(u.target[m]) \cap set # {})
  <2>1. Sound(Close(ui, {e}), present) /\ Close(ui, {e}).target = ui.target
    BY <1>2, CloseKeepsSound
  <2>2. Held(Close(ui, {e}), m) \/ Inside(ui.target[m]) \cap ({e} \ Shown(ui)) # {}
    BY <1>2, <1>4, HeldClose
  <2> QED
    BY <1>2, <1>3, <2>1, <2>2
<1> HIDE DEF u
<1>6. Follows(u, present, moved)
  <2>1. u.focus = e => e \in Focusables
    BY <1>4, <1>5 DEF Sound, Base, UI
  <2> QED
    BY <1>5, <2>1, MoveFocusSound, FollowsItself
<1> HIDE DEF moved
<1>7. Sound(moved, present) /\ (Held(moved, m) \/ Inside(moved.target[m]) \cap set # {})
  BY <1>5, <1>6, HeldFollows DEF Follows
<1>8. Sound(Deleted(moved, set), present') /\ Held(Deleted(moved, set), m)
  BY <1>1, <1>2, <1>3, <1>7, DeletedSound, HeldDeleted
<1>9. present' \subseteq Element /\ hovered' \in Objects \cup {NULL}
  BY <1>1, <1>2
<1> QED
  BY <1>1, <1>8, <1>9, ByProgramPreserves DEF m, set, moved, u

(* The message that shows a tooltip: the one before closes. *)
LEMMA ShowTooltipPreserves ==
  ASSUME IInv, NEW w \in Window, ShowTooltip(w)
  PROVE  IInv'
<1> DEFINE u == Kill(ui, tip)
<1>1. tip \in Tips /\ Sound(ui, present)
  BY DEF IInv, TipAgrees, Tips
<1>2. w \in Tooltip /\ w \notin Shown(ui) /\ UNCHANGED <<present, hovered>>
  BY DEF ShowTooltip
<1>3. PICK e \in tip.show :
        IF e = GetTippedElement(hovered) /\ Exists(e)
        THEN /\ ui' = Opened(u, w, e)
             /\ tip' = [tip EXCEPT !.show = @ \ {e}, !.hide = @ \cup {w}, !.m_tooltip = w]
        ELSE tip' = [tip EXCEPT !.show = @ \ {e}] /\ UNCHANGED ui
  BY DEF ShowTooltip
<1>4. Sound(u, present) /\ Shown(u) = Shown(ui)
  BY <1>1, KillSound
<1> HIDE DEF u
<1>5. CASE ui' = Opened(u, w, e) /\ Exists(e)
           /\ tip' = [tip EXCEPT !.show = @ \ {e}, !.hide = @ \cup {w}, !.m_tooltip = w]
  <2>1. e \in Element /\ e # NULL /\ Inside(e) \cap Tooltip = {}
    BY <1>1, Constants DEF Objects, Tips
  <2>2. Aims(u, present, w, e)
    BY <1>2, <1>4, <1>5, <2>1 DEF Aims, Exists, There
  <2>3. w \notin Dimmed
    BY <1>2, Constants
  <2>4. Sound(ui', present) /\ Shown(ui') = Shown(ui) \cup {w} /\ ui'.dying = u.dying
    <3> DEFINE v == Opened(u, w, e)
    <3>1. Sound(v, present) /\ Shown(v) = Shown(u) \cup {w} /\ v.dying = u.dying
      <4>1. w \notin Shown(u)
        BY <1>2, <1>4
      <4> QED
        BY <1>4, <2>2, <2>3, <4>1, OpenedSound
    <3> HIDE DEF v
    <3>2. ui' = v
      BY <1>5 DEF v
    <3> QED
      BY <1>4, <3>1, <3>2
  <2>5. u.dying \subseteq Shown(u)
    BY <1>4 DEF Sound, Base, Fades
  <2>6. tip' \in Tips /\ tip'.m_tooltip = w
    BY <1>1, <1>2, <1>5 DEF Tips
  <2>7. TipAgrees'
    BY <1>2, <1>4, <2>4, <2>5, <2>6 DEF TipAgrees, Tips, Held
  <2> QED
    BY <1>2, <2>4, <2>7 DEF IInv
<1>6. CASE tip' = [tip EXCEPT !.show = @ \ {e}] /\ UNCHANGED ui
  <2>1. tip' \in Tips /\ tip'.m_tooltip = tip.m_tooltip
    BY <1>1, <1>6 DEF Tips
  <2>2. TipAgrees'
    BY <1>6, <2>1 DEF IInv, TipAgrees, Tips
  <2> QED
    BY <1>2, <1>6, <2>2 DEF IInv
<1> QED
  BY <1>3, <1>5, <1>6

(* The message that hides it, if it is still the one *)
LEMMA HideTooltipPreserves ==
  ASSUME IInv, NEW w \in Window, HideTooltip(w)
  PROVE  IInv'
<1> DEFINE u == Kill(ui, tip)
<1>1. tip \in Tips /\ Sound(ui, present) /\ UNCHANGED <<present, hovered>>
  BY DEF IInv, TipAgrees, Tips, HideTooltip
<1>2. Sound(u, present)
  BY <1>1, KillSound
<1> HIDE DEF u
<1>3. CASE ui' = u /\ tip' = [tip EXCEPT !.hide = @ \ {w}, !.m_tooltip = NULL]
  <2>1. tip' \in Tips /\ tip'.m_tooltip = NULL
    BY <1>1, <1>3 DEF Tips
  <2>2. TipAgrees'
    BY <2>1 DEF TipAgrees, Tips, Held
  <2> QED
    BY <1>1, <1>2, <1>3, <2>2 DEF IInv
<1>4. CASE tip' = [tip EXCEPT !.hide = @ \ {w}] /\ UNCHANGED ui
  <2>1. tip' \in Tips /\ tip'.m_tooltip = tip.m_tooltip
    BY <1>1, <1>4 DEF Tips
  <2>2. TipAgrees'
    BY <1>4, <2>1 DEF IInv, TipAgrees, Tips
  <2> QED
    BY <1>1, <1>4, <2>2 DEF IInv
<1> QED
  BY <1>3, <1>4 DEF HideTooltip, u

(* The pointer moves. *)
LEMMA InvokePointerMovePreserves ==
  ASSUME IInv, NEW e \in Hover, InvokePointerMove(e)
  PROVE  IInv'
<1> DEFINE tipped == GetTippedElement(e)
           u == Kill(ui, tip)
<1>1. tip \in Tips /\ Sound(ui, present) /\ present \subseteq Element
  BY DEF IInv, TipAgrees, Tips
<1>2. UNCHANGED present /\ hovered' = Hovered(e) /\ e \in Objects \cup {NULL}
  BY PopupsAssumption DEF InvokePointerMove, Objects
<1>3. hovered' \in Objects \cup {NULL}
  BY <1>2 DEF Hovered
<1>4. tipped \in Tipped \cup {NULL}
  BY <1>2, NearestProperties DEF GetTippedElement
<1>5. Sound(u, present)
  BY <1>1, KillSound
<1>6. \/ tipped # NULL /\ tip' = [tip EXCEPT !.show = @ \cup {tipped}, !.m_last_tipped_element = tipped] /\ UNCHANGED ui
      \/ ui' = u /\ tip' = [Killed(tip) EXCEPT !.m_last_tipped_element = tipped]
      \/ UNCHANGED <<ui, tip>>
  BY DEF InvokePointerMove
<1> HIDE DEF u, tipped
<1>7. CASE tipped # NULL /\ tip' = [tip EXCEPT !.show = @ \cup {tipped}, !.m_last_tipped_element = tipped] /\ UNCHANGED ui
  <2>1. tip' \in Tips /\ tip'.m_tooltip = tip.m_tooltip
    BY <1>1, <1>4, <1>7 DEF Tips
  <2>2. TipAgrees'
    BY <1>7, <2>1 DEF IInv, TipAgrees, Tips
  <2> QED
    BY <1>1, <1>2, <1>3, <1>7, <2>2 DEF IInv
<1>8. CASE ui' = u /\ tip' = [Killed(tip) EXCEPT !.m_last_tipped_element = tipped]
  <2> DEFINE t == Killed(tip)
  <2>1. t \in Tips /\ t.m_tooltip = NULL /\ tip' = [t EXCEPT !.m_last_tipped_element = tipped]
    BY <1>8, TipKilled
  <2> HIDE DEF t
  <2>2. tip' \in Tips /\ tip'.m_tooltip = NULL
    BY <1>4, <2>1 DEF Tips
  <2>3. TipAgrees'
    BY <2>2 DEF TipAgrees, Tips, Held
  <2> QED
    BY <1>1, <1>2, <1>3, <1>5, <1>8, <2>3 DEF IInv
<1>9. CASE UNCHANGED <<ui, tip>>
  BY <1>1, <1>2, <1>3, <1>9 DEF IInv, TipAgrees
<1> QED
  BY <1>6, <1>7, <1>8, <1>9

(* The end of a fade-in leaves all that leaves. *)
LEMMA FadedInPreserves ==
  ASSUME IInv, NEW w \in Window, FadedIn(w)
  PROVE  IInv'
<1>1. /\ ui' = [ui EXCEPT !.anims = @ \ {<<w, "in">>}] /\ UNCHANGED <<present, hovered, tip>>
      /\ ui \in UI /\ Fades(ui) /\ Targets(ui) /\ OpenBut(ui, present, {})
  BY DEF FadedIn, IInv, Sound, Base
<1>2. /\ ui' \in UI
      /\ ui'.z = ui.z /\ ui'.dying = ui.dying /\ ui'.target = ui.target /\ ui'.dimmers = ui.dimmers
      /\ ui'.dimmers_dying = ui.dimmers_dying /\ ui'.anims = ui.anims \ {<<w, "in">>} /\ ui'.moved = ui.moved
  BY <1>1 DEF UI
<1>3. Shown(ui') = Shown(ui) /\ Leaving(ui') = Leaving(ui)
  <2>1. {b \in ui'.anims : b[2] = "out"} = {b \in ui.anims : b[2] = "out"}
    BY <1>2
  <2> QED
    BY <1>2, <2>1 DEF Shown, Leaving
<1>4. Fades(ui')
  BY <1>1, <1>2, <1>3 DEF Fades
<1>5. Targets(ui')
  BY <1>1, <1>2, <1>3 DEF Targets
<1>6. OpenBut(ui', present, {})
  BY <1>1, <1>2, <1>3 DEF OpenBut, Sits
<1>7. TipAgrees'
  BY <1>1, <1>2, <1>3 DEF IInv, TipAgrees, Held, Lost
<1> QED
  BY <1>1, <1>2, <1>4, <1>5, <1>6, <1>7 DEF IInv, Sound, Base

(* Only a dimmer that is dying has faded out. *)
LEMMA DimmerFadedOutPreserves ==
  ASSUME IInv, NEW w \in Window, DimmerFadedOut(w)
  PROVE  IInv'
<1> DEFINE All == Forms \cup {DimmerOf(x) : x \in Window}
           z == Without(ui.z, {DimmerOf(w)})
<1>1. /\ <<DimmerOf(w), "out">> \in ui.anims
      /\ ui' = [ui EXCEPT !.anims = {a \in @ : a[1] # DimmerOf(w)}, !.z = Without(@, {DimmerOf(w)}),
                          !.dimmers = @ \ {w}, !.dimmers_dying = @ \ {w}]
      /\ UNCHANGED <<present, hovered, tip>>
      /\ ui \in UI /\ Fades(ui) /\ Targets(ui) /\ OpenBut(ui, present, {})
  BY DEF DimmerFadedOut, IInv, Sound, Base
<1>2. z \in Seq(All) /\ ToSet(z) = ToSet(ui.z) \ {DimmerOf(w)}
  <2>1. ui.z \in Seq(All)
    BY <1>1 DEF UI
  <2> HIDE DEF All
  <2> QED
    BY <2>1, WithoutProperties
<1> HIDE DEF z, All
<1>3. /\ ui' \in UI
      /\ ui'.z = z /\ ui'.dying = ui.dying /\ ui'.target = ui.target /\ ui'.moved = ui.moved
      /\ ui'.dimmers = ui.dimmers \ {w} /\ ui'.dimmers_dying = ui.dimmers_dying \ {w}
      /\ ui'.anims = {a \in ui.anims : a[1] # DimmerOf(w)}
  <2>1. ui' = [ui EXCEPT !.anims = {a \in ui.anims : a[1] # DimmerOf(w)}, !.z = z,
                         !.dimmers = ui.dimmers \ {w}, !.dimmers_dying = ui.dimmers_dying \ {w}]
    BY <1>1 DEF UI, z
  <2> DEFINE anims == {a \in ui.anims : a[1] # DimmerOf(w)}
  <2>2. /\ anims \in SUBSET ((Window \cup {DimmerOf(x) : x \in Window}) \X {"in", "out"})
        /\ ui.dimmers \ {w} \in SUBSET Window /\ ui.dimmers_dying \ {w} \in SUBSET Window
    BY <1>1 DEF UI
  <2> HIDE DEF anims, DimmerOf
  <2>3. ui' = [ui EXCEPT !.anims = anims, !.z = z,
                         !.dimmers = ui.dimmers \ {w}, !.dimmers_dying = ui.dimmers_dying \ {w}]
    BY <2>1 DEF anims
  <2>4. /\ ui'.z = z /\ ui'.dying = ui.dying /\ ui'.target = ui.target /\ ui'.moved = ui.moved
        /\ ui'.dimmers = ui.dimmers \ {w} /\ ui'.dimmers_dying = ui.dimmers_dying \ {w}
        /\ ui'.anims = anims
    BY <1>1, <2>3 DEF UI
  <2>5. ui' \in UI
    <3> DEFINE v == [ui EXCEPT !.z = z]
               d == [v EXCEPT !.dimmers = ui.dimmers \ {w}, !.dimmers_dying = ui.dimmers_dying \ {w}]
    <3>1. v \in UI
      BY <1>1, <1>2 DEF UI, All
    <3> HIDE DEF v
    <3>2. d \in UI
      BY <2>2, <3>1 DEF UI
    <3> HIDE DEF d
    <3>3. [d EXCEPT !.anims = anims] \in UI
      BY <2>2, <3>2 DEF UI
    <3>4. ui' = [d EXCEPT !.anims = anims]
      BY <1>1, <2>3 DEF UI, d, v
    <3> QED
      BY <3>3, <3>4
  <2> QED
    BY <2>4, <2>5 DEF anims
<1>4. Shown(ui') = Shown(ui)
  <2>1. DimmerOf(w) \notin Window
    BY Constants DEF Objects
  <2> QED
    BY <1>3, <1>2, <2>1 DEF Shown
<1>5. /\ ui.dying \subseteq Shown(ui) /\ ui.dimmers \subseteq Dimmed \cap Shown(ui)
      /\ ui.dimmers_dying \subseteq ui.dimmers
      /\ ui.dimmers \ ui.dimmers_dying = (Dimmed \cap Shown(ui)) \ ui.dying
      /\ ui.dying \cup DimmersOf(ui.dimmers_dying) = Leaving(ui)
      /\ \A a \in ui.anims : a[1] \in Shown(ui) \cup DimmersOf(ui.dimmers)
      /\ Shown(ui) \subseteq Window
  BY <1>1 DEF Fades, UI, Shown, ToSet
<1>6. ASSUME NEW some \in SUBSET Window
      PROVE  DimmersOf(some \ {w}) = DimmersOf(some) \ {DimmerOf(w)}
  <2>1. \A x \in Window : DimmerOf(x) = DimmerOf(w) => x = w
    BY DEF DimmerOf
  <2> HIDE DEF DimmerOf
  <2> QED
    BY <2>1 DEF DimmersOf
<1>7. DimmerOf(w) \notin Window
  BY Constants DEF Objects
<1>8. w \in ui.dimmers_dying
  <2>1. DimmerOf(w) \in Leaving(ui)
    <3> DEFINE a == <<DimmerOf(w), "out">>
    <3>1. a \in ui.anims /\ a[1] = DimmerOf(w) /\ a[2] = "out"
      BY <1>1
    <3> HIDE DEF a
    <3> QED
      BY <3>1 DEF Leaving
  <2>2. DimmerOf(w) \in DimmersOf(ui.dimmers_dying)
    BY <1>5, <1>7, <2>1
  <2> QED
    BY <2>2 DEF DimmersOf, DimmerOf
<1>9. Fades(ui')
  <2>1. /\ ui'.dying \subseteq Shown(ui') /\ ui'.dimmers \subseteq Dimmed \cap Shown(ui')
        /\ ui'.dimmers_dying \subseteq ui'.dimmers
    BY <1>3, <1>4, <1>5
  <2>2. ui'.dimmers \ ui'.dimmers_dying = (Dimmed \cap Shown(ui')) \ ui'.dying
    BY <1>3, <1>4, <1>5, <1>8
  <2>3. Leaving(ui') = Leaving(ui) \ {DimmerOf(w)}
    BY <1>3 DEF Leaving
  <2>4. ui.dimmers \subseteq Window /\ ui.dimmers_dying \subseteq Window
    BY <1>5
  <2>5. /\ DimmersOf(ui'.dimmers_dying) = DimmersOf(ui.dimmers_dying) \ {DimmerOf(w)}
        /\ DimmersOf(ui'.dimmers) = DimmersOf(ui.dimmers) \ {DimmerOf(w)}
    BY <1>3, <1>6, <2>4
  <2>6. ui'.dying \cup DimmersOf(ui'.dimmers_dying) = Leaving(ui')
    BY <1>3, <1>5, <1>7, <2>3, <2>5
  <2>7. \A a \in ui'.anims : a[1] \in Shown(ui') \cup DimmersOf(ui'.dimmers)
    BY <1>3, <1>4, <1>5, <2>5
  <2> QED
    BY <2>1, <2>2, <2>6, <2>7 DEF Fades
<1>10. Targets(ui')
  BY <1>1, <1>3, <1>4 DEF Targets
<1>11. OpenBut(ui', present, {})
  BY <1>1, <1>3, <1>4 DEF OpenBut, Sits
<1>12. TipAgrees'
  BY <1>1, <1>3, <1>4 DEF IInv, TipAgrees, Held, Lost
<1> QED
  BY <1>1, <1>3, <1>9, <1>10, <1>11, <1>12 DEF IInv, Sound, Base

(* What has faded out is removed, which may move the focus, and deleted. *)
LEMMA FadedOutPreserves ==
  ASSUME IInv, NEW w \in Window, FadedOut(w)
  PROVE  IInv'
<1> DEFINE left == OnRemove(ui, w)
           m == tip.m_tooltip
<1>1. /\ ui' = Deleted(left, {w}) /\ UNCHANGED <<present, tip>>
      /\ hovered' = IF w \in Inside(hovered) THEN NULL ELSE hovered
  BY DEF FadedOut
<1>2. /\ Sound(ui, present) /\ present \subseteq Element /\ hovered \in Objects \cup {NULL}
      /\ Held(ui, m) /\ m \in Tooltip \cup {NULL}
  BY DEF IInv, TipAgrees
<1>3. {w} \in SUBSET Objects /\ present \ {w} = present
  BY <1>2, Constants DEF Objects
<1>4. Sound(left, present) /\ Held(left, m)
  BY <1>2, OnRemoveSound, HeldFollows DEF Follows
<1> HIDE DEF left
<1>5. Sound(Deleted(left, {w}), present \ {w}) /\ Held(Deleted(left, {w}), m)
  BY <1>2, <1>3, <1>4, DeletedSound, HeldDeleted
<1>6. Sound(ui', present)
  BY <1>1, <1>3, <1>5
<1>7. TipAgrees'
  BY <1>1, <1>5 DEF IInv, TipAgrees
<1> QED
  BY <1>1, <1>2, <1>6, <1>7 DEF IInv

-----------------------------------------------------------------------------
(* The invariant holds when the program starts. *)
LEMMA Initially ==
  ASSUME Init
  PROVE  IInv
<1>1. /\ ui = [z |-> <<Main>>, dying |-> {}, target |-> [w \in Window |-> NULL],
               dimmers |-> {}, dimmers_dying |-> {}, anims |-> {},
               active |-> {Main}, last |-> [f \in Forms |-> NULL], focus |-> NULL, moved |-> FALSE]
  BY DEF Init
<1>2. ToSet(<<Main>>) = {Main} /\ Main \in Forms /\ Main \notin Window
  BY Constants DEF ToSet, Forms, Objects
<1>3. [f \in Forms |-> NULL] \in Memories
  BY DEF Memories
<1>4. ui \in UI
  BY <1>1, <1>2, <1>3 DEF UI
<1>5. /\ Shown(ui) = {} /\ ui.dying = {} /\ ui.dimmers = {} /\ ui.dimmers_dying = {} /\ ui.anims = {}
      /\ \A w \in Window : ui.target[w] = NULL
  BY <1>1, <1>2 DEF Shown
<1>6. Fades(ui)
  BY <1>5 DEF Fades, Leaving, DimmersOf
<1>7. Targets(ui) /\ OpenBut(ui, present, {})
  BY <1>5, InsideProperties DEF Targets, OpenBut
<1>8. TipAgrees /\ present \subseteq Element /\ hovered = NULL
  BY DEF Init, TipAgrees, Held
<1> QED
  BY <1>4, <1>6, <1>7, <1>8 DEF IInv, Sound, Base

(* And every step keeps it. *)
LEMMA NextPreserves ==
  ASSUME IInv, [Next]_vars
  PROVE  IInv'
<1>1. CASE \E w \in Window : Show(w) \/ FormClose(w) \/ OpenSubMenu(w) \/ ShowTooltip(w) \/ HideTooltip(w)
                               \/ ClickInside(w)
  BY <1>1, ShowPreserves, FormClosePreserves, OpenSubMenuPreserves, ShowTooltipPreserves, HideTooltipPreserves,
     ClickInsidePreserves
<1>2. CASE \E e \in Element : SetFocus(e) \/ InvokePointerDown(e) \/ InvokeContextMenu(e)
                                \/ \E dies \in BOOLEAN : RemoveElement(e, dies)
  BY <1>2, SetFocusPreserves, InvokePointerDownPreserves, InvokeContextMenuPreserves, RemoveElementPreserves
<1>3. CASE \E e \in Hover : InvokePointerMove(e)
  BY <1>3, InvokePointerMovePreserves
<1>4. CASE \E tab \in BOOLEAN : InvokeKey(tab)
  BY <1>4, InvokeKeyPreserves
<1>5. CASE ClickDropDown
  BY <1>5, ClickDropDownPreserves
<1>6. CASE Animate
  BY <1>6, FadedInPreserves, DimmerFadedOutPreserves, FadedOutPreserves DEF Animate
<1>7. CASE Crash
  BY <1>7 DEF Crash, IInv, TipAgrees
<1>8. CASE UNCHANGED vars
  BY <1>8 DEF vars, IInv, TipAgrees
<1> QED
  BY <1>1, <1>2, <1>3, <1>4, <1>5, <1>6, <1>7, <1>8 DEF Next

(* It is an invariant. *)
THEOREM Invariance == Spec => []IInv
<1>1. Init => IInv
  BY Initially
<1>2. IInv /\ [Next]_vars => IInv'
  BY NextPreserves
<1> QED
  BY <1>1, <1>2, PTL DEF Spec

(* A pop-up or message form that is open has its target, which is in what is
   shown and, unless the window is a tooltip, does not close, whatever closes,
   fades out or is deleted meanwhile, by the pointer, the keys or the program
   (OnElementDying, OnElementDelete, OnElementFocusChanged). *)
THEOREM PopupsOpen == Spec => []OpenOnTarget
<1>1. IInv => OpenOnTarget
  BY DEF IInv, Sound, OpenBut, Sits, OpenOnTarget, Exists, There
<1> QED
  BY <1>1, Invariance, PTL

(* What closes takes its dimmer with it, what is deleted its animations, and
   the tooltip manager holds a tooltip that is not open only when its target
   went or the focus moved without an event (OnDie, ~MessageForm, ~ModalForm,
   OnElementDelete, KillToolTip, OnElementFocusChanged). *)
THEOREM PopupsClean == Spec => []NothingLeftBehind
<1>1. IInv => NothingLeftBehind
  BY DEF IInv, Sound, Base, Fades, TipAgrees, Leaving, DimmersOf, NothingLeftBehind, Held
<1> QED
  BY <1>1, Invariance, PTL

-----------------------------------------------------------------------------
(* List boxes *)

ItemElements == [index : Nat, text : Nat, selected : BOOLEAN, disabled : BOOLEAN]
ListBoxes == [source : BOOLEAN, shown : Seq(ItemElements), value : Nat, filter : BOOLEAN, invalid : BOOLEAN, scroll : BOOLEAN]

(* No item has two elements. *)
Single(shown) ==
  \A j, k \in 1 .. Len(shown) : shown[j].index # 0 /\ shown[j].index = shown[k].index => j = k

(* Elements are of items that exist, and of all unless there is a filter. *)
ShowsItems(shown, filter, source) ==
  /\ \A k \in 1 .. Len(shown) : shown[k].index # 0 =>
       shown[k].index \in 1 .. Len(source) /\ shown[k].text = source[shown[k].index]
  /\ ~filter => \A i \in 1 .. Len(source) : \E k \in 1 .. Len(shown) : shown[k].index = i

(* The element of an item is the selected one. *)
SelectsValue(shown, v) ==
  \A k \in 1 .. Len(shown) : shown[k].selected = (shown[k].index # 0 /\ shown[k].index = v)

(* The inductive invariant of a list box *)
BoxOK(b, source) ==
  /\ b \in ListBoxes /\ Single(b.shown)
  /\ ~b.invalid => /\ SelectsValue(b.shown, b.value)
                   /\ IF b.source THEN ShowsItems(b.shown, b.filter, source) ELSE b.shown = <<>>

ListsIInv ==
  /\ items \in Seq(Text) /\ button \in [value : Nat, text : Nat]
  /\ box \in [Box -> ListBoxes] /\ \A x \in Box : BoxOK(box[x], items)

(* The fields of a list box *)
LEMMA BoxFields ==
  ASSUME NEW b \in ListBoxes
  PROVE  /\ b.source \in BOOLEAN /\ b.shown \in Seq(ItemElements) /\ b.value \in Nat /\ b.filter \in BOOLEAN
         /\ b.invalid \in BOOLEAN /\ b.scroll \in BOOLEAN
         /\ Len(b.shown) \in Nat /\ DOMAIN b.shown = 1 .. Len(b.shown)
         /\ \A k \in 1 .. Len(b.shown) : b.shown[k] \in ItemElements /\ b.shown[k].index \in Nat
<1>1. /\ b.source \in BOOLEAN /\ b.shown \in Seq(ItemElements) /\ b.value \in Nat /\ b.filter \in BOOLEAN
      /\ b.invalid \in BOOLEAN /\ b.scroll \in BOOLEAN
  BY DEF ListBoxes
<1>2. \A e \in ItemElements : e.index \in Nat
  BY DEF ItemElements
<1> QED
  BY <1>1, <1>2

(* GetItemElement finds the element of an item. *)
LEMMA ElementFound ==
  ASSUME NEW b \in ListBoxes, NEW i \in Nat
  PROVE  LET k == GetItemElement(b, i)
         IN  /\ k \in 0 .. Len(b.shown)
             /\ k = 0 <=> i = 0 \/ \A j \in 1 .. Len(b.shown) : b.shown[j].index # i
             /\ k # 0 => i # 0 /\ b.shown[k].index = i
<1> DEFINE found == {k \in DOMAIN b.shown : b.shown[k].index = i}
<1>1. Len(b.shown) \in Nat /\ found \in SUBSET (1 .. Len(b.shown)) /\ DOMAIN b.shown = 1 .. Len(b.shown)
  BY BoxFields
<1>2. CASE i = 0 \/ found = {}
  BY <1>1, <1>2 DEF GetItemElement
<1>3. CASE i # 0 /\ found # {}
  <2>1. GetItemElement(b, i) = Min(found)
    BY <1>3 DEF GetItemElement
  <2>2. found \in SUBSET Nat /\ found # {}
    BY <1>1, <1>3
  <2>3. Min(found) \in found
    BY <2>2, MinIsLeast
  <2> QED
    BY <1>1, <1>3, <2>1, <2>3
<1> QED
  BY <1>2, <1>3

(* ListItem selects or unselects the element of an item, and nothing else. *)
LEMMA ListItemSelects ==
  ASSUME NEW b \in ListBoxes, Single(b.shown), NEW i \in Nat, NEW s \in BOOLEAN
  PROVE  LET c == ListItem(b, i, s)
         IN  /\ c \in ListBoxes /\ c = [b EXCEPT !.shown = c.shown] /\ Len(c.shown) = Len(b.shown)
             /\ \A k \in 1 .. Len(b.shown) :
                  /\ c.shown[k].index = b.shown[k].index /\ c.shown[k].text = b.shown[k].text
                  /\ c.shown[k].selected = IF i # 0 /\ b.shown[k].index = i THEN s ELSE b.shown[k].selected
<1> DEFINE k == GetItemElement(b, i)
           c == ListItem(b, i, s)
           shown == [b.shown EXCEPT ![k] = [b.shown[k] EXCEPT !.selected = s]]
<1>1. /\ k \in 0 .. Len(b.shown) /\ (k # 0 => i # 0 /\ b.shown[k].index = i)
      /\ (k = 0 <=> i = 0 \/ \A j \in 1 .. Len(b.shown) : b.shown[j].index # i)
  BY ElementFound
<1>2. b.shown \in Seq(ItemElements) /\ Len(b.shown) \in Nat /\ \A j \in 1 .. Len(b.shown) : b.shown[j] \in ItemElements
  BY BoxFields
<1>3. CASE k = 0
  <2>1. c = b
    BY <1>3 DEF ListItem
  <2>2. b = [b EXCEPT !.shown = b.shown]
    BY DEF ListBoxes
  <2> QED
    BY <1>1, <1>3, <2>1, <2>2
<1>4. CASE k # 0
  <2>1. c = [b EXCEPT !.shown = shown]
    BY <1>4 DEF ListItem
  <2>2. k \in 1 .. Len(b.shown)
    BY <1>1, <1>2, <1>4
  <2>3. /\ [b.shown[k] EXCEPT !.selected = s] \in ItemElements
        /\ [b.shown[k] EXCEPT !.selected = s].index = b.shown[k].index
        /\ [b.shown[k] EXCEPT !.selected = s].text = b.shown[k].text
        /\ [b.shown[k] EXCEPT !.selected = s].selected = s
    <3>1. \A e \in ItemElements : LET f == [e EXCEPT !.selected = s]
                           IN  f \in ItemElements /\ f.index = e.index /\ f.text = e.text /\ f.selected = s
      BY DEF ItemElements
    <3> HIDE DEF k
    <3> QED
      BY <1>2, <2>2, <3>1
  <2> DEFINE e == [b.shown[k] EXCEPT !.selected = s]
  <2> HIDE DEF e, k
  <2>4. shown \in Seq(ItemElements) /\ Len(shown) = Len(b.shown) /\ \A j \in 1 .. Len(b.shown) : shown[j] = IF j = k THEN e ELSE b.shown[j]
    BY <1>2, <2>2, <2>3 DEF e
  <2> HIDE DEF shown
  <2>5. c \in ListBoxes /\ c.shown = shown
    BY <2>1, <2>4 DEF ListBoxes
  <2>6. \A j \in 1 .. Len(b.shown) : b.shown[j].index = i <=> j = k
    BY <1>1, <1>4, <2>2 DEF Single, k
  <2> QED
    BY <1>1, <1>4, <2>1, <2>3, <2>4, <2>5, <2>6 DEF e, k
<1> QED
  BY <1>3, <1>4

(* Elements of the same items *)
LEMMA SameItems ==
  ASSUME NEW shown, NEW more, NEW filter, NEW source, Single(shown), Len(more) = Len(shown),
         \A k \in 1 .. Len(shown) : more[k].index = shown[k].index /\ more[k].text = shown[k].text
  PROVE  Single(more) /\ (ShowsItems(shown, filter, source) => ShowsItems(more, filter, source))
<1>1. Single(more)
  BY DEF Single
<1>2. ASSUME ShowsItems(shown, filter, source)
      PROVE  ShowsItems(more, filter, source)
  BY <1>2 DEF ShowsItems
<1> QED
  BY <1>1, <1>2

(* set_value unselects one element and selects another. *)
LEMMA BoxValueOK ==
  ASSUME NEW b, NEW source, NEW v \in Nat, BoxOK(b, source)
  PROVE  BoxOK(BoxValue(b, v), source)
<1> DEFINE d == ListItem(b, b.value, FALSE)
           e == [d EXCEPT !.value = v]
           f == ListItem(e, v, TRUE)
           c == BoxValue(b, v)
<1>1. b \in ListBoxes /\ Single(b.shown) /\ b.value \in Nat
  BY BoxFields DEF BoxOK
<1>2. CASE v = b.value
  BY <1>2 DEF BoxValue
<1>3. CASE v # b.value
  <2>1. /\ d \in ListBoxes /\ d = [b EXCEPT !.shown = d.shown] /\ Len(d.shown) = Len(b.shown)
        /\ \A k \in 1 .. Len(b.shown) :
             /\ d.shown[k].index = b.shown[k].index /\ d.shown[k].text = b.shown[k].text
             /\ d.shown[k].selected = IF b.value # 0 /\ b.shown[k].index = b.value THEN FALSE ELSE b.shown[k].selected
    BY <1>1, ListItemSelects
  <2> HIDE DEF d
  <2>2. e \in ListBoxes /\ e.shown = d.shown /\ e.value = v
    BY <2>1 DEF ListBoxes
  <2>3. Single(e.shown)
    BY <1>1, <2>1, <2>2, SameItems
  <2> HIDE DEF e
  <2>4. /\ f \in ListBoxes /\ f = [e EXCEPT !.shown = f.shown] /\ Len(f.shown) = Len(e.shown)
        /\ \A k \in 1 .. Len(e.shown) :
             /\ f.shown[k].index = e.shown[k].index /\ f.shown[k].text = e.shown[k].text
             /\ f.shown[k].selected = IF v # 0 /\ e.shown[k].index = v THEN TRUE ELSE e.shown[k].selected
    BY <2>2, <2>3, ListItemSelects
  <2> HIDE DEF f
  <2>5. /\ c \in ListBoxes /\ c.shown = f.shown /\ c.value = v
        /\ c.invalid = b.invalid /\ c.source = b.source /\ c.filter = b.filter
    <3>1. c = ScrollToSelectedItem(f)
      BY <1>3 DEF BoxValue, d, e, f
    <3>2. c = [f EXCEPT !.scroll = TRUE] \/ c = [f EXCEPT !.scroll = FALSE]
      BY <3>1 DEF ScrollToSelectedItem
    <3>3. c \in ListBoxes /\ c.shown = f.shown /\ c.value = f.value /\ c.invalid = f.invalid /\ c.source = f.source /\ c.filter = f.filter
      BY <2>4, <3>2 DEF ListBoxes
    <3>4. f.value = e.value /\ f.invalid = e.invalid /\ f.source = e.source /\ f.filter = e.filter
      BY <2>2, <2>4 DEF ListBoxes
    <3>5. e.invalid = d.invalid /\ e.source = d.source /\ e.filter = d.filter
      BY <2>1 DEF ListBoxes, e
    <3>6. d.invalid = b.invalid /\ d.source = b.source /\ d.filter = b.filter
      BY <1>1, <2>1 DEF ListBoxes
    <3> QED
      BY <2>2, <3>3, <3>4, <3>5, <3>6
  <2> HIDE DEF c
  <2>6. /\ Len(c.shown) = Len(b.shown)
        /\ \A k \in 1 .. Len(b.shown) :
             /\ c.shown[k].index = b.shown[k].index /\ c.shown[k].text = b.shown[k].text
             /\ c.shown[k].selected = IF v # 0 /\ b.shown[k].index = v THEN TRUE
                                      ELSE IF b.value # 0 /\ b.shown[k].index = b.value THEN FALSE
                                      ELSE b.shown[k].selected
    <3>1. c.shown = f.shown /\ e.shown = d.shown /\ Len(f.shown) = Len(b.shown) /\ Len(e.shown) = Len(b.shown)
      BY <2>1, <2>2, <2>4, <2>5
    <3>2. ASSUME NEW k \in 1 .. Len(b.shown)
          PROVE  /\ d.shown[k].index = b.shown[k].index /\ d.shown[k].text = b.shown[k].text
                 /\ f.shown[k].index = d.shown[k].index /\ f.shown[k].text = d.shown[k].text
                 /\ d.shown[k].selected = IF b.value # 0 /\ b.shown[k].index = b.value THEN FALSE ELSE b.shown[k].selected
                 /\ f.shown[k].selected = IF v # 0 /\ d.shown[k].index = v THEN TRUE ELSE d.shown[k].selected
      BY <2>1, <2>4, <3>1, Zenon
    <3> QED
      BY <3>1, <3>2, Zenon
  <2>7. Single(c.shown) /\ (ShowsItems(b.shown, b.filter, source) => ShowsItems(c.shown, b.filter, source))
    BY <1>1, <2>6, SameItems
  <2>8. SelectsValue(b.shown, b.value) => SelectsValue(c.shown, v)
    BY <1>3, <2>6 DEF SelectsValue
  <2>9. b.shown = <<>> => c.shown = <<>>
    <3>1. b.shown \in Seq(ItemElements) /\ c.shown \in Seq(ItemElements)
      BY <1>1, <2>5, BoxFields
    <3> QED
      BY <2>6, <3>1
  <2>10. BoxOK(c, source)
    BY <2>5, <2>7, <2>8, <2>9 DEF BoxOK
  <2> QED
    BY <2>10 DEF c
<1> QED
  BY <1>2, <1>3

(* An invalid list, whatever it still shows *)
LEMMA InvalidOK ==
  ASSUME NEW b \in ListBoxes, Single(b.shown), b.invalid = TRUE, NEW source
  PROVE  BoxOK(b, source)
BY DEF BoxOK

(* InvalidateList leaves the elements for the next OnProcess. *)
LEMMA InvalidateListOK ==
  ASSUME NEW b \in ListBoxes, Single(b.shown), NEW source
  PROVE  BoxOK(InvalidateList(b), source)
<1>1. InvalidateList(b) \in ListBoxes /\ InvalidateList(b).shown = b.shown /\ InvalidateList(b).invalid = TRUE
  BY DEF InvalidateList, ListBoxes
<1> QED
  BY <1>1, InvalidOK

(* Sorted has every item that passes the filter once. *)
LEMMA SortedCovers ==
  ASSUME NEW source \in Seq(Text), NEW order, NEW filter \in BOOLEAN, NEW p \in Sorted(source, order, filter)
  PROVE  /\ p \in Seq(1 .. Len(source)) /\ DOMAIN p = 1 .. Len(p)
         /\ \A j, k \in 1 .. Len(p) : p[j] = p[k] => j = k
         /\ ~filter => \A i \in 1 .. Len(source) : \E k \in 1 .. Len(p) : p[k] = i
<1> DEFINE passing == {i \in DOMAIN source : filter => Filter(source[i])}
           D == 1 .. Cardinality(passing)
<1>1. p \in SetToSeqs(passing)
  BY DEF Sorted
<1>2. p \in [D -> passing] /\ \A i, j \in D : i # j => p[i] # p[j]
  BY <1>1 DEF SetToSeqs
<1>3. passing \in SUBSET (1 .. Len(source)) /\ Len(source) \in Nat /\ (~filter => passing = 1 .. Len(source))
  OBVIOUS
<1>4. IsFiniteSet(passing) /\ Cardinality(passing) \in Nat
  <2>1. IsFiniteSet(1 .. Len(source))
    BY <1>3, FS_Interval
  <2> QED
    BY <1>3, <2>1, FS_Subset, FS_CardinalityType
<1> HIDE DEF passing
<1>5. p \in Seq(1 .. Len(source)) /\ Len(p) = Cardinality(passing) /\ DOMAIN p = 1 .. Len(p)
  <2> DEFINE n == Cardinality(passing)
  <2>1. p \in [1 .. n -> 1 .. Len(source)] /\ n \in Nat
    BY <1>2, <1>3, <1>4
  <2> HIDE DEF n
  <2>2. p \in Seq(1 .. Len(source)) /\ Len(p) = n /\ DOMAIN p = 1 .. Len(p)
    BY <2>1
  <2> QED
    BY <2>2 DEF n
<1>6. p \in Surjection(D, passing)
  <2>1. p \in Injection(D, passing)
    BY <1>2 DEF Injection, IsInjective
  <2>2. Cardinality(D) = Cardinality(passing)
    BY <1>4, FS_Interval
  <2> QED
    BY <1>4, <2>1, <2>2, FS_Injection
<1>7. \A i \in passing : \E k \in D : p[k] = i
  BY <1>6 DEF Surjection
<1> QED
  BY <1>2, <1>3, <1>5, <1>7

(* A new element *)
LEMMA ElementCreated ==
  ASSUME NEW source \in Seq(Text), NEW i \in 1 .. Len(source)
  PROVE  /\ CreateItemElement(source, i) \in ItemElements /\ CreateItemElement(source, i).index = i
         /\ CreateItemElement(source, i).text = source[i] /\ CreateItemElement(source, i).selected = FALSE
<1> DEFINE text == source[i]
           disabled == source[i] \in Separators
<1>1. text \in Nat /\ i \in Nat /\ disabled \in BOOLEAN
  <2>1. source[i] \in Text /\ Len(source) \in Nat
    OBVIOUS
  <2>2. Text \subseteq Nat
    BY ListBoxesAssumption
  <2>3. disabled \in BOOLEAN
    OBVIOUS
  <2>4. text \in Nat
    BY <2>1, <2>2, Zenon
  <2>5. i \in Nat
    BY <2>1
  <2> QED
    BY <2>3, <2>4, <2>5, Zenon
<1>2. CreateItemElement(source, i) = [index |-> i, text |-> text, selected |-> FALSE, disabled |-> disabled]
  BY DEF CreateItemElement
<1> HIDE DEF text, disabled
<1> DEFINE e == CreateItemElement(source, i)
<1>3. e \in ItemElements /\ e.index = i /\ e.text = text /\ e.selected = FALSE
  BY <1>1, <1>2 DEF ItemElements
<1> QED
  BY <1>3 DEF text

(* An element with the state of another *)
LEMMA StateTaken ==
  ASSUME NEW e \in ItemElements, NEW s \in BOOLEAN, NEW d \in BOOLEAN
  PROVE  LET f == [e EXCEPT !.selected = s, !.disabled = d]
         IN  f \in ItemElements /\ f.index = e.index /\ f.text = e.text /\ f.selected = s
BY DEF ItemElements

(* ValidateList makes all elements anew. *)
LEMMA ValidateListOK ==
  ASSUME NEW b, BoxOK(b, items), items \in Seq(Text), NEW order, NEW p \in Sorted(items, order, b.filter)
  PROVE  BoxOK(ValidateList(b, p), items)
<1> DEFINE empty == [b EXCEPT !.invalid = FALSE, !.shown = <<>>]
           header == IF b.filter THEN <<Header>> ELSE <<>>
           made == [k \in DOMAIN p |-> CreateItemElement(items, p[k])]
           elements == header \o made
           full == [empty EXCEPT !.shown = elements]
           d == ListItem(full, b.value, TRUE)
           c == ValidateList(b, p)
<1>1. b \in ListBoxes /\ b.filter \in BOOLEAN /\ b.value \in Nat
  BY BoxFields DEF BoxOK
<1>2. /\ p \in Seq(1 .. Len(items)) /\ DOMAIN p = 1 .. Len(p) /\ Len(p) \in Nat
      /\ \A j, k \in 1 .. Len(p) : p[j] = p[k] => j = k
      /\ ~b.filter => \A i \in 1 .. Len(items) : \E k \in 1 .. Len(p) : p[k] = i
  BY <1>1, SortedCovers
<1>3. CASE ~b.invalid
  BY <1>3 DEF ValidateList
<1>4. /\ empty \in ListBoxes /\ empty.shown = <<>> /\ empty.invalid = FALSE /\ empty.source = b.source
      /\ empty.value = b.value /\ empty.filter = b.filter
  <2>1. <<>> \in Seq(ItemElements)
    OBVIOUS
  <2> QED
    BY <1>1, <2>1 DEF ListBoxes
<1>5. CASE b.invalid /\ (~b.source \/ items = <<>>)
  <2>1. c = empty
    BY <1>5 DEF ValidateList
  <2> HIDE DEF empty
  <2>2. BoxOK(empty, items)
    BY <1>4, <1>5 DEF BoxOK, Single, SelectsValue, ShowsItems
  <2> QED
    BY <2>1, <2>2
<1>6. CASE b.invalid /\ b.source /\ items # <<>>
  <2>1. c = [d EXCEPT !.scroll = TRUE]
    BY <1>6 DEF ValidateList
  <2>2. /\ made \in Seq(ItemElements) /\ Len(made) = Len(p)
        /\ \A k \in 1 .. Len(p) : made[k].index = p[k] /\ made[k].text = items[p[k]] /\ made[k].selected = FALSE
    <3>1. \A k \in 1 .. Len(p) : p[k] \in 1 .. Len(items)
      BY <1>2
    <3>2. \A k \in 1 .. Len(p) : LET e == CreateItemElement(items, p[k])
                                IN  e \in ItemElements /\ e.index = p[k] /\ e.text = items[p[k]] /\ e.selected = FALSE
      <4> TAKE k \in 1 .. Len(p)
      <4>1. p[k] \in 1 .. Len(items)
        BY <3>1
      <4> QED
        BY <4>1, ElementCreated
    <3>3. Len(made) = Len(p) /\ \A k \in 1 .. Len(p) : made[k] = CreateItemElement(items, p[k])
      BY <1>2
    <3>4. made \in Seq(ItemElements)
      BY <1>2, <3>2
    <3> HIDE DEF made
    <3> QED
      BY <3>2, <3>3, <3>4
  <2>3. Header \in ItemElements /\ Header.index = 0 /\ Header.selected = FALSE
    BY DEF Header, ItemElements
  <2> HIDE DEF made
  <2>4. PICK n \in Nat : /\ elements \in Seq(ItemElements) /\ Len(elements) = Len(p) + n
                         /\ \A k \in 1 .. Len(elements) :
                              elements[k] = IF k <= n THEN Header ELSE made[k - n]
    <3>1. CASE b.filter
      <4>1. elements \in Seq(ItemElements) /\ Len(elements) = Len(p) + 1
        BY <1>2, <2>2, <2>3, <3>1
      <4>2. \A k \in 1 .. Len(elements) : elements[k] = IF k <= 1 THEN Header ELSE made[k - 1]
        BY <1>2, <2>2, <2>3, <3>1
      <4> QED
        BY <4>1, <4>2
    <3>2. CASE ~b.filter
      <4>1. elements = made
        BY <2>2, <3>2
      <4>2. \A k \in 1 .. Len(made) : made[k] = IF k <= 0 THEN Header ELSE made[k - 0]
        BY <1>2, <2>2
      <4> HIDE DEF elements
      <4>3. Len(elements) = Len(p) + 0 /\ 0 \in Nat
        BY <1>2, <2>2, <4>1
      <4> QED
        BY <2>2, <4>1, <4>2, <4>3
    <3> QED
      BY <3>1, <3>2
  <2> HIDE DEF elements
  <2>5. \A k \in 1 .. Len(elements) : k <= n \/ k - n \in 1 .. Len(p)
    BY <1>2, <2>4
  <2>6. Single(elements)
    <3> SUFFICES ASSUME NEW j \in 1 .. Len(elements), NEW k \in 1 .. Len(elements),
                        elements[j].index # 0, elements[j].index = elements[k].index
                 PROVE  j = k
      BY DEF Single
    <3>1. ~(j <= n) /\ ~(k <= n)
      BY <2>3, <2>4
    <3>2. j - n \in 1 .. Len(p) /\ k - n \in 1 .. Len(p)
      BY <2>5, <3>1
    <3>3. elements[j].index = p[j - n] /\ elements[k].index = p[k - n]
      BY <2>2, <2>4, <3>1, <3>2
    <3>4. j - n = k - n
      BY <1>2, <3>2, <3>3
    <3> QED
      BY <1>2, <2>4, <3>4
  <2>7. ShowsItems(elements, b.filter, items)
    <3>1. ASSUME NEW k \in 1 .. Len(elements), elements[k].index # 0
          PROVE  elements[k].index \in 1 .. Len(items) /\ elements[k].text = items[elements[k].index]
      <4>1. k - n \in 1 .. Len(p) /\ elements[k] = made[k - n]
        BY <2>3, <2>4, <2>5, <3>1
      <4> QED
        BY <1>2, <2>2, <4>1
    <3>2. ASSUME ~b.filter, NEW i \in 1 .. Len(items)
          PROVE  \E k \in 1 .. Len(elements) : elements[k].index = i
      <4>1. PICK k \in 1 .. Len(p) : p[k] = i
        BY <1>2, <3>2
      <4>2. k + n \in 1 .. Len(elements) /\ ~(k + n <= n) /\ (k + n) - n = k
        BY <1>2, <2>4
      <4>3. elements[k + n] = made[k]
        BY <2>4, <4>2
      <4> QED
        BY <2>2, <4>1, <4>2, <4>3
    <3> QED
      BY <3>1, <3>2 DEF ShowsItems
  <2>8. \A k \in 1 .. Len(elements) : elements[k].selected = FALSE
    BY <2>2, <2>3, <2>4, <2>5
  <2>9. /\ full \in ListBoxes /\ full.shown = elements /\ full.invalid = FALSE /\ full.source = b.source
        /\ full.value = b.value /\ full.filter = b.filter
    <3> HIDE DEF empty
    <3> QED
      BY <1>4, <2>4 DEF ListBoxes
  <2> HIDE DEF full
  <2>10. /\ d \in ListBoxes /\ d = [full EXCEPT !.shown = d.shown] /\ Len(d.shown) = Len(full.shown)
         /\ \A k \in 1 .. Len(full.shown) :
              /\ d.shown[k].index = full.shown[k].index /\ d.shown[k].text = full.shown[k].text
              /\ d.shown[k].selected = IF b.value # 0 /\ full.shown[k].index = b.value THEN TRUE ELSE full.shown[k].selected
    BY <1>1, <2>6, <2>9, ListItemSelects
  <2> HIDE DEF d
  <2>11. /\ d.invalid = FALSE /\ d.source = b.source /\ d.value = b.value /\ d.filter = b.filter
    BY <2>9, <2>10 DEF ListBoxes
  <2>12. /\ c \in ListBoxes /\ c.shown = d.shown /\ c.invalid = FALSE /\ c.source = b.source
         /\ c.value = b.value /\ c.filter = b.filter
    BY <2>1, <2>10, <2>11 DEF ListBoxes
  <2> HIDE DEF c
  <2>13. Single(c.shown) /\ ShowsItems(c.shown, b.filter, items)
    BY <2>6, <2>7, <2>9, <2>10, <2>12, SameItems
  <2>14. SelectsValue(c.shown, b.value)
    <3>1. c.shown = d.shown /\ full.shown = elements /\ Len(d.shown) = Len(elements)
      BY <2>9, <2>10, <2>12
    <3>2. ASSUME NEW k \in 1 .. Len(elements)
          PROVE  d.shown[k].selected = (d.shown[k].index # 0 /\ d.shown[k].index = b.value)
      <4>1. elements[k].selected = FALSE /\ d.shown[k].index = elements[k].index
        BY <2>8, <2>10, <3>1
      <4>2. d.shown[k].selected = IF b.value # 0 /\ elements[k].index = b.value THEN TRUE ELSE elements[k].selected
        BY <2>10, <3>1
      <4> QED
        BY <4>1, <4>2
    <3> QED
      BY <3>1, <3>2 DEF SelectsValue
  <2>15. BoxOK(c, items)
    BY <1>6, <2>12, <2>13, <2>14 DEF BoxOK
  <2> QED
    BY <2>15 DEF c
<1> QED
  BY <1>1, <1>3, <1>5, <1>6

(* ReadItemNodes reads a sequence of strings. *)
LEMMA NodesRead == ReadItemNodes \in Seq(Text)
<1> DEFINE n == Len(Nodes)
           M == Seq(Text)
           step == [i \in 1 .. n |-> [list \in M |-> IF Nodes[i].name = "item" THEN Append(list, Nodes[i].text) ELSE list]]
           G(read) == [i \in 0 .. n |-> IF i = 0 THEN <<>>
                                        ELSE IF Nodes[i].name = "item" THEN Append(read[i - 1], Nodes[i].text)
                                        ELSE read[i - 1]]
<1>1. n \in Nat /\ <<>> \in M /\ \A i \in 1 .. n : Nodes[i].text \in Text
  <2> DEFINE Node == [name : STRING, text : Text]
  <2>1. Nodes \in Seq(Node)
    BY ListBoxesAssumption
  <2>2. \A node \in Node : node.text \in Text
    OBVIOUS
  <2> HIDE DEF Node
  <2>3. n \in Nat /\ \A i \in 1 .. n : Nodes[i] \in Node
    BY <2>1
  <2> QED
    BY <2>2, <2>3
<1>2. step \in [1 .. n -> [M -> M]]
  <2>1. ASSUME NEW i \in 1 .. n, NEW list \in M
        PROVE  (IF Nodes[i].name = "item" THEN Append(list, Nodes[i].text) ELSE list) \in M
    BY <1>1
  <2> HIDE DEF M, n
  <2> QED
    BY <2>1
<1>3. PICK f \in [0 .. n -> M] : f[0] = <<>> /\ \A i \in 1 .. n : f[i] = step[i][f[i - 1]]
  <2> HIDE DEF step, M, n
  <2> QED
    BY <1>1, <1>2, Recursion, SMTT(30)
<1>4. f = G(f)
  <2>1. ASSUME NEW i \in 0 .. n
        PROVE  f[i] = IF i = 0 THEN <<>> ELSE IF Nodes[i].name = "item" THEN Append(f[i - 1], Nodes[i].text) ELSE f[i - 1]
    <3>1. CASE i = 0
      BY <1>3, <3>1
    <3>2. CASE i # 0
      <4>1. i \in 1 .. n /\ i - 1 \in 0 .. n
        BY <1>1, <3>2
      <4>2. f[i - 1] \in M
        BY <4>1
      <4> QED
        BY <1>3, <3>2, <4>1, <4>2
    <3> QED
      BY <3>1, <3>2
  <2> HIDE DEF n, M
  <2> QED
    BY <2>1
<1>5. \A g : g = G(g) => g[n] \in M
  <2>1. ASSUME NEW g, g = G(g)
        PROVE  \A i \in 0 .. n : g[i] = IF i = 0 THEN <<>>
                                        ELSE IF Nodes[i].name = "item" THEN Append(g[i - 1], Nodes[i].text) ELSE g[i - 1]
    <3>1. \A i \in 0 .. n : G(g)[i] = IF i = 0 THEN <<>>
                                      ELSE IF Nodes[i].name = "item" THEN Append(g[i - 1], Nodes[i].text) ELSE g[i - 1]
      OBVIOUS
    <3> HIDE DEF G
    <3> QED
      BY <2>1, <3>1
  <2> HIDE DEF G
  <2>2. ASSUME NEW g, g = G(g)
        PROVE  g[n] \in M
    <3> DEFINE T == {i \in Nat : i <= n => g[i] \in M}
    <3>1. 0 \in T
      <4>1. 0 \in 0 .. n
        BY <1>1
      <4>2. g[0] = <<>>
        BY <2>1, <2>2, <4>1
      <4> QED
        BY <1>1, <4>2
    <3>2. ASSUME NEW i \in Nat, i \in T
          PROVE  i + 1 \in T
      <4> SUFFICES ASSUME i + 1 <= n
                   PROVE  g[i + 1] \in M
        OBVIOUS
      <4>1. i + 1 \in 0 .. n /\ i + 1 \in 1 .. n /\ (i + 1) - 1 = i /\ i + 1 # 0 /\ g[i] \in M
        BY <1>1, <3>2
      <4> DEFINE j == i + 1
      <4>2. g[j] = IF Nodes[j].name = "item" THEN Append(g[j - 1], Nodes[j].text) ELSE g[j - 1]
        <5> HIDE DEF j
        <5> QED
          BY <2>1, <2>2, <4>1 DEF j
      <4>3. Append(g[i], Nodes[j].text) \in M
        BY <1>1, <4>1
      <4> QED
        BY <4>1, <4>2, <4>3
    <3> HIDE DEF T
    <3>3. Nat \subseteq T
      BY <3>1, <3>2, Induction
    <3> QED
      BY <1>1, <3>3 DEF T
  <2> QED
    BY <2>2
<1> DEFINE read == CHOOSE g : g = G(g)
<1>6. read = G(read)
  BY <1>4
<1>7. ReadItemNodes = read[n]
  BY DEF ReadItemNodes
<1> QED
  BY <1>5, <1>6, <1>7

(* An item gets another string, and the list box a new element for it, or has
   it already. *)
LEMMA ItemChangedOK ==
  ASSUME NEW b, NEW source \in Seq(Text), NEW i \in 1 .. Len(source), NEW t \in Text, BoxOK(b, source)
  PROVE  LET now == [source EXCEPT ![i] = t]
             k == GetItemElement(b, i)
         IN  /\ b.source => BoxOK(OnItemChanged(b, i, now), now)
             /\ k # 0 /\ ~b.invalid => BoxOK([b EXCEPT !.shown[k].text = t], now)
<1> DEFINE now == [source EXCEPT ![i] = t]
           k == GetItemElement(b, i)
           e == [CreateItemElement(now, i) EXCEPT !.selected = b.shown[k].selected, !.disabled = b.shown[k].disabled]
           f == [b.shown[k] EXCEPT !.text = t]
<1>1. /\ now \in Seq(Text) /\ Len(now) = Len(source) /\ now[i] = t /\ i \in 1 .. Len(now) /\ Len(source) \in Nat
      /\ \A j \in 1 .. Len(source) : j # i => now[j] = source[j]
  OBVIOUS
<1> HIDE DEF now
<1>2. b \in ListBoxes /\ Single(b.shown)
  BY DEF BoxOK
<1>3. /\ b.shown \in Seq(ItemElements) /\ Len(b.shown) \in Nat /\ DOMAIN b.shown = 1 .. Len(b.shown)
      /\ \A j \in 1 .. Len(b.shown) : b.shown[j] \in ItemElements /\ b.shown[j].index \in Nat
  BY <1>2, BoxFields
<1>4. /\ k \in 0 .. Len(b.shown) /\ (k # 0 => i # 0 /\ b.shown[k].index = i)
      /\ (k = 0 <=> i = 0 \/ \A j \in 1 .. Len(b.shown) : b.shown[j].index # i)
  <2>1. i \in Nat
    BY <1>1
  <2> QED
    BY <1>2, <2>1, ElementFound
<1> HIDE DEF k
<1>5. i # 0
  BY <1>1
<1>6. CASE b.invalid
  <2>1. OnItemChanged(b, i, now) = b
    BY <1>6 DEF OnItemChanged
  <2>2. BoxOK(b, now)
    BY <1>2, <1>6 DEF BoxOK
  <2> QED
    BY <1>6, <2>1, <2>2 DEF now, k
<1>7. CASE ~b.invalid /\ k = 0
  <2>1. OnItemChanged(b, i, now) = b
    BY <1>7 DEF OnItemChanged, k
  <2>2. b.source => ShowsItems(b.shown, b.filter, source)
    BY <1>7 DEF BoxOK
  <2>3. b.source => ShowsItems(b.shown, b.filter, now)
    BY <1>1, <1>4, <1>5, <1>7, <2>2 DEF ShowsItems
  <2>4. b.source => BoxOK(b, now)
    BY <1>2, <1>7, <2>3 DEF BoxOK
  <2> QED
    BY <1>7, <2>1, <2>4 DEF now, k
<1>8. CASE ~b.invalid /\ k # 0
  <2>1. k \in 1 .. Len(b.shown) /\ b.shown[k] \in ItemElements /\ b.shown[k].index = i
    BY <1>3, <1>4, <1>8
  <2>2. \A g \in ItemElements : /\ g.selected \in BOOLEAN /\ g.disabled \in BOOLEAN
                         /\ LET h == [g EXCEPT !.text = t]
                            IN  h \in ItemElements /\ h.index = g.index /\ h.text = t /\ h.selected = g.selected
    <3>1. t \in Nat
      BY ListBoxesAssumption
    <3> QED
      BY <3>1 DEF ItemElements
  <2>3. e \in ItemElements /\ e.index = i /\ e.text = t /\ e.selected = b.shown[k].selected
    <3> DEFINE made == CreateItemElement(now, i)
               s == b.shown[k].selected
               d == b.shown[k].disabled
    <3>1. made \in ItemElements /\ made.index = i /\ made.text = t
      BY <1>1, ElementCreated
    <3>2. s \in BOOLEAN /\ d \in BOOLEAN
      BY <2>1, <2>2
    <3> HIDE DEF made, s, d
    <3>3. LET h == [made EXCEPT !.selected = s, !.disabled = d]
          IN  h \in ItemElements /\ h.index = made.index /\ h.text = made.text /\ h.selected = s
      BY <3>1, <3>2, StateTaken
    <3> QED
      BY <3>1, <3>3 DEF made, s, d
  <2>4. f \in ItemElements /\ f.index = i /\ f.text = t /\ f.selected = b.shown[k].selected
    BY <2>1, <2>2
  <2> HIDE DEF e, f
  <2>5. b.source
    BY <1>8, <2>1 DEF BoxOK
  <2>6. ASSUME NEW g \in ItemElements, g.index = i, g.text = t, g.selected = b.shown[k].selected
        PROVE  BoxOK([b EXCEPT !.shown = [b.shown EXCEPT ![k] = g]], now)
    <3> DEFINE shown == [b.shown EXCEPT ![k] = g]
               c == [b EXCEPT !.shown = shown]
    <3>1. shown \in Seq(ItemElements) /\ Len(shown) = Len(b.shown) /\ \A j \in 1 .. Len(b.shown) : shown[j] = IF j = k THEN g ELSE b.shown[j]
      BY <1>3, <2>1
    <3> HIDE DEF shown
    <3>2. /\ c \in ListBoxes /\ c.shown = shown /\ c.invalid = b.invalid /\ c.source = b.source
          /\ c.value = b.value /\ c.filter = b.filter
      BY <1>2, <3>1 DEF ListBoxes
    <3> HIDE DEF c
    <3>3. \A j \in 1 .. Len(b.shown) : shown[j].index = b.shown[j].index /\ shown[j].selected = b.shown[j].selected
      BY <2>1, <2>6, <3>1
    <3>4. \A j \in 1 .. Len(b.shown) : IF j = k THEN shown[j].text = t
                                        ELSE shown[j].text = b.shown[j].text /\ b.shown[j].index # i
      BY <1>2, <1>5, <2>1, <2>6, <3>1 DEF Single
    <3>5. Single(shown) /\ SelectsValue(shown, b.value)
      BY <1>2, <1>8, <3>1, <3>3 DEF Single, SelectsValue, BoxOK
    <3>6. ShowsItems(b.shown, b.filter, source)
      BY <1>8, <2>5 DEF BoxOK
    <3>7. ShowsItems(shown, b.filter, now)
      <4>1. ASSUME NEW j \in 1 .. Len(shown), shown[j].index # 0
            PROVE  shown[j].index \in 1 .. Len(now) /\ shown[j].text = now[shown[j].index]
        <5>1. j \in 1 .. Len(b.shown) /\ b.shown[j].index # 0 /\ shown[j].index = b.shown[j].index
          BY <3>1, <3>3, <4>1
        <5>2. b.shown[j].index \in 1 .. Len(source) /\ b.shown[j].text = source[b.shown[j].index]
          BY <3>6, <5>1 DEF ShowsItems
        <5>3. CASE j = k
          BY <1>1, <2>1, <3>4, <5>1, <5>3
        <5>4. CASE j # k
          BY <1>1, <3>4, <5>1, <5>2, <5>4
        <5> QED
          BY <5>3, <5>4
      <4>2. ASSUME ~b.filter, NEW n \in 1 .. Len(now)
            PROVE  \E j \in 1 .. Len(shown) : shown[j].index = n
        <5>1. n \in 1 .. Len(source) /\ Len(shown) = Len(b.shown)
          BY <1>1, <3>1
        <5>2. PICK j \in 1 .. Len(b.shown) : b.shown[j].index = n
          BY <3>6, <4>2, <5>1, Zenon DEF ShowsItems
        <5>3. shown[j].index = n
          BY <3>3, <5>2
        <5> QED
          BY <5>1, <5>2, <5>3
      <4> QED
        BY <4>1, <4>2 DEF ShowsItems
    <3> QED
      <4>1. BoxOK(c, now)
        BY <1>8, <2>5, <3>2, <3>5, <3>7 DEF BoxOK
      <4> QED
        BY <4>1 DEF c, shown
  <2>7. OnItemChanged(b, i, now) = [b EXCEPT !.shown = [b.shown EXCEPT ![k] = e]]
    BY <1>8 DEF OnItemChanged, k, e
  <2>8. [b EXCEPT !.shown[k].text = t] = [b EXCEPT !.shown = [b.shown EXCEPT ![k] = f]]
    BY DEF f
  <2>9. BoxOK(OnItemChanged(b, i, now), now) /\ BoxOK([b EXCEPT !.shown[k].text = t], now)
    BY <2>3, <2>4, <2>6, <2>7, <2>8
  <2> QED
    BY <2>9 DEF now, k
<1> QED
  BY <1>6, <1>7, <1>8

(* What is not watched may change. *)
LEMMA Unwatched ==
  ASSUME NEW b, NEW source, NEW other, BoxOK(b, source), ~b.source
  PROVE  BoxOK(b, other)
BY DEF BoxOK

(* Scrolling touches neither the elements nor the value. *)
LEMMA ScrolledOK ==
  ASSUME NEW b, NEW source, BoxOK(b, source)
  PROVE  BoxOK(ScrollToSelectedItem(b), source)
<1> DEFINE c == ScrollToSelectedItem(b)
<1>1. b \in ListBoxes
  BY DEF BoxOK
<1>2. c = [b EXCEPT !.scroll = TRUE] \/ c = [b EXCEPT !.scroll = FALSE]
  BY DEF ScrollToSelectedItem
<1>3. /\ c \in ListBoxes /\ c.source = b.source /\ c.shown = b.shown /\ c.value = b.value
      /\ c.filter = b.filter /\ c.invalid = b.invalid
  BY <1>1, <1>2 DEF ListBoxes
<1> HIDE DEF c
<1>4. BoxOK(c, source)
  BY <1>3 DEF BoxOK
<1> QED
  BY <1>4 DEF c

(* A list box that gets another source or filter, or loses its items, is
   invalid. *)
LEMMA ResetOK ==
  ASSUME NEW b, NEW source, NEW other, BoxOK(b, source), NEW on \in BOOLEAN
  PROVE  /\ BoxOK(InvalidateList(b), other)
         /\ BoxOK(InvalidateList([b EXCEPT !.filter = on]), other)
         /\ BoxOK(InvalidateList([b EXCEPT !.source = on]), other)
         /\ BoxOK(OnAllItemsRemoved(b), other)
<1>1. b \in ListBoxes /\ Single(b.shown)
  BY DEF BoxOK
<1>2. BoxOK(InvalidateList(b), other)
  BY <1>1, InvalidateListOK
<1>3. BoxOK(InvalidateList([b EXCEPT !.filter = on]), other)
  <2> DEFINE c == [b EXCEPT !.filter = on]
  <2>1. c \in ListBoxes /\ c.shown = b.shown
    BY <1>1 DEF ListBoxes
  <2> QED
    BY <1>1, <2>1, InvalidateListOK
<1>4. BoxOK(InvalidateList([b EXCEPT !.source = on]), other)
  <2> DEFINE c == [b EXCEPT !.source = on]
  <2>1. c \in ListBoxes /\ c.shown = b.shown
    BY <1>1 DEF ListBoxes
  <2> QED
    BY <1>1, <2>1, InvalidateListOK
<1>5. BoxOK(OnAllItemsRemoved(b), other)
  <2> DEFINE c == OnAllItemsRemoved(b)
  <2>1. c \in ListBoxes /\ c.shown = b.shown /\ c.invalid = TRUE
    BY <1>1 DEF OnAllItemsRemoved, InvalidateList, ListBoxes
  <2> QED
    BY <1>1, <2>1, InvalidOK
<1> QED
  BY <1>2, <1>3, <1>4, <1>5

(* A bounded set of numbers has a greatest one. *)
LEMMA MaxIsGreatest ==
  ASSUME NEW n \in Nat, NEW T \in SUBSET (1 .. n), T # {}
  PROVE  Max(T) \in T
<1> DEFINE U == {n - k : k \in T}
<1>1. U \in SUBSET Nat /\ U # {}
  <2>1. \A k \in T : n - k \in Nat
    OBVIOUS
  <2>2. PICK k \in T : TRUE
    OBVIOUS
  <2>3. n - k \in U
    OBVIOUS
  <2> QED
    BY <2>1, <2>3
<1> HIDE DEF U
<1>2. PICK m \in U : \A k \in U : m <= k
  BY <1>1, LeastNatural
<1>3. PICK g \in T : m = n - g
  BY <1>2 DEF U
<1>4. \A k \in T : n - k \in U
  BY DEF U
<1>5. \A k \in T : g >= k
  BY <1>2, <1>3, <1>4
<1> QED
  BY <1>3, <1>5, ZenonT(20) DEF Max

(* A key chooses the item of an element, or nothing. *)
LEMMA ChangeValueOK ==
  ASSUME NEW b, NEW source, NEW key, BoxOK(b, source)
  PROVE  BoxOK(ChangeValue(b, key), source)
<1> DEFINE current == GetItemElement(b, b.value)
           n == Len(b.shown)
           forward == key \in {"home", "down"}
           from == IF key \in {"home", "end"} \/ current = 0 THEN (IF forward THEN 1 ELSE n) ELSE current
           found == {k \in 1 .. n : /\ IF forward THEN k >= from ELSE k <= from
                                    /\ from = current /\ key \in {"down", "up"} => k # current
                                    /\ ~b.shown[k].disabled}
           m == IF forward THEN Min(found) ELSE Max(found)
<1>1. b \in ListBoxes /\ n \in Nat /\ \A k \in 1 .. n : b.shown[k].index \in Nat
  BY BoxFields DEF BoxOK
<1>2. found \in SUBSET (1 .. n) /\ found \in SUBSET Nat
  <2>1. found \in SUBSET (1 .. n)
    OBVIOUS
  <2> HIDE DEF found
  <2> QED
    BY <1>1, <2>1
<1>3. ChangeValue(b, key) = IF found = {} THEN b ELSE BoxValue(b, b.shown[m].index)
  BY Zenon DEF ChangeValue
<1> HIDE DEF found, forward
<1>4. CASE found = {}
  BY <1>3, <1>4
<1>5. CASE found # {}
  <2>1. m \in found
    BY <1>1, <1>2, <1>5, MinIsLeast, MaxIsGreatest
  <2> HIDE DEF m
  <2>2. b.shown[m].index \in Nat
    BY <1>1, <1>2, <2>1
  <2>3. BoxOK(BoxValue(b, b.shown[m].index), source)
    BY <2>2, BoxValueOK
  <2> QED
    BY <1>3, <1>5, <2>3
<1> QED
  BY <1>4, <1>5

-----------------------------------------------------------------------------
(* The steps *)

(* One list box changes. *)
LEMMA SetsOK ==
  ASSUME ListsIInv, NEW x \in Box, NEW b, BoxOK(b, items), Sets(x, b), button' \in [value : Nat, text : Nat]
  PROVE  ListsIInv'
<1>1. box' = [box EXCEPT ![x] = b] /\ items' = items
  BY DEF Sets
<1>2. b \in ListBoxes /\ box \in [Box -> ListBoxes]
  BY DEF BoxOK, ListsIInv
<1>3. box' \in [Box -> ListBoxes] /\ \A y \in Box : box'[y] = IF y = x THEN b ELSE box[y]
  BY <1>1, <1>2
<1>4. \A y \in Box : BoxOK(box'[y], items')
  <2> TAKE y \in Box
  <2>1. BoxOK(box[y], items)
    BY DEF ListsIInv
  <2> QED
    BY <1>1, <1>3, <2>1
<1> QED
  BY <1>1, <1>3, <1>4 DEF ListsIInv

(* The observers are told of other items. *)
LEMMA TellOK ==
  ASSUME ListsIInv, items' \in Seq(Text), button' = button, NEW told, Tell(told),
         \A x \in Box : box[x].source => BoxOK(told[x], items')
  PROVE  ListsIInv'
<1>1. \A x \in Box : box'[x] = IF box[x].source THEN told[x] ELSE box[x]
  BY DEF Tell
<1>2. \A x \in Box : BoxOK(box'[x], items')
  <2> TAKE x \in Box
  <2>1. BoxOK(box[x], items)
    BY DEF ListsIInv
  <2>2. CASE box[x].source
    BY <1>1, <2>2
  <2>3. CASE ~box[x].source
    BY <1>1, <2>1, <2>3, Unwatched
  <2> QED
    BY <2>2, <2>3
<1>3. \A x \in Box : box'[x] \in ListBoxes
  BY <1>2 DEF BoxOK
<1>4. box' \in [Box -> ListBoxes]
  BY <1>3 DEF Tell
<1> QED
  BY <1>2, <1>4 DEF ListsIInv

(* The button's value and text *)
LEMMA ButtonValueOK ==
  ASSUME items \in Seq(Text), button \in [value : Nat, text : Nat], NEW v \in Nat
  PROVE  ButtonValue(v) \in [value : Nat, text : Nat]
<1>1. \A i \in 1 .. Len(items) : items[i] \in Nat
  <2>1. \A i \in 1 .. Len(items) : items[i] \in Text
    OBVIOUS
  <2> QED
    BY <2>1, ListBoxesAssumption
<1>2. button.text \in Nat /\ Len(items) \in Nat
  OBVIOUS
<1> DEFINE text == IF v = 0 THEN 0 ELSE IF v <= Len(items) THEN items[v] ELSE button.text
<1>3. text \in Nat
  BY <1>1, <1>2
<1>4. ButtonValue(v) = IF v = button.value THEN button ELSE [value |-> v, text |-> text]
  BY DEF ButtonValue
<1> HIDE DEF text
<1> QED
  BY <1>3, <1>4

(* Each operation of the program, of the source, of the observers and of the
   user keeps the invariant. *)
LEMMA ListsStep ==
  ASSUME ListsIInv, [ListsNext]_listsVars
  PROVE  ListsIInv'
<1>1. /\ items \in Seq(Text) /\ button \in [value : Nat, text : Nat]
      /\ \A x \in Box : BoxOK(box[x], items)
  BY DEF ListsIInv
<1>2. \A x \in Box : /\ box[x] \in ListBoxes /\ box[x].value \in Nat
                     /\ \A k \in DOMAIN box[x].shown : box[x].shown[k].index \in Nat
  <2> TAKE x \in Box
  <2>1. box[x] \in ListBoxes
    BY <1>1 DEF BoxOK
  <2> QED
    BY <2>1, BoxFields
<1>3. Len(items) \in Nat /\ DOMAIN items = 1 .. Len(items)
  BY <1>1
<1>4. ASSUME NEW t \in Text, PushBack(t)
      PROVE  ListsIInv'
  <2> DEFINE told == [x \in Box |-> OnItemAdded(box[x])]
  <2>1. Tell(told) /\ items' = Append(items, t) /\ button' = button
    BY <1>4 DEF PushBack
  <2>2. items' \in Seq(Text)
    BY <1>1, <2>1
  <2>3. \A x \in Box : BoxOK(told[x], items')
    BY <1>1, ResetOK DEF OnItemAdded
  <2> HIDE DEF told
  <2> QED
    BY <2>1, <2>2, <2>3, TellOK
<1>5. ASSUME NEW i \in DOMAIN items, Erase(i)
      PROVE  ListsIInv'
  <2> DEFINE told == [x \in Box |-> OnItemRemoved(box[x], i)]
  <2>1. Tell(told) /\ items' = RemoveAt(items, i) /\ button' = button
    BY <1>5 DEF Erase
  <2>2. items' \in Seq(Text)
    <3>1. SubSeq(items, 1, i - 1) \in Seq(Text) /\ SubSeq(items, i + 1, Len(items)) \in Seq(Text)
      BY <1>1, <1>3, <1>5
    <3> QED
      BY <2>1, <3>1 DEF RemoveAt
  <2>3. \A x \in Box : BoxOK(told[x], items')
    BY <1>1, ResetOK DEF OnItemRemoved
  <2> HIDE DEF told
  <2> QED
    BY <2>1, <2>2, <2>3, TellOK
<1>6. CASE Clear
  <2> DEFINE told == [x \in Box |-> OnAllItemsRemoved(box[x])]
  <2>1. Tell(told) /\ items' = <<>> /\ button' = button
    BY <1>6 DEF Clear
  <2>2. items' \in Seq(Text)
    BY <2>1
  <2>3. \A x \in Box : BoxOK(told[x], items')
    BY <1>1, ResetOK
  <2> HIDE DEF told
  <2> QED
    BY <2>1, <2>2, <2>3, TellOK
<1>7. ASSUME NEW i \in DOMAIN items, NEW t \in Text, NEW exclude, InvokeItemChanged(i, t, exclude)
      PROVE  ListsIInv'
  <2> DEFINE now == [items EXCEPT ![i] = t]
             views(b) == [b EXCEPT !.shown[GetItemElement(b, i)].text = t]
             next(x) == IF x \in exclude THEN views(box[x])
                        ELSE IF box[x].source THEN OnItemChanged(box[x], i, now) ELSE box[x]
  <2>1. /\ items' = now /\ box' = [x \in Box |-> next(x)] /\ button' = button
        /\ \A x \in exclude : x \in Box /\ GetItemElement(box[x], i) # 0 /\ ~box[x].invalid
    BY <1>7 DEF InvokeItemChanged
  <2>2. now \in Seq(Text)
    BY <1>1
  <2>3. ASSUME NEW x \in Box
        PROVE  BoxOK(next(x), now)
    <3>1. /\ box[x].source => BoxOK(OnItemChanged(box[x], i, now), now)
          /\ GetItemElement(box[x], i) # 0 /\ ~box[x].invalid => BoxOK(views(box[x]), now)
      BY <1>1, <1>3, ItemChangedOK
    <3>2. ~box[x].source => BoxOK(box[x], now)
      BY <1>1, Unwatched
    <3> HIDE DEF now, views
    <3> QED
      BY <2>1, <3>1, <3>2
  <2> HIDE DEF now, next
  <2>4. \A x \in Box : next(x) \in ListBoxes
    BY <2>3 DEF BoxOK
  <2> QED
    BY <2>1, <2>2, <2>3, <2>4 DEF ListsIInv
<1>8. ASSUME NEW order, SetSort(order)
      PROVE  ListsIInv'
  BY <1>8 DEF SetSort, ListsIInv
<1>9. ASSUME NEW x \in Box, NEW on \in BOOLEAN, SetFilter(x, on) \/ SetSource(x, on)
      PROVE  ListsIInv'
  <2>1. BoxOK(box[x], items)
    BY <1>1
  <2>2. /\ BoxOK(InvalidateList([box[x] EXCEPT !.filter = on]), items)
        /\ BoxOK(InvalidateList([box[x] EXCEPT !.source = on]), items)
    BY <2>1, ResetOK
  <2>3. CASE SetFilter(x, on)
    <3> DEFINE b == IF box[x].filter = on THEN box[x] ELSE InvalidateList([box[x] EXCEPT !.filter = on])
    <3>1. Sets(x, b) /\ button' = button
      BY <2>3 DEF SetFilter
    <3>2. BoxOK(b, items)
      BY <2>1, <2>2
    <3> HIDE DEF b
    <3> QED
      BY <1>1, <3>1, <3>2, SetsOK
  <2>4. CASE SetSource(x, on)
    <3> DEFINE b == IF box[x].source = on THEN box[x] ELSE InvalidateList([box[x] EXCEPT !.source = on])
    <3>1. Sets(x, b) /\ button' = button
      BY <2>4 DEF SetSource
    <3>2. BoxOK(b, items)
      BY <2>1, <2>2
    <3> HIDE DEF b
    <3> QED
      BY <1>1, <3>1, <3>2, SetsOK
  <2> QED
    BY <1>9, <2>3, <2>4
<1>10. ASSUME NEW x \in Box, NEW v \in Nat, SetValue(x, v)
       PROVE  ListsIInv'
  <2>1. Sets(x, BoxValue(box[x], v)) /\ button' = button
    BY <1>10 DEF SetValue
  <2>2. BoxOK(BoxValue(box[x], v), items)
    BY <1>1, BoxValueOK
  <2> QED
    BY <1>1, <2>1, <2>2, SetsOK
<1>11. ASSUME NEW x \in Box, OnProcess(x)
       PROVE  ListsIInv'
  <2>1. PICK p \in Sorted(items, sort, box[x].filter) : Sets(x, ValidateList(box[x], p))
    BY <1>11 DEF OnProcess
  <2>2. BoxOK(ValidateList(box[x], p), items)
    BY <1>1, ValidateListOK
  <2> QED
    BY <1>1, <1>11, <2>1, <2>2, SetsOK DEF OnProcess
<1>12. ASSUME NEW x \in Box, OnProcessAfterChildren(x)
       PROVE  ListsIInv'
  <2>1. Sets(x, ScrollToSelectedItem(box[x])) /\ button' = button
    BY <1>12 DEF OnProcessAfterChildren
  <2>2. BoxOK(ScrollToSelectedItem(box[x]), items)
    BY <1>1, ScrolledOK
  <2> QED
    BY <1>1, <2>1, <2>2, SetsOK
<1>13. ASSUME NEW x \in Box, NEW key, KeyDown(x, key)
       PROVE  ListsIInv'
  <2>1. Sets(x, ChangeValue(box[x], key)) /\ button' = button
    BY <1>13 DEF KeyDown
  <2>2. BoxOK(ChangeValue(box[x], key), items)
    BY <1>1, ChangeValueOK
  <2> QED
    BY <1>1, <2>1, <2>2, SetsOK
<1>14. ASSUME NEW x \in Box, NEW k \in DOMAIN box[x].shown, Click(x, k)
       PROVE  ListsIInv'
  <2> DEFINE b == BoxValue(box[x], box[x].shown[k].index)
             closed == InvalidateList([b EXCEPT !.source = FALSE])
  <2>1. IF x = Menu THEN Sets(x, closed) /\ button' = ButtonValue(b.value) ELSE Sets(x, b) /\ button' = button
    BY <1>14 DEF Click
  <2>2. BoxOK(b, items)
    BY <1>1, <1>2, BoxValueOK
  <2> HIDE DEF b
  <2>3. BoxOK(closed, items)
    BY <2>2, ResetOK
  <2> HIDE DEF closed
  <2>4. ButtonValue(b.value) \in [value : Nat, text : Nat]
    <3>1. b.value \in Nat
      BY <2>2, BoxFields DEF BoxOK
    <3> QED
      BY <1>1, <3>1, ButtonValueOK
  <2>5. CASE x = Menu
    BY <2>1, <2>3, <2>4, <2>5, SetsOK
  <2>6. CASE x # Menu
    BY <1>1, <2>1, <2>2, <2>6, SetsOK
  <2> QED
    BY <2>5, <2>6
<1>15. CASE OpenMenu
  <2> DEFINE b == [source |-> TRUE, shown |-> <<>>, value |-> button.value, filter |-> FALSE,
                   invalid |-> TRUE, scroll |-> button.value # 0]
  <2>1. PICK p \in Sorted(items, sort, FALSE) : Sets(Menu, ValidateList(b, p))
    BY <1>15 DEF OpenMenu
  <2>2. b \in ListBoxes /\ b.shown = <<>> /\ b.invalid = TRUE /\ b.filter = FALSE
    <3>1. button.value \in Nat /\ <<>> \in Seq(ItemElements)
      BY <1>1
    <3> QED
      BY <3>1 DEF ListBoxes
  <2> HIDE DEF b
  <2>3. BoxOK(b, items)
    <3>1. Single(b.shown)
      BY <2>2 DEF Single
    <3> QED
      BY <2>2, <3>1, InvalidOK
  <2>4. BoxOK(ValidateList(b, p), items)
    BY <1>1, <2>2, <2>3, ValidateListOK
  <2> QED
    BY <1>1, <1>15, <2>1, <2>4, ListBoxesAssumption, SetsOK DEF OpenMenu
<1>16. CASE OnSourceChanged
  <2>1. items' = items /\ box' = box
    BY <1>16 DEF OnSourceChanged
  <2>2. button' \in [value : Nat, text : Nat]
    <3>1. CASE items = <<>>
      <4>1. button' = [button EXCEPT !.value = 0]
        BY <1>16, <3>1 DEF OnSourceChanged
      <4> QED
        BY <1>1, <4>1
    <3>2. CASE items # <<>>
      <4>1. button' = [value |-> 1, text |-> items[1]]
        BY <1>16, <3>2 DEF OnSourceChanged
      <4>2. items[1] \in Text
        BY <1>1, <1>3, <3>2
      <4>3. items[1] \in Nat
        BY <4>2, ListBoxesAssumption
      <4> QED
        BY <4>1, <4>3
    <3> QED
      BY <3>1, <3>2
  <2> QED
    BY <2>1, <2>2 DEF ListsIInv
<1>17. CASE UNCHANGED listsVars
  BY <1>17 DEF listsVars, ListsIInv
<1>18. \A v \in 0 .. Len(items) : v \in Nat
  BY <1>3
<1> QED
  BY <1>4, <1>5, <1>6, <1>7, <1>8, <1>9, <1>10, <1>11, <1>12, <1>13, <1>14, <1>15, <1>16, <1>17, <1>18 DEF ListsNext

(* At first there are the items of the resource file, and no element. *)
LEMMA ListsStart ==
  ASSUME InitLists
  PROVE  ListsIInv
<1>1. items \in Seq(Text)
  BY NodesRead DEF InitLists
<1>2. button \in [value : Nat, text : Nat]
  BY DEF InitLists
<1>3. ASSUME NEW x \in Box
      PROVE  box[x] \in ListBoxes /\ BoxOK(box[x], items)
  <2> DEFINE b == [source |-> x # Menu, shown |-> <<>>, value |-> 0, filter |-> FALSE,
                   invalid |-> x # Menu, scroll |-> FALSE]
  <2>1. box[x] = b
    BY DEF InitLists
  <2>2. b \in ListBoxes /\ b.shown = <<>> /\ (b.invalid <=> x # Menu) /\ (b.source <=> x # Menu)
    <3>1. <<>> \in Seq(ItemElements)
      OBVIOUS
    <3> QED
      BY <3>1 DEF ListBoxes
  <2> HIDE DEF b
  <2>3. BoxOK(b, items)
    BY <2>2 DEF BoxOK, Single, SelectsValue
  <2> QED
    BY <2>1, <2>2, <2>3
<1>4. box \in [Box -> ListBoxes]
  <2>1. box = [x \in Box |-> box[x]]
    BY DEF InitLists
  <2> QED
    BY <1>3, <2>1
<1> QED
  BY <1>1, <1>2, <1>3, <1>4 DEF ListsIInv

(* What the invariant says of the lists that are valid *)
LEMMA ListsAreSafe ==
  ASSUME ListsIInv
  PROVE  ListsAgree
<1>1. ItemsShown
  <2> SUFFICES ASSUME NEW x \in Box, ~box[x].invalid, box[x].source
               PROVE  LET b == box[x]
                          Of(k) == b.shown[k].index
                          shown == {k \in DOMAIN b.shown : Of(k) # 0}
                      IN  /\ \A k \in shown : Of(k) \in DOMAIN items /\ b.shown[k].text = items[Of(k)]
                          /\ \A j, k \in shown : Of(j) = Of(k) => j = k
                          /\ ~b.filter => {Of(k) : k \in shown} = DOMAIN items
    BY DEF ItemsShown
  <2> DEFINE b == box[x]
             Of(k) == b.shown[k].index
             shown == {k \in DOMAIN b.shown : Of(k) # 0}
  <2>1. b \in ListBoxes /\ Single(b.shown) /\ ShowsItems(b.shown, b.filter, items)
    BY DEF ListsIInv, BoxOK
  <2>2. DOMAIN b.shown = 1 .. Len(b.shown)
    BY <2>1, BoxFields
  <2>3. DOMAIN items = 1 .. Len(items) /\ Len(items) \in Nat
    BY DEF ListsIInv
  <2> HIDE DEF b
  <2>4. \A k \in shown : Of(k) \in DOMAIN items /\ b.shown[k].text = items[Of(k)]
    BY <2>1, <2>2, <2>3 DEF ShowsItems
  <2>5. \A j, k \in shown : Of(j) = Of(k) => j = k
    BY <2>1, <2>2 DEF Single
  <2>6. ASSUME ~b.filter
        PROVE  {Of(k) : k \in shown} = DOMAIN items
    <3>1. ASSUME NEW i \in DOMAIN items
          PROVE  \E k \in shown : Of(k) = i
      <4>1. PICK k \in 1 .. Len(b.shown) : b.shown[k].index = i
        BY <2>1, <2>3, <2>6 DEF ShowsItems
      <4>2. i # 0
        BY <2>3
      <4> QED
        BY <2>2, <4>1, <4>2
    <3> QED
      BY <2>4, <3>1
  <2> QED
    BY <2>4, <2>5, <2>6 DEF b
<1>2. SelectionAgrees
  <2> SUFFICES ASSUME NEW x \in Box, ~box[x].invalid, NEW k \in DOMAIN box[x].shown
               PROVE  box[x].shown[k].selected = (box[x].shown[k].index # 0 /\ box[x].shown[k].index = box[x].value)
    BY DEF SelectionAgrees
  <2>1. box[x] \in ListBoxes /\ SelectsValue(box[x].shown, box[x].value)
    BY DEF ListsIInv, BoxOK
  <2>2. DOMAIN box[x].shown = 1 .. Len(box[x].shown)
    BY <2>1, BoxFields
  <2> QED
    BY <2>1, <2>2 DEF SelectsValue
<1> QED
  BY <1>1, <1>2 DEF ListsAgree

(* A valid list shows the items of its source, each once and as it is now, and
   has the element of its value selected, and no other, in all behaviours of
   the source, the program, the user and the drop-down button
   (list_item.h, list_box.cc, drop_down_button.cc). *)
THEOREM ListsSafe == ListsSpec => []ListsAgree
<1>1. InitLists => ListsIInv
  BY ListsStart
<1>2. ListsIInv /\ [ListsNext]_listsVars => ListsIInv'
  BY ListsStep
<1>3. ListsIInv => ListsAgree
  BY ListsAreSafe
<1> QED
  BY <1>1, <1>2, <1>3, PTL DEF ListsSpec

(* The calls *)
Ops == {"lead", "group", "changed", "handle", "listen", "sync", "synced"}
Frames == [op : Ops, el : Widget \cup {no_element}, at : Widget \cup {no_element}]

(* What an iterator that is about to return at, or nothing, has passed *)
Done(list, at) == {x \in ToSet(list) : at = no_element \/ Before(list, x, at)}

FrameOK(f, list) ==
  /\ f \in Frames
  /\ f.op \in {"lead", "group", "changed", "handle"} => f.el \in Widget
  /\ f.op \in {"lead", "group"} => Group[f.el] # <<>>
  /\ f.op = "group" => f.at \in ToSet(Group[f.el]) \cup {no_element}
  /\ f.op = "sync" => f.at \in ToSet(list) \cup {no_element}

(* One element at most is synchronised, and a call of SyncToElements waits for
   nothing else. *)
Shape(s, on) ==
  /\ \A i, j \in 1 .. Len(s) : s[i].op = "synced" /\ s[j].op = "synced" => i = j
  /\ on <=> \E i \in 1 .. Len(s) : s[i].op = "synced"
  /\ \A i \in 1 .. Len(s) - 1 : /\ s[i].op # "changed"
                                /\ s[i].op = "sync" => s[i + 1].op = "synced"

(* What the innermost call relies on that tells listeners and elements: the
   element its value is from, and those it has passed *)
Told(s) == {i \in 1 .. Len(s) : s[i].op \in {"listen", "sync"}}
Owed(f, list) == ({f.el} \cap ToSet(list)) \cup (IF f.op = "sync" THEN Done(list, f.at) ELSE {})
Relies(s, list, agreed) ==
  /\ Told(s) = {} => ToSet(list) \subseteq agreed
  /\ \A i \in Told(s) : (\A j \in Told(s) : j <= i) => Owed(s[i], list) \subseteq agreed

(* The elements that show the value, or are known not to *)
Agreed == {e \in Widget : shows[e] = Clamp(e, value)} \cup missed

(* An element that was set, and that the value is about to be taken from *)
Pending == IF In("changed") THEN {Innermost.el} ELSE {}
Source == In("changed") /\ ~syncing /\ Innermost.el \in ToSet(connections)

(* Of a group at most one is on of those that the innermost update has passed. *)
Leads(s, g) == {i \in 1 .. Len(s) : s[i].op \in {"lead", "group"} /\ s[i].el \in g}
Switched(f) == {f.el} \cup (IF f.op = "group" THEN Done(Group[f.el], f.at) ELSE {})
One(set) == \A d, e \in set : d = e
Led(s, g, lit) ==
  /\ Leads(s, g) = {} => One(g \cap lit)
  /\ \A i \in Leads(s, g) : (\A j \in Leads(s, g) : j <= i) => One(Switched(s[i]) \cap lit)
Lit == {e \in Widget : shows[e] # 0}
Groups == {ToSet(Group[e]) : e \in {d \in Widget : Group[d] # <<>>}}

ElementValuesTypeOK ==
  /\ shows \in [Widget -> Int] /\ value \in Int /\ syncing \in BOOLEAN /\ missed \subseteq Widget
  /\ connections \in Seq(Connectable) /\ IsInjective(connections)
  /\ stack \in Seq(Frames) /\ \A i \in 1 .. Len(stack) : FrameOK(stack[i], connections)

ValuesIInv ==
  /\ ElementValuesTypeOK /\ Shape(stack, syncing)
  /\ Source => Clamp(Innermost.el, shows[Innermost.el]) = shows[Innermost.el]
  /\ ~Source => Relies(stack, connections, Agreed \cup Pending)
  /\ \A g \in Groups : Led(stack, g, Lit)

(* The assumption, in parts *)
LEMMA ValuesAssumed ==
  ASSUME ValuesAssumption
  PROVE  /\ no_element \notin Widget /\ Ranged \subseteq Widget /\ NewValue \subseteq Int
         /\ \A e \in Widget : Group[e] \in Seq(Widget) /\ ToSet(Group[e]) \subseteq Widget
         /\ \A e \in Ranged : Group[e] = <<>>
         /\ \A e \in Widget : Group[e] # <<>> => IsInjective(Group[e]) /\ e \in ToSet(Group[e])
         /\ \A e \in Widget : \A d \in ToSet(Group[e]) : Group[d] = Group[e]
         /\ Connectable \subseteq Widget
         /\ \A d, e \in Connectable : d \in ToSet(Group[e]) => d = e
<1>1. /\ no_element \notin Widget /\ Ranged \subseteq Widget /\ NewValue \subseteq Int
      /\ \A e \in Widget : Group[e] \in Seq(Widget)
      /\ \A e \in Ranged : Group[e] = <<>>
      /\ \A e \in Widget : Group[e] # <<>> => IsInjective(Group[e]) /\ e \in ToSet(Group[e])
      /\ \A e \in Widget : \A d \in ToSet(Group[e]) : Group[d] = Group[e]
      /\ Connectable \subseteq Widget
      /\ \A d, e \in Connectable : d \in ToSet(Group[e]) => d = e
  BY DEF ValuesAssumption
<1>2. \A e \in Widget : ToSet(Group[e]) \subseteq Widget
  BY <1>1 DEF ToSet
<1> QED
  BY <1>1, <1>2

(* Clamping *)
LEMMA Clamps ==
  ASSUME ValuesAssumption, NEW e \in Widget, NEW v \in Int
  PROVE  Clamp(e, v) \in Int /\ Clamp(e, Clamp(e, v)) = Clamp(e, v) /\ (e \notin Ranged => Clamp(e, v) = v)
<1>1. CASE e \notin Ranged
  BY <1>1 DEF Clamp
<1>2. CASE e \in Ranged
  <2>1. Limits[e][1] \in Int /\ Limits[e][2] \in Int /\ Limits[e][1] <= Limits[e][2]
    BY <1>2 DEF ValuesAssumption
  <2> QED
    BY <1>2, <2>1 DEF Clamp
<1> QED
  BY <1>1, <1>2

-----------------------------------------------------------------------------
(* A call that is pushed is the innermost, and what was left is below it. *)
LEMMA Pushed ==
  ASSUME NEW s \in Seq(Frames), NEW f \in Frames
  PROVE  LET r == Append(s, f)
         IN  /\ r \in Seq(Frames) /\ r # <<>> /\ Len(r) = Len(s) + 1 /\ Len(s) \in Nat
             /\ \A i \in 1 .. Len(s) : r[i] = s[i]
             /\ r[Len(s) + 1] = f /\ Last(r) = f /\ Front(r) = s
<1> DEFINE r == Append(s, f)
<1>1. /\ r \in Seq(Frames) /\ r # <<>> /\ Len(r) = Len(s) + 1 /\ Len(s) \in Nat
      /\ \A i \in 1 .. Len(s) : r[i] = s[i]
      /\ r[Len(s) + 1] = f
  OBVIOUS
<1>2. Last(r) = f
  BY <1>1 DEF Last
<1>3. Front(r) = s
  <2>1. Front(r) = SubSeq(r, 1, Len(s))
    BY <1>1 DEF Front
  <2>2. SubSeq(r, 1, Len(s)) = s
    BY <1>1
  <2> QED
    BY <2>1, <2>2
<1> QED
  BY <1>1, <1>2, <1>3

(* A stack that is not empty has a top. *)
LEMMA Popped ==
  ASSUME NEW s \in Seq(Frames), s # <<>>
  PROVE  Front(s) \in Seq(Frames) /\ Last(s) \in Frames /\ s = Append(Front(s), Last(s))
<1>1. Len(s) \in Nat \ {0}
  OBVIOUS
<1>2. Front(s) \in Seq(Frames) /\ Len(Front(s)) = Len(s) - 1 /\ \A i \in 1 .. Len(s) - 1 : Front(s)[i] = s[i]
  <2> DEFINE m == Len(s) - 1
  <2>1. m \in Nat /\ m <= Len(s) /\ Front(s) = SubSeq(s, 1, m)
    BY <1>1 DEF Front
  <2> HIDE DEF m
  <2>2. SubSeq(s, 1, m) \in Seq(Frames) /\ Len(SubSeq(s, 1, m)) = m /\ \A i \in 1 .. m : SubSeq(s, 1, m)[i] = s[i]
    BY <2>1
  <2> QED
    BY <2>1, <2>2 DEF m
<1>3. Last(s) \in Frames /\ Last(s) = s[Len(s)]
  BY <1>1 DEF Last
<1> DEFINE r == Append(Front(s), Last(s))
<1>4. r \in Seq(Frames) /\ Len(r) = Len(s) /\ \A i \in 1 .. Len(s) : r[i] = s[i]
  BY <1>1, <1>2, <1>3
<1>5. s = r
  BY <1>4
<1> QED
  BY <1>2, <1>3, <1>5

(* What an iterator has passed *)
LEMMA DoneProperties ==
  ASSUME NEW M, NEW list \in Seq(M), IsInjective(list), no_element \notin M
  PROVE  /\ Done(list, no_element) = ToSet(list) /\ ToSet(list) \subseteq M
         /\ Done(list, FirstOf(list, no_element)) = {}
         /\ FirstOf(list, no_element) \in ToSet(list) \cup {no_element}
         /\ \A at : Done(list, at) \subseteq ToSet(list)
         /\ \A at \in ToSet(list) : /\ Done(list, After(list, at, no_element)) \subseteq Done(list, at) \cup {at}
                                    /\ After(list, at, no_element) \in ToSet(list) \cup {no_element}
<1>1. Done(list, no_element) = ToSet(list) /\ \A at : Done(list, at) \subseteq ToSet(list)
  BY DEF Done
<1>2. /\ ToSet(list) \subseteq M /\ (list = <<>> <=> ToSet(list) = {})
      /\ FirstOf(list, no_element) = no_element <=> list = <<>>
      /\ list # <<>> => /\ FirstOf(list, no_element) \in ToSet(list)
                        /\ \A b \in ToSet(list) : b = FirstOf(list, no_element) \/ Before(list, FirstOf(list, no_element), b)
  BY FirstProperties
<1>3. /\ \A a, b : Before(list, a, b) => a # b /\ ~Before(list, b, a)
      /\ \A a, b \in ToSet(list) : a = b \/ Before(list, a, b) \/ Before(list, b, a)
  BY OrderProperties
<1>4. Done(list, FirstOf(list, no_element)) = {} /\ FirstOf(list, no_element) \in ToSet(list) \cup {no_element}
  <2>1. CASE list = <<>>
    BY <1>1, <1>2, <2>1
  <2>2. CASE list # <<>>
    <3> DEFINE first == FirstOf(list, no_element)
    <3>1. first # no_element /\ first \in ToSet(list) /\ \A b \in ToSet(list) : b = first \/ Before(list, first, b)
      BY <1>2, <2>2
    <3> HIDE DEF first
    <3>2. Done(list, first) = {}
      BY <1>3, <3>1 DEF Done
    <3> QED
      BY <3>1, <3>2 DEF first
  <2> QED
    BY <2>1, <2>2
<1>5. ASSUME NEW at \in ToSet(list)
      PROVE  /\ Done(list, After(list, at, no_element)) \subseteq Done(list, at) \cup {at}
             /\ After(list, at, no_element) \in ToSet(list) \cup {no_element}
  <2> DEFINE next == After(list, at, no_element)
  <2>1. /\ next \in ToSet(list) \cup {no_element}
        /\ next = no_element => \A b : ~Before(list, at, b)
        /\ next # no_element => /\ Before(list, at, next)
                                /\ \A b : Before(list, at, b) => b = next \/ Before(list, next, b)
    BY AfterProperties
  <2> HIDE DEF next
  <2>2. ASSUME NEW x \in Done(list, next), x # at
        PROVE  Before(list, x, at)
    <3>1. x \in ToSet(list) /\ (next = no_element \/ Before(list, x, next))
      BY <2>2 DEF Done
    <3>2. ~Before(list, at, x)
      BY <1>3, <2>1, <3>1
    <3> QED
      BY <1>3, <2>2, <3>1, <3>2
  <2>3. Done(list, next) \subseteq Done(list, at) \cup {at}
    BY <1>1, <2>2 DEF Done
  <2> QED
    BY <2>1, <2>3 DEF next
<1> QED
  BY <1>1, <1>2, <1>4, <1>5

-----------------------------------------------------------------------------
(* What the innermost call relies on *)

(* A call that tells no one changes nothing about it. *)
LEMMA RelyQuiet ==
  ASSUME NEW s \in Seq(Frames), NEW f \in Frames, f.op \notin {"listen", "sync"}, NEW list, NEW agreed
  PROVE  Relies(Append(s, f), list, agreed) <=> Relies(s, list, agreed)
<1> DEFINE r == Append(s, f)
<1>1. /\ Len(r) = Len(s) + 1 /\ Len(s) \in Nat /\ r[Len(s) + 1] = f
      /\ \A i \in 1 .. Len(s) : r[i] = s[i]
  BY Pushed
<1> HIDE DEF r
<1>2. Told(r) = Told(s) /\ \A i \in Told(s) : r[i] = s[i]
  BY <1>1 DEF Told
<1>3. Relies(r, list, agreed) <=> Relies(s, list, agreed)
  BY <1>2 DEF Relies
<1> QED
  BY <1>3 DEF r

(* One that tells is what matters. *)
LEMMA RelyTelling ==
  ASSUME NEW s \in Seq(Frames), NEW f \in Frames, f.op \in {"listen", "sync"}, NEW list, NEW agreed
  PROVE  Relies(Append(s, f), list, agreed) <=> Owed(f, list) \subseteq agreed
<1> DEFINE r == Append(s, f)
           n == Len(s) + 1
<1>1. /\ Len(r) = n /\ n \in Nat /\ r[n] = f /\ n \in 1 .. n
  BY Pushed
<1> HIDE DEF r, n
<1>2. n \in Told(r) /\ \A j \in Told(r) : j \in Nat /\ j <= n
  BY <1>1 DEF Told
<1>3. \A i \in Told(r) : (\A j \in Told(r) : j <= i) => i = n
  BY <1>1, <1>2
<1>4. Relies(r, list, agreed) <=> Owed(f, list) \subseteq agreed
  BY <1>1, <1>2, <1>3 DEF Relies
<1> QED
  BY <1>4 DEF r

(* Only what is connected is owed, so that nothing is when all agree, or more
   than before. *)
LEMMA RelyMore ==
  ASSUME NEW s, NEW list, NEW agreed, NEW more, ToSet(list) \cap agreed \subseteq more,
         Relies(s, list, agreed) \/ ToSet(list) \subseteq agreed
  PROVE  Relies(s, list, more)
<1>1. \A f : Owed(f, list) \subseteq ToSet(list)
  BY DEF Owed, Done
<1> QED
  BY <1>1 DEF Relies

(* The same calls, with other places in another list, owe no more. *)
LEMMA RelyOther ==
  ASSUME NEW s, NEW list, NEW r, NEW other, NEW agreed, NEW more, Relies(s, list, agreed), Len(r) = Len(s),
         \A i \in 1 .. Len(s) : r[i].op = s[i].op /\ Owed(r[i], other) \subseteq Owed(s[i], list) \cup more,
         ToSet(list) \cap agreed \subseteq more, ToSet(other) \subseteq ToSet(list) \cup more
  PROVE  Relies(r, other, more)
<1>1. Told(r) = Told(s)
  BY DEF Told
<1>2. \A i \in Told(s) : i \in 1 .. Len(s) /\ Owed(s[i], list) \subseteq ToSet(list)
  BY DEF Told, Owed, Done
<1>3. ASSUME Told(r) = {}
      PROVE  ToSet(other) \subseteq more
  BY <1>1, <1>3 DEF Relies
<1>4. ASSUME NEW i \in Told(r), \A j \in Told(r) : j <= i
      PROVE  Owed(r[i], other) \subseteq more
  <2>1. Owed(s[i], list) \subseteq agreed
    BY <1>1, <1>4 DEF Relies
  <2> QED
    BY <1>1, <1>2, <1>4, <2>1
<1> QED
  BY <1>3, <1>4 DEF Relies

-----------------------------------------------------------------------------
(* What the innermost update of a group has switched off *)

(* A call that does not lead the group changes nothing for it. *)
LEMMA LedQuiet ==
  ASSUME NEW s \in Seq(Frames), NEW f \in Frames, NEW g, f.op \notin {"lead", "group"} \/ f.el \notin g, NEW lit
  PROVE  Led(Append(s, f), g, lit) <=> Led(s, g, lit)
<1> DEFINE r == Append(s, f)
<1>1. /\ Len(r) = Len(s) + 1 /\ Len(s) \in Nat /\ r[Len(s) + 1] = f
      /\ \A i \in 1 .. Len(s) : r[i] = s[i]
  BY Pushed
<1> HIDE DEF r
<1>2. Leads(r, g) = Leads(s, g) /\ \A i \in Leads(s, g) : r[i] = s[i]
  BY <1>1 DEF Leads
<1>3. Led(r, g, lit) <=> Led(s, g, lit)
  BY <1>2 DEF Led
<1> QED
  BY <1>3 DEF r

(* A call that leads the group is the one that counts. *)
LEMMA LedLeading ==
  ASSUME NEW s \in Seq(Frames), NEW f \in Frames, NEW g, f.op \in {"lead", "group"}, f.el \in g, NEW lit
  PROVE  Led(Append(s, f), g, lit) <=> One(Switched(f) \cap lit)
<1> DEFINE r == Append(s, f)
           n == Len(s) + 1
<1>1. /\ Len(r) = n /\ n \in Nat /\ r[n] = f /\ n \in 1 .. n
  BY Pushed
<1> HIDE DEF r, n
<1>2. n \in Leads(r, g) /\ \A j \in Leads(r, g) : j \in Nat /\ j <= n
  BY <1>1 DEF Leads
<1>3. \A i \in Leads(r, g) : (\A j \in Leads(r, g) : j <= i) => i = n
  BY <1>1, <1>2
<1>4. Led(r, g, lit) <=> One(Switched(f) \cap lit)
  BY <1>1, <1>2, <1>3 DEF Led
<1> QED
  BY <1>4 DEF r

(* Switching off does no harm, and nothing does when at most one is on. *)
LEMMA LedFewer ==
  ASSUME ValuesAssumption, NEW s, NEW list, \A i \in 1 .. Len(s) : FrameOK(s[i], list), NEW g \in Groups,
         NEW lit, NEW fewer, fewer \cap g \subseteq lit, Led(s, g, lit) \/ One(g \cap lit)
  PROVE  Led(s, g, fewer)
<1>1. PICK e \in Widget : g = ToSet(Group[e])
  BY DEF Groups
<1>2. \A i \in Leads(s, g) : Switched(s[i]) \subseteq g
  <2> TAKE i \in Leads(s, g)
  <2>1. s[i].el \in g
    BY DEF Leads
  <2>2. Group[s[i].el] = Group[e]
    BY <1>1, <2>1, ValuesAssumed
  <2> QED
    BY <1>1, <2>1, <2>2 DEF Switched, Done
<1>3. \A i \in Leads(s, g) : Switched(s[i]) \cap fewer \subseteq Switched(s[i]) \cap lit
  BY <1>2
<1>4. \A a, b : a \subseteq b /\ One(b) => One(a)
  BY DEF One
<1>5. g \cap fewer \subseteq g \cap lit
  OBVIOUS
<1>6. CASE One(g \cap lit)
  <2>1. One(g \cap fewer)
    BY <1>4, <1>5, <1>6
  <2>2. \A i \in Leads(s, g) : Switched(s[i]) \cap fewer \subseteq g \cap lit
    BY <1>2, <1>3
  <2>3. \A i \in Leads(s, g) : One(Switched(s[i]) \cap fewer)
    BY <1>4, <1>6, <2>2
  <2> QED
    BY <2>1, <2>3 DEF Led
<1>7. CASE Led(s, g, lit)
  BY <1>3, <1>4, <1>5, <1>7 DEF Led
<1> QED
  BY <1>6, <1>7

-----------------------------------------------------------------------------
(* The shape of the stack *)

Telling(f) == f.op \in {"changed", "sync"}

(* A call is pushed. *)
LEMMA ShapePush ==
  ASSUME NEW s \in Seq(Frames), NEW f \in Frames, NEW on \in BOOLEAN, Shape(s, on),
         s # <<>> => ~Telling(Last(s)), f.op # "synced"
  PROVE  Shape(Append(s, f), on)
<1> DEFINE r == Append(s, f)
<1>1. /\ Len(r) = Len(s) + 1 /\ Len(s) \in Nat /\ r[Len(s) + 1] = f
      /\ \A i \in 1 .. Len(s) : r[i] = s[i]
  BY Pushed
<1> HIDE DEF r
<1>2. \A i \in 1 .. Len(r) : r[i].op = "synced" <=> i \in 1 .. Len(s) /\ s[i].op = "synced"
  BY <1>1
<1>3. 1 .. Len(s) \subseteq 1 .. Len(r)
  BY <1>1
<1>4. ASSUME NEW i \in 1 .. Len(r) - 1
      PROVE  r[i].op # "changed" /\ (r[i].op = "sync" => r[i + 1].op = "synced")
  <2>1. CASE i = Len(s)
    <3>1. s # <<>> /\ Last(s) = s[i] /\ r[i] = s[i]
      BY <1>1, <2>1 DEF Last
    <3> QED
      BY <3>1 DEF Telling
  <2>2. CASE i # Len(s)
    <3>1. i \in 1 .. Len(s) - 1 /\ r[i] = s[i] /\ r[i + 1] = s[i + 1]
      BY <1>1, <2>2
    <3> QED
      BY <3>1 DEF Shape
  <2> QED
    BY <2>1, <2>2
<1>5. /\ \A i, j \in 1 .. Len(s) : s[i].op = "synced" /\ s[j].op = "synced" => i = j
      /\ on <=> \E i \in 1 .. Len(s) : s[i].op = "synced"
  BY DEF Shape
<1>6. Shape(r, on)
  <2>1. \A i, j \in 1 .. Len(r) : r[i].op = "synced" /\ r[j].op = "synced" => i = j
    BY <1>2, <1>5
  <2>2. on <=> \E i \in 1 .. Len(r) : r[i].op = "synced"
    BY <1>2, <1>3, <1>5
  <2> QED
    BY <1>4, <2>1, <2>2 DEF Shape
<1> QED
  BY <1>6 DEF r

(* A synchronisation begins. *)
LEMMA ShapeSync ==
  ASSUME NEW s \in Seq(Frames), NEW f \in Frames, Shape(s, FALSE),
         s # <<>> => Last(s).op # "changed", f.op = "synced"
  PROVE  Shape(Append(s, f), TRUE)
<1> DEFINE r == Append(s, f)
<1>1. /\ Len(r) = Len(s) + 1 /\ Len(s) \in Nat /\ r[Len(s) + 1] = f
      /\ \A i \in 1 .. Len(s) : r[i] = s[i]
  BY Pushed
<1> HIDE DEF r
<1>2. \A i \in 1 .. Len(s) : s[i].op # "synced"
  BY DEF Shape
<1>3. \A i \in 1 .. Len(r) : r[i].op = "synced" => i = Len(r)
  BY <1>1, <1>2
<1>4. ASSUME NEW i \in 1 .. Len(r) - 1
      PROVE  r[i].op # "changed" /\ (r[i].op = "sync" => r[i + 1].op = "synced")
  <2>1. CASE i = Len(s)
    <3>1. s # <<>> /\ Last(s) = s[i] /\ r[i] = s[i] /\ r[i + 1] = f
      BY <1>1, <2>1 DEF Last
    <3> QED
      BY <3>1
  <2>2. CASE i # Len(s)
    <3>1. i \in 1 .. Len(s) - 1 /\ r[i] = s[i] /\ r[i + 1] = s[i + 1]
      BY <1>1, <2>2
    <3> QED
      BY <3>1 DEF Shape
  <2> QED
    BY <2>1, <2>2
<1>5. Len(r) \in 1 .. Len(r) /\ r[Len(r)].op = "synced"
  BY <1>1
<1>6. Shape(r, TRUE)
  BY <1>3, <1>4, <1>5 DEF Shape
<1> QED
  BY <1>6 DEF r

(* A call returns. *)
LEMMA ShapePop ==
  ASSUME NEW s \in Seq(Frames), NEW f \in Frames, NEW on \in BOOLEAN, Shape(Append(s, f), on)
  PROVE  /\ s # <<>> => Last(s).op # "changed"
         /\ f.op # "synced" => Shape(s, on) /\ (s # <<>> => ~Telling(Last(s)))
         /\ f.op = "synced" => on /\ Shape(s, FALSE)
<1> DEFINE r == Append(s, f)
<1>1. /\ Len(r) = Len(s) + 1 /\ Len(s) \in Nat /\ r[Len(s) + 1] = f
      /\ \A i \in 1 .. Len(s) : r[i] = s[i]
  BY Pushed
<1>2. Shape(r, on)
  OBVIOUS
<1> HIDE DEF r
<1>3. /\ \A i, j \in 1 .. Len(r) : r[i].op = "synced" /\ r[j].op = "synced" => i = j
      /\ on <=> \E i \in 1 .. Len(r) : r[i].op = "synced"
  BY <1>2 DEF Shape
<1>4. ASSUME NEW i \in 1 .. Len(s) - 1
      PROVE  s[i].op # "changed" /\ (s[i].op = "sync" => s[i + 1].op = "synced")
  <2>1. i \in 1 .. Len(r) - 1 /\ r[i] = s[i] /\ r[i + 1] = s[i + 1]
    BY <1>1
  <2> QED
    BY <1>2, <2>1 DEF Shape
<1>5. s # <<>> => Last(s).op # "changed" /\ (Last(s).op = "sync" => f.op = "synced")
  <2>1. ASSUME s # <<>>
        PROVE  Last(s) = r[Len(s)] /\ Len(s) \in 1 .. Len(r) - 1
    BY <1>1, <2>1 DEF Last
  <2> QED
    BY <1>1, <1>2, <2>1 DEF Shape
<1>6. /\ 1 .. Len(s) \subseteq 1 .. Len(r) /\ Len(s) + 1 \in 1 .. Len(r) /\ Len(s) + 1 \notin 1 .. Len(s)
      /\ \A i \in 1 .. Len(r) : i \in 1 .. Len(s) \/ i = Len(s) + 1
  BY <1>1
<1>7. \A i, j \in 1 .. Len(s) : s[i].op = "synced" /\ s[j].op = "synced" => i = j
  BY <1>1, <1>3, <1>6
<1>8. CASE f.op # "synced"
  <2>1. on <=> \E i \in 1 .. Len(s) : s[i].op = "synced"
    BY <1>1, <1>3, <1>6, <1>8
  <2>2. Shape(s, on)
    BY <1>4, <1>7, <2>1 DEF Shape
  <2> QED
    BY <1>5, <1>8, <2>2 DEF Telling
<1>9. CASE f.op = "synced"
  <2>1. \A i \in 1 .. Len(s) : s[i].op # "synced"
    BY <1>1, <1>3, <1>6, <1>9
  <2>2. Shape(s, FALSE)
    BY <1>4, <2>1 DEF Shape
  <2> QED
    BY <1>1, <1>3, <1>5, <1>6, <1>9, <2>2
<1> QED
  BY <1>8, <1>9

-----------------------------------------------------------------------------
(* Setting an element *)

(* An element that is in a group is one of each group it is found in. *)
LEMMA InGroup ==
  ASSUME ValuesAssumption, NEW g \in Groups, NEW e \in Widget
  PROVE  /\ g \subseteq Widget
         /\ e \in g <=> Group[e] # <<>> /\ g = ToSet(Group[e])
         /\ e \in g => e \notin Ranged
<1>1. PICK d \in Widget : Group[d] # <<>> /\ g = ToSet(Group[d])
  BY DEF Groups
<1>2. g \subseteq Widget
  BY <1>1, ValuesAssumed
<1>3. ASSUME e \in g
      PROVE  Group[e] # <<>> /\ g = ToSet(Group[e])
  BY <1>1, <1>3, ValuesAssumed
<1>4. ASSUME Group[e] # <<>>, g = ToSet(Group[e])
      PROVE  e \in g
  BY <1>4, ValuesAssumed
<1>5. e \in Ranged => Group[e] = <<>>
  BY ValuesAssumed
<1> QED
  BY <1>2, <1>3, <1>4, <1>5

(* However an element comes to be set, by the program, by a click, by its value
   or by another one of its group, what follows is sound if those calls are
   that it returns to. *)
LEMMA SetKeeps ==
  ASSUME ValuesAssumption, NEW base \in Seq(Frames), NEW e \in Widget, NEW v \in Int,
         shows \in [Widget -> Int], value \in Int, value' = value, syncing' \in BOOLEAN, missed \subseteq Widget,
         missed' = missed \/ (missed' = missed \ {e} /\ v = value),
         connections' \in Seq(Connectable), IsInjective(connections'),
         \A i \in 1 .. Len(base) : FrameOK(base[i], connections'), Shape(base, syncing'),
         base # <<>> => ~Telling(Last(base)), SetElement(base, e, v),
         Relies(base, connections', Agreed \cup IF v = value THEN {e} ELSE {}),
         \A g \in Groups : Led(base, g, IF v = 0 THEN Lit \ {e} ELSE Lit)
  PROVE  ValuesIInv'
<1> DEFINE list == connections'
           on == syncing'
           lead == Call("lead", e, no_element)
           changed == Call("changed", e, no_element)
           leads == v # 0 /\ Group[e] # <<>>
           led == IF leads THEN Append(base, lead) ELSE base
<1>1. /\ Clamp(e, v) \in Int /\ Clamp(e, Clamp(e, v)) = Clamp(e, v) /\ (e \notin Ranged => Clamp(e, v) = v)
  BY Clamps
<1>2. /\ lead \in Frames /\ changed \in Frames /\ lead.op = "lead" /\ changed.op = "changed"
      /\ lead.el = e /\ changed.el = e
  BY DEF Call, Frames, Ops
<1>3. CASE Clamp(e, v) = shows[e]
  <2>1. stack' = base /\ shows' = shows
    BY <1>3 DEF SetElement
  <2>2. /\ Agreed \cup (IF v = value THEN {e} ELSE {}) \subseteq Agreed'
        /\ Lit' = Lit
    BY <1>3, <2>1 DEF Agreed, Lit
  <2>3. ~Source'
    BY <2>1 DEF Source, In, Innermost, Telling
  <2>4. Relies(stack', list, (Agreed \cup Pending)')
    <3> DEFINE some == Agreed \cup IF v = value THEN {e} ELSE {}
               more == (Agreed \cup Pending)'
    <3>1. ToSet(list) \cap some \subseteq more
      BY <2>2
    <3>2. Relies(base, list, some)
      OBVIOUS
    <3> HIDE DEF some, more
    <3>3. Relies(base, list, more)
      BY <3>1, <3>2, RelyMore
    <3> QED
      BY <2>1, <3>3 DEF more
  <2>5. ASSUME NEW g \in Groups
        PROVE  Led(stack', g, Lit')
    <3>1. CASE v = 0
      <4>1. e \in g => e \notin Lit
        BY <1>1, <1>3, <3>1, InGroup DEF Lit
      <4>2. Led(base, g, Lit \ {e})
        BY <3>1
      <4>3. Lit \cap g \subseteq Lit \ {e}
        BY <4>1
      <4>4. Led(base, g, Lit)
        BY <4>2, <4>3, LedFewer
      <4> QED
        BY <2>1, <2>2, <4>4
    <3>2. CASE v # 0
      BY <2>1, <2>2, <3>2
    <3> QED
      BY <3>1, <3>2
  <2>6. ElementValuesTypeOK'
    <3>1. missed' \subseteq Widget
      OBVIOUS
    <3> QED
      BY <2>1, <3>1 DEF ElementValuesTypeOK
  <2>7. Shape(stack', on)
    BY <2>1
  <2>8. \A g \in Groups' : Led(stack', g, Lit')
    BY <2>5 DEF Groups
  <2> QED
    BY <2>3, <2>4, <2>6, <2>7, <2>8 DEF ValuesIInv
<1>4. CASE Clamp(e, v) # shows[e]
  <2>1. stack' = Append(led, changed) /\ shows' = [shows EXCEPT ![e] = Clamp(e, v)]
    BY <1>4 DEF SetElement
  <2>2. /\ shows' \in [Widget -> Int] /\ shows'[e] = Clamp(e, v)
        /\ \A d \in Widget : d # e => shows'[d] = shows[d]
    BY <1>1, <2>1
  <2>3. led \in Seq(Frames) /\ (led # <<>> => ~Telling(Last(led)))
    <3>1. CASE leads
      BY <1>2, <3>1, Pushed DEF Telling
    <3>2. CASE ~leads
      BY <3>2
    <3> QED
      BY <3>1, <3>2
  <2>4. Shape(led, on)
    <3>1. CASE leads
      <4> HIDE DEF lead
      <4> QED
        BY <1>2, <3>1, ShapePush
    <3>2. CASE ~leads
      BY <3>2
    <3> QED
      BY <3>1, <3>2
  <2>5. \A i \in 1 .. Len(led) : FrameOK(led[i], list)
    <3>1. CASE leads
      <4>1. FrameOK(lead, list)
        BY <1>2, <3>1 DEF FrameOK
      <4>2. Len(led) = Len(base) + 1 /\ Len(base) \in Nat /\ led[Len(base) + 1] = lead /\ \A i \in 1 .. Len(base) : led[i] = base[i]
        BY <1>2, <3>1, Pushed
      <4> HIDE DEF led, lead
      <4> QED
        BY <4>1, <4>2
    <3>2. CASE ~leads
      BY <3>2
    <3> QED
      BY <3>1, <3>2
  <2>6. \A agreed : Relies(base, list, agreed) => Relies(led, list, agreed)
    <3>1. lead.op \notin {"listen", "sync"}
      BY <1>2
    <3> HIDE DEF lead
    <3> QED
      BY <1>2, <3>1, RelyQuiet
  <2>7. ASSUME NEW g \in Groups
        PROVE  Led(led, g, Lit')
    <3>1. Lit' \cap g \subseteq Lit \cup {e} /\ (e \notin g => Lit' \cap g \subseteq Lit) /\ g \subseteq Widget
      BY <2>2, InGroup DEF Lit
    <3>2. CASE v = 0
      <4>1. Lit' \cap g \subseteq Lit \ {e}
        <5>1. e \in g => e \notin Lit'
          BY <1>1, <2>2, <3>2, InGroup DEF Lit
        <5> QED
          BY <3>1, <5>1
      <4>2. Led(base, g, Lit \ {e}) /\ led = base
        BY <3>2
      <4> HIDE DEF led
      <4> QED
        BY <4>1, <4>2, LedFewer
    <3>3. CASE v # 0 /\ e \in g
      <4>1. leads
        BY <3>3, InGroup
      <4>2. Switched(lead) = {e}
        BY <1>2 DEF Switched
      <4>3. One(Switched(lead) \cap Lit')
        BY <4>2 DEF One
      <4> HIDE DEF lead
      <4> QED
        BY <1>2, <3>3, <4>1, <4>3, LedLeading
    <3>4. CASE v # 0 /\ e \notin g
      <4>1. Led(base, g, Lit)
        BY <3>4
      <4>2. Led(base, g, Lit')
        BY <3>1, <3>4, <4>1, LedFewer
      <4> HIDE DEF lead
      <4> QED
        BY <1>2, <3>4, <4>2, LedQuiet
    <3> QED
      BY <3>2, <3>3, <3>4
  <2> HIDE DEF led, lead, changed
  <2>8. /\ stack' \in Seq(Frames) /\ stack' # <<>> /\ Len(stack') = Len(led) + 1 /\ Len(led) \in Nat
        /\ stack'[Len(led) + 1] = changed /\ \A i \in 1 .. Len(led) : stack'[i] = led[i]
        /\ Last(stack') = changed
    BY <1>2, <2>1, <2>3, Pushed
  <2>9. FrameOK(changed, list)
    BY <1>2 DEF FrameOK
  <2>10. \A i \in 1 .. Len(stack') : FrameOK(stack'[i], list)
    BY <2>5, <2>8, <2>9
  <2>11. Shape(stack', on)
    BY <1>2, <2>1, <2>3, <2>4, ShapePush
  <2>12. Source' <=> ~on /\ e \in ToSet(list)
    BY <1>2, <2>8 DEF Source, In, Innermost
  <2>13. Innermost'.el = e
    BY <1>2, <2>8 DEF Innermost
  <2>14. Source' => Clamp(e, shows'[e]) = shows'[e]
    BY <1>1, <2>2
  <2>15. Relies(stack', list, (Agreed \cup Pending)')
    <3> DEFINE some == Agreed \cup IF v = value THEN {e} ELSE {}
               more == (Agreed \cup Pending)'
    <3>1. ToSet(list) \cap some \subseteq more
      <4>1. \A d \in Agreed \ {e} : d \in Agreed'
        BY <2>2 DEF Agreed
      <4>2. Pending' = {e}
        BY <1>2, <2>8 DEF Pending, In, Innermost
      <4> QED
        BY <4>1, <4>2
    <3>2. Relies(base, list, some)
      OBVIOUS
    <3> HIDE DEF some, more
    <3>3. Relies(base, list, more)
      BY <3>1, <3>2, RelyMore
    <3>4. Relies(led, list, more)
      BY <2>6, <3>3
    <3>5. changed.op \notin {"listen", "sync"}
      BY <1>2
    <3>6. Relies(stack', list, more)
      BY <1>2, <2>1, <2>3, <3>4, <3>5, RelyQuiet
    <3> QED
      BY <3>6 DEF more
  <2>16. ASSUME NEW g \in Groups
         PROVE  Led(stack', g, Lit')
    <3>1. changed.op \notin {"lead", "group"}
      BY <1>2
    <3> QED
      BY <1>2, <2>1, <2>3, <2>7, <3>1, LedQuiet
  <2>17. \A g \in Groups' : Led(stack', g, Lit')
    BY <2>16 DEF Groups
  <2>18. ElementValuesTypeOK'
    <3>1. missed' \subseteq Widget
      OBVIOUS
    <3> QED
      BY <2>2, <2>8, <2>10, <3>1 DEF ElementValuesTypeOK
  <2> QED
    BY <2>11, <2>13, <2>14, <2>15, <2>17, <2>18 DEF ValuesIInv
<1> QED
  BY <1>3, <1>4

-----------------------------------------------------------------------------
(* The steps *)

(* The parts of the invariant *)
LEMMA ValuesParts ==
  ASSUME ValuesAssumption, ValuesIInv
  PROVE  /\ shows \in [Widget -> Int] /\ value \in Int /\ syncing \in BOOLEAN /\ missed \subseteq Widget
         /\ connections \in Seq(Connectable) /\ IsInjective(connections)
         /\ ToSet(connections) \subseteq Connectable /\ ToSet(connections) \subseteq Widget
         /\ no_element \notin ToSet(connections)
         /\ stack \in Seq(Frames) /\ \A i \in 1 .. Len(stack) : FrameOK(stack[i], connections)
         /\ Shape(stack, syncing)
         /\ Source => Clamp(Innermost.el, shows[Innermost.el]) = shows[Innermost.el]
         /\ ~Source => Relies(stack, connections, Agreed \cup Pending)
         /\ ~In("changed") => Relies(stack, connections, Agreed)
         /\ \A g \in Groups : Led(stack, g, Lit)
<1>1. /\ shows \in [Widget -> Int] /\ value \in Int /\ syncing \in BOOLEAN /\ missed \subseteq Widget
      /\ connections \in Seq(Connectable) /\ IsInjective(connections)
      /\ stack \in Seq(Frames) /\ \A i \in 1 .. Len(stack) : FrameOK(stack[i], connections)
  BY DEF ValuesIInv, ElementValuesTypeOK
<1>2. ToSet(connections) \subseteq Connectable
  BY <1>1 DEF ToSet
<1>3. Connectable \subseteq Widget /\ no_element \notin Widget
  BY ValuesAssumed
<1>4. /\ ~Source => Relies(stack, connections, Agreed \cup Pending)
      /\ ~In("changed") => Relies(stack, connections, Agreed)
  <2>1. ~Source => Relies(stack, connections, Agreed \cup Pending)
    BY DEF ValuesIInv
  <2>2. ASSUME ~In("changed")
        PROVE  ~Source /\ Agreed \cup Pending = Agreed
    BY <2>2 DEF Source, Pending
  <2> QED
    BY <2>1, <2>2
<1> QED
  BY <1>1, <1>2, <1>3, <1>4 DEF ValuesIInv

(* The call on top, and those below *)
LEMMA ValuesTop ==
  ASSUME ValuesAssumption, ValuesIInv, stack # <<>>
  PROVE  /\ Outer \in Seq(Frames) /\ Innermost \in Frames /\ stack = Append(Outer, Innermost)
         /\ FrameOK(Innermost, connections) /\ \A i \in 1 .. Len(Outer) : FrameOK(Outer[i], connections)
         /\ Outer # <<>> => Last(Outer).op # "changed"
         /\ Innermost.op # "synced" => Shape(Outer, syncing) /\ (Outer # <<>> => ~Telling(Last(Outer)))
         /\ Innermost.op = "synced" => syncing /\ Shape(Outer, FALSE)
<1>1. /\ stack \in Seq(Frames) /\ \A i \in 1 .. Len(stack) : FrameOK(stack[i], connections)
      /\ Shape(stack, syncing) /\ syncing \in BOOLEAN
  BY ValuesParts
<1>2. Outer \in Seq(Frames) /\ Innermost \in Frames /\ stack = Append(Outer, Innermost)
  BY <1>1, Popped DEF Outer, Innermost
<1> DEFINE s == Outer
           f == Innermost
<1> HIDE DEF s, f
<1>3. s \in Seq(Frames) /\ f \in Frames /\ stack = Append(s, f)
  BY <1>2 DEF s, f
<1>4. /\ Len(stack) = Len(s) + 1 /\ Len(s) \in Nat /\ stack[Len(s) + 1] = f
      /\ \A i \in 1 .. Len(s) : stack[i] = s[i]
  BY <1>3, Pushed
<1>5. FrameOK(f, connections) /\ \A i \in 1 .. Len(s) : FrameOK(s[i], connections)
  BY <1>1, <1>4
<1>6. /\ s # <<>> => Last(s).op # "changed"
      /\ f.op # "synced" => Shape(s, syncing) /\ (s # <<>> => ~Telling(Last(s)))
      /\ f.op = "synced" => syncing /\ Shape(s, FALSE)
  <2>1. Shape(Append(s, f), syncing)
    BY <1>1, <1>3, Zenon
  <2>2. syncing \in BOOLEAN /\ s \in Seq(Frames) /\ f \in Frames
    BY <1>1, <1>3, Zenon
  <2> HIDE DEF Shape, Frames
  <2> QED
    BY ONLY <2>1, <2>2, ShapePop, ZenonT(30)
<1> QED
  BY <1>2, <1>5, <1>6 DEF s, f

(* A call that is pushed keeps what is said of the calls. *)
LEMMA PushOK ==
  ASSUME NEW s \in Seq(Frames), NEW f, NEW list, \A i \in 1 .. Len(s) : FrameOK(s[i], list), FrameOK(f, list)
  PROVE  f \in Frames /\ Append(s, f) \in Seq(Frames) /\ \A i \in 1 .. Len(Append(s, f)) : FrameOK(Append(s, f)[i], list)
<1> DEFINE r == Append(s, f)
<1>1. f \in Frames
  BY DEF FrameOK
<1>2. /\ r \in Seq(Frames) /\ Len(r) = Len(s) + 1 /\ Len(s) \in Nat /\ r[Len(s) + 1] = f
      /\ \A i \in 1 .. Len(s) : r[i] = s[i]
  BY <1>1, Pushed
<1> HIDE DEF r
<1>3. \A i \in 1 .. Len(r) : FrameOK(r[i], list)
  BY <1>2
<1> QED
  BY <1>1, <1>2, <1>3 DEF r

(* The calls and connections are as they are to be, and nothing else changes:
   no element is set. *)
LEMMA ValuesKept ==
  ASSUME shows' = shows, shows \in [Widget -> Int], value' \in Int, syncing' \in BOOLEAN, missed' \subseteq Widget,
         connections' \in Seq(Connectable), IsInjective(connections'),
         stack' \in Seq(Frames), \A i \in 1 .. Len(stack') : FrameOK(stack'[i], connections'),
         Shape(stack', syncing'), stack' # <<>> => Last(stack').op # "changed",
         Relies(stack', connections', Agreed'), \A g \in Groups : Led(stack', g, Lit)
  PROVE  ValuesIInv'
<1>1. ~Source' /\ (Agreed \cup Pending)' = Agreed'
  BY DEF Source, Pending, In, Innermost
<1>2. Lit' = Lit /\ Groups' = Groups
  BY DEF Lit, Groups
<1>3. ElementValuesTypeOK'
  BY DEF ElementValuesTypeOK
<1> QED
  BY <1>1, <1>2, <1>3 DEF ValuesIInv

(* The program has control. *)
LEMMA InControl ==
  ASSUME ValuesAssumption, ValuesIInv, Control
  PROVE  (stack # <<>> => ~Telling(Last(stack))) /\ ~In("changed") /\ ~Source /\ Relies(stack, connections, Agreed)
<1>1. (stack # <<>> => ~Telling(Last(stack))) /\ ~In("changed")
  BY DEF Control, Idle, In, Innermost, Telling
<1> QED
  BY <1>1, ValuesParts DEF Source

(* The program or a click sets an element. *)
LEMMA SetStep ==
  ASSUME ValuesAssumption, ValuesIInv, Control, NEW e \in Widget, NEW v \in Int,
         SetElement(stack, e, v), UNCHANGED <<value, syncing, connections, missed>>
  PROVE  ValuesIInv'
<1>1. /\ shows \in [Widget -> Int] /\ value \in Int /\ syncing \in BOOLEAN /\ missed \subseteq Widget
      /\ connections \in Seq(Connectable) /\ IsInjective(connections)
      /\ stack \in Seq(Frames) /\ \A i \in 1 .. Len(stack) : FrameOK(stack[i], connections)
      /\ Shape(stack, syncing)
      /\ \A g \in Groups : Led(stack, g, Lit)
  BY ValuesParts
<1>2. (stack # <<>> => ~Telling(Last(stack))) /\ Relies(stack, connections, Agreed)
  BY InControl
<1>3. Relies(stack, connections, Agreed \cup IF v = value THEN {e} ELSE {})
  <2> DEFINE more == Agreed \cup IF v = value THEN {e} ELSE {}
  <2>1. ToSet(connections) \cap Agreed \subseteq more
    OBVIOUS
  <2> HIDE DEF more
  <2>2. Relies(stack, connections, more)
    BY <1>2, <2>1, RelyMore
  <2> QED
    BY <2>2 DEF more
<1>4. ASSUME NEW g \in Groups
      PROVE  Led(stack, g, IF v = 0 THEN Lit \ {e} ELSE Lit)
  <2> DEFINE fewer == IF v = 0 THEN Lit \ {e} ELSE Lit
  <2>1. fewer \cap g \subseteq Lit /\ Led(stack, g, Lit)
    BY <1>1
  <2> HIDE DEF fewer
  <2>2. Led(stack, g, fewer)
    BY <1>1, <2>1, LedFewer
  <2> QED
    BY <2>2 DEF fewer
<1> QED
  BY <1>1, <1>2, <1>3, <1>4, SetKeeps

(* An element is set to the value, out of Connect or SyncToElements, while the
   list is the one there will be; or it is not, as another one is being set. *)
LEMMA SyncStep ==
  ASSUME ValuesAssumption, ValuesIInv, NEW base \in Seq(Frames), NEW e \in ToSet(connections'),
         connections' \in Seq(Connectable), IsInjective(connections'),
         \A i \in 1 .. Len(base) : FrameOK(base[i], connections'), Shape(base, syncing),
         base # <<>> => Last(base).op # "changed", SyncToElement(base, e), value' = value,
         Relies(base, connections', Agreed \cup {e}), \A g \in Groups : Led(base, g, Lit)
  PROVE  ValuesIInv'
<1> DEFINE synced == Call("synced", no_element, no_element)
           s == Append(base, synced)
<1>1. shows \in [Widget -> Int] /\ value \in Int /\ syncing \in BOOLEAN /\ missed \subseteq Widget
  BY ValuesParts
<1>2. e \in Widget
  <2>1. ToSet(connections') \subseteq Connectable
    BY DEF ToSet
  <2> QED
    BY <2>1, ValuesAssumed
<1>3. CASE syncing
  <2>1. stack' = base /\ missed' = Missed(e) /\ UNCHANGED <<shows, syncing>>
    BY <1>3 DEF SyncToElement
  <2>2. missed' \subseteq Widget /\ Agreed \cup {e} \subseteq Agreed'
    BY <1>1, <1>2, <2>1 DEF Missed, Agreed
  <2> DEFINE some == Agreed \cup {e}
             agreed == Agreed'
  <2>3. ToSet(connections') \cap some \subseteq agreed /\ Relies(base, connections', some)
    BY <2>2
  <2> HIDE DEF some, agreed
  <2>4. Relies(base, connections', agreed)
    BY <2>3, RelyMore
  <2>5. Relies(stack', connections', Agreed')
    BY <2>1, <2>4 DEF agreed
  <2> QED
    BY <1>1, <2>1, <2>2, <2>5, ValuesKept
<1>4. CASE ~syncing
  <2>1. synced \in Frames /\ synced.op = "synced" /\ FrameOK(synced, connections')
    BY DEF Call, Frames, Ops, FrameOK
  <2>2. syncing' = TRUE /\ missed' = missed \ {e} /\ SetElement(s, e, value)
    BY <1>4 DEF SyncToElement
  <2> HIDE DEF synced
  <2>3. s \in Seq(Frames) /\ Last(s) = synced /\ \A i \in 1 .. Len(s) : FrameOK(s[i], connections')
    BY <2>1, Pushed, PushOK
  <2>4. Shape(s, TRUE)
    <3>1. Shape(base, FALSE)
      BY <1>1, <1>4
    <3> QED
      BY <2>1, <3>1, ShapeSync
  <2>5. Relies(s, connections', Agreed \cup {e})
    BY <2>1, RelyQuiet
  <2>6. ASSUME NEW g \in Groups
        PROVE  Led(s, g, IF value = 0 THEN Lit \ {e} ELSE Lit)
    <3> DEFINE fewer == IF value = 0 THEN Lit \ {e} ELSE Lit
    <3>1. fewer \cap g \subseteq Lit /\ Led(base, g, Lit)
      OBVIOUS
    <3> HIDE DEF fewer
    <3>2. Led(base, g, fewer)
      BY <3>1, LedFewer
    <3>3. Led(s, g, fewer)
      BY <2>1, <3>2, LedQuiet
    <3> QED
      BY <3>3 DEF fewer
  <2>7. s # <<>> => ~Telling(Last(s))
    BY <2>1, <2>3 DEF Telling
  <2>8. Relies(s, connections', Agreed \cup IF value = value THEN {e} ELSE {})
    BY <2>5
  <2> HIDE DEF s
  <2>9. syncing' \in BOOLEAN /\ Shape(s, syncing')
    BY <2>2, <2>4
  <2> QED
    BY <1>1, <1>2, <2>2, <2>3, <2>6, <2>7, <2>8, <2>9, SetKeeps
<1> QED
  BY <1>3, <1>4

(* set_integer: the elements agree on a new value once they are told. *)
LEMMA SetIntegerStep ==
  ASSUME ValuesAssumption, ValuesIInv, NEW v \in NewValue, set_integer(v)
  PROVE  ValuesIInv'
<1> DEFINE listen == Call("listen", no_element, no_element)
<1>1. /\ Control /\ value' = v /\ stack' = Append(stack, listen)
      /\ shows' = shows /\ syncing' = syncing /\ connections' = connections /\ missed' = missed
  BY DEF set_integer
<1>2. stack # <<>> => ~Telling(Last(stack))
  BY <1>1, InControl
<1>3. /\ shows \in [Widget -> Int] /\ syncing \in BOOLEAN /\ missed \subseteq Widget
      /\ connections \in Seq(Connectable) /\ IsInjective(connections) /\ no_element \notin ToSet(connections)
      /\ stack \in Seq(Frames) /\ \A i \in 1 .. Len(stack) : FrameOK(stack[i], connections)
      /\ Shape(stack, syncing)
      /\ \A g \in Groups : Led(stack, g, Lit)
  BY ValuesParts
<1>4. listen \in Frames /\ listen.op = "listen" /\ listen.el = no_element /\ FrameOK(listen, connections)
  BY DEF Call, Frames, Ops, FrameOK
<1> HIDE DEF listen
<1>5. /\ stack' \in Seq(Frames) /\ \A i \in 1 .. Len(stack') : FrameOK(stack'[i], connections)
      /\ Last(stack') = listen
  BY <1>1, <1>3, <1>4, PushOK, Pushed
<1>6. Shape(stack', syncing)
  BY <1>1, <1>2, <1>3, <1>4, ShapePush
<1>7. Relies(stack', connections, Agreed')
  <2>1. Owed(listen, connections) = {}
    BY <1>3, <1>4 DEF Owed
  <2> DEFINE agreed == Agreed'
  <2> HIDE DEF agreed
  <2>2. Relies(stack', connections, agreed)
    BY <1>1, <1>3, <1>4, <2>1, RelyTelling
  <2> QED
    BY <2>2 DEF agreed
<1>8. \A g \in Groups : Led(stack', g, Lit)
  BY <1>1, <1>3, <1>4, LedQuiet
<1>9. v \in Int
  BY ValuesAssumed
<1>10. Last(stack').op # "changed"
  BY <1>4, <1>5
<1> QED
  BY <1>1, <1>2, <1>3, <1>5, <1>6, <1>7, <1>8, <1>9, <1>10, ValuesKept

(* What an iterator has passed of a list that an element was taken out of, and
   maybe put at the end of: no more than before but for that element. *)
LEMMA DoneWithout ==
  ASSUME ValuesAssumption, NEW list \in Seq(Connectable), IsInjective(list), NEW e \in Connectable,
         NEW at \in ToSet(list) \cup {no_element}, NEW other,
         other = Without(list, {e}) \/ other = Append(Without(list, {e}), e)
  PROVE  LET next == IF at = e THEN After(list, e, no_element) ELSE at
         IN  /\ next \in ToSet(other) \cup {no_element}
             /\ Done(other, next) \subseteq Done(list, at) \cup {e}
<1> DEFINE next == IF at = e THEN After(list, e, no_element) ELSE at
           left == Without(list, {e})
<1>1. no_element \notin Connectable
  BY ValuesAssumed
<1>2. /\ left \in Seq(Connectable) /\ IsInjective(left) /\ ToSet(left) = ToSet(list) \ {e}
      /\ \A a, b : Before(left, a, b) => Before(list, a, b)
  BY WithoutProperties
<1>3. e \notin ToSet(left)
  BY <1>2
<1> HIDE DEF left
<1>4. /\ ToSet(left) \subseteq ToSet(other) /\ ToSet(other) \subseteq ToSet(left) \cup {e}
      /\ \A a, b : a # e /\ b # e /\ Before(other, a, b) => Before(left, a, b)
  <2>1. CASE other = left
    BY <2>1
  <2>2. CASE other = Append(left, e)
    <3>1. ToSet(other) = ToSet(left) \cup {e}
      BY <1>2, <1>3, <2>2, AppendedProperties
    <3>2. \A a, b : Before(other, a, b) => Before(left, a, b) \/ b = e
      BY <1>2, <1>3, <2>2, AppendedProperties
    <3> QED
      BY <3>1, <3>2
  <2> QED
    BY <2>1, <2>2 DEF left
<1>5. /\ next \in (ToSet(list) \ {e}) \cup {no_element}
      /\ Done(list, next) \subseteq Done(list, at) \cup {e}
  <2>1. CASE at = e
    <3>1. e \in ToSet(list)
      BY <1>1, <2>1
    <3>2. /\ Done(list, After(list, e, no_element)) \subseteq Done(list, e) \cup {e}
          /\ After(list, e, no_element) \in ToSet(list) \cup {no_element}
      BY <1>1, <3>1, DoneProperties
    <3>3. After(list, e, no_element) # e
      <4>1. After(list, e, no_element) # no_element => Before(list, e, After(list, e, no_element))
        BY <1>1, <3>1, AfterProperties
      <4>2. ~Before(list, e, e) /\ e # no_element
        BY <1>1, OrderProperties
      <4> QED
        BY <4>1, <4>2
    <3> QED
      BY <2>1, <3>2, <3>3
  <2>2. CASE at # e
    BY <2>2
  <2> QED
    BY <2>1, <2>2
<1> HIDE DEF next
<1>6. next \in ToSet(other) \cup {no_element}
  BY <1>2, <1>4, <1>5
<1>7. ASSUME NEW x \in Done(other, next), x # e
      PROVE  x \in Done(list, next)
  <2>1. x \in ToSet(list)
    BY <1>2, <1>4, <1>7 DEF Done
  <2>2. next # no_element => Before(list, x, next)
    BY <1>2, <1>4, <1>5, <1>7 DEF Done
  <2> QED
    BY <2>1, <2>2 DEF Done
<1>8. Done(other, next) \subseteq Done(list, at) \cup {e}
  BY <1>5, <1>7
<1> QED
  BY <1>6, <1>8 DEF next

(* The calls under way once an element was taken out of the list, and maybe put
   at its end *)
LEMMA UnlinkedKeeps ==
  ASSUME ValuesAssumption, ValuesIInv, Control, NEW e \in Connectable, NEW other, other \in Seq(Connectable),
         other = Without(connections, {e}) \/ other = Append(Without(connections, {e}), e)
  PROVE  /\ Unlinked(e) \in Seq(Frames) /\ \A i \in 1 .. Len(Unlinked(e)) : FrameOK(Unlinked(e)[i], other)
         /\ Shape(Unlinked(e), syncing) /\ (Unlinked(e) # <<>> => Last(Unlinked(e)).op # "changed")
         /\ Relies(Unlinked(e), other, Agreed \cup {e})
         /\ \A g \in Groups : Led(Unlinked(e), g, Lit)
<1> DEFINE r == Unlinked(e)
           next == After(connections, e, no_element)
<1>1. /\ connections \in Seq(Connectable) /\ IsInjective(connections) /\ ToSet(connections) \subseteq Widget
      /\ stack \in Seq(Frames) /\ \A i \in 1 .. Len(stack) : FrameOK(stack[i], connections)
      /\ Shape(stack, syncing) /\ Relies(stack, connections, Agreed)
      /\ (stack # <<>> => ~Telling(Last(stack)))
      /\ \A g \in Groups : Led(stack, g, Lit)
  BY InControl, ValuesParts
<1>2. Connectable \subseteq Widget /\ ToSet(other) \subseteq Connectable
  BY ValuesAssumed DEF ToSet
<1>3. r = [i \in 1 .. Len(stack) |-> IF stack[i].op = "sync" /\ stack[i].at = e
                                     THEN [stack[i] EXCEPT !.at = next] ELSE stack[i]]
  BY <1>1 DEF Unlinked
<1>4. Len(r) = Len(stack) /\ Len(stack) \in Nat /\ DOMAIN r = 1 .. Len(stack)
  BY <1>1, <1>3
<1>5. ASSUME NEW i \in 1 .. Len(stack)
      PROVE  /\ r[i] \in Frames /\ FrameOK(r[i], other) /\ r[i].op = stack[i].op /\ r[i].el = stack[i].el
             /\ stack[i].op # "sync" => r[i] = stack[i]
             /\ Owed(r[i], other) \subseteq Owed(stack[i], connections) \cup (Agreed \cup {e})
  <2>1. stack[i] \in Frames /\ FrameOK(stack[i], connections)
    BY <1>1
  <2>2. ToSet(other) \subseteq ToSet(connections) \cup {e}
    <3>1. /\ Without(connections, {e}) \in Seq(Connectable) /\ IsInjective(Without(connections, {e}))
          /\ ToSet(Without(connections, {e})) = ToSet(connections) \ {e}
      BY <1>1, WithoutProperties
    <3>2. e \notin ToSet(Without(connections, {e}))
      BY <3>1
    <3>3. ToSet(Append(Without(connections, {e}), e)) = ToSet(Without(connections, {e})) \cup {e}
      BY <3>1, <3>2, AppendedProperties
    <3> QED
      BY <3>1, <3>3
  <2>3. CASE stack[i].op # "sync"
    <3>1. r[i] = stack[i]
      BY <1>3, <2>3
    <3>2. FrameOK(r[i], other)
      BY <2>1, <2>3, <3>1 DEF FrameOK
    <3>3. Owed(r[i], other) \subseteq Owed(stack[i], connections) \cup {e}
      BY <2>2, <2>3, <3>1 DEF Owed
    <3> QED
      BY <2>1, <3>1, <3>2, <3>3
  <2>4. CASE stack[i].op = "sync"
    <3> DEFINE at == stack[i].at
               to == IF at = e THEN next ELSE at
    <3>1. at \in ToSet(connections) \cup {no_element}
      BY <2>1, <2>4 DEF FrameOK
    <3>2. to \in ToSet(other) \cup {no_element} /\ Done(other, to) \subseteq Done(connections, at) \cup {e}
      BY <1>1, <3>1, DoneWithout
    <3>3. to \in Widget \cup {no_element}
      BY <1>2, <3>2
    <3>4. r[i] = [stack[i] EXCEPT !.at = to]
      <4>1. CASE at = e
        BY <1>3, <2>4, <4>1
      <4>2. CASE at # e
        <5>1. r[i] = stack[i] /\ to = stack[i].at
          BY <1>3, <4>2
        <5>2. stack[i] = [stack[i] EXCEPT !.at = stack[i].at]
          BY <2>1 DEF Frames
        <5> QED
          BY <5>1, <5>2
      <4> QED
        BY <4>1, <4>2
    <3> HIDE DEF to
    <3>5. r[i] \in Frames /\ r[i].op = stack[i].op /\ r[i].el = stack[i].el /\ r[i].at = to
      BY <2>1, <3>3, <3>4 DEF Frames
    <3>6. FrameOK(r[i], other)
      BY <2>4, <3>2, <3>5 DEF FrameOK
    <3>7. Owed(r[i], other) = ({stack[i].el} \cap ToSet(other)) \cup Done(other, to)
      BY <2>4, <3>5 DEF Owed
    <3>8. Owed(stack[i], connections) = ({stack[i].el} \cap ToSet(connections)) \cup Done(connections, at)
      BY <2>4 DEF Owed
    <3>9. Owed(r[i], other) \subseteq Owed(stack[i], connections) \cup {e}
      BY <2>2, <3>2, <3>7, <3>8
    <3> QED
      BY <2>4, <3>5, <3>6, <3>9
  <2> QED
    BY <2>3, <2>4
<1> HIDE DEF r
<1>6. r \in Seq(Frames) /\ \A i \in 1 .. Len(r) : FrameOK(r[i], other)
  <2>1. \A i \in 1 .. Len(stack) : r[i] \in Frames
    BY <1>5
  <2>2. r = [i \in 1 .. Len(stack) |-> r[i]]
    BY <1>3, <1>4
  <2>3. r \in [1 .. Len(stack) -> Frames]
    BY <2>1, <2>2
  <2>4. r \in Seq(Frames)
    BY <1>4, <2>3, SeqDef
  <2> QED
    BY <1>4, <1>5, <2>4
<1>7. Shape(r, syncing)
  <2>1. \A i \in 1 .. Len(stack) : r[i].op = stack[i].op
    BY <1>5
  <2>2. \A i \in 1 .. Len(stack) - 1 : i \in 1 .. Len(stack) /\ i + 1 \in 1 .. Len(stack)
    BY <1>4
  <2> QED
    BY <1>1, <1>4, <2>1, <2>2 DEF Shape
<1>8. r # <<>> => Last(r).op # "changed"
  <2> SUFFICES ASSUME r # <<>>
               PROVE  Last(r).op # "changed"
    OBVIOUS
  <2>1. Len(r) \in 1 .. Len(stack) /\ stack # <<>>
    BY <1>1, <1>4, <1>6
  <2>2. Last(r) = r[Len(r)] /\ Last(stack) = stack[Len(r)]
    BY <1>4, <2>1 DEF Last
  <2> QED
    BY <1>1, <1>5, <2>1, <2>2 DEF Telling
<1>9. Relies(r, other, Agreed \cup {e})
  <2> DEFINE more == Agreed \cup {e}
  <2>1. \A i \in 1 .. Len(stack) : r[i].op = stack[i].op /\ Owed(r[i], other) \subseteq Owed(stack[i], connections) \cup more
    BY <1>5
  <2>2. ToSet(connections) \cap Agreed \subseteq more
    OBVIOUS
  <2>3. ToSet(other) \subseteq ToSet(connections) \cup more
    <3>1. /\ Without(connections, {e}) \in Seq(Connectable) /\ IsInjective(Without(connections, {e}))
          /\ ToSet(Without(connections, {e})) = ToSet(connections) \ {e}
      BY <1>1, WithoutProperties
    <3>2. e \notin ToSet(Without(connections, {e}))
      BY <3>1
    <3>3. ToSet(Append(Without(connections, {e}), e)) = ToSet(Without(connections, {e})) \cup {e}
      BY <3>1, <3>2, AppendedProperties
    <3> QED
      BY <3>1, <3>3
  <2> HIDE DEF more
  <2>4. Relies(r, other, more)
    BY <1>1, <1>4, <2>1, <2>2, <2>3, RelyOther
  <2> QED
    BY <2>4 DEF more
<1>10. ASSUME NEW g \in Groups
       PROVE  Led(r, g, Lit)
  <2>1. Leads(r, g) = Leads(stack, g)
    BY <1>4, <1>5 DEF Leads
  <2>2. \A i \in Leads(stack, g) : r[i] = stack[i]
    BY <1>5 DEF Leads
  <2>3. Led(stack, g, Lit)
    BY <1>1
  <2> QED
    BY <2>1, <2>2, <2>3 DEF Led
<1> QED
  BY <1>6, <1>7, <1>8, <1>9, <1>10 DEF r

(* Connect: the element is set from the value before it counts. *)
LEMMA ConnectStep ==
  ASSUME ValuesAssumption, ValuesIInv, NEW e \in Widget, Connect(e)
  PROVE  ValuesIInv'
<1> DEFINE left == Without(connections, {e})
<1>1. /\ Control /\ e \in Connectable /\ connections' = Append(left, e)
      /\ SyncToElement(Unlinked(e), e) /\ value' = value
  BY DEF Connect
<1>2. connections \in Seq(Connectable) /\ IsInjective(connections)
  BY ValuesParts
<1>3. left \in Seq(Connectable) /\ IsInjective(left) /\ ToSet(left) = ToSet(connections) \ {e}
  BY <1>2, WithoutProperties
<1>4. connections' \in Seq(Connectable) /\ IsInjective(connections') /\ e \in ToSet(connections')
  <2>1. e \notin ToSet(left)
    BY <1>3
  <2> HIDE DEF left
  <2>2. Append(left, e) \in Seq(Connectable) /\ IsInjective(Append(left, e)) /\ ToSet(Append(left, e)) = ToSet(left) \cup {e}
    BY <1>1, <1>3, <2>1, AppendedProperties
  <2> QED
    BY <1>1, <2>2
<1>5. /\ Unlinked(e) \in Seq(Frames) /\ \A i \in 1 .. Len(Unlinked(e)) : FrameOK(Unlinked(e)[i], connections')
      /\ Shape(Unlinked(e), syncing) /\ (Unlinked(e) # <<>> => Last(Unlinked(e)).op # "changed")
      /\ Relies(Unlinked(e), connections', Agreed \cup {e})
      /\ \A g \in Groups : Led(Unlinked(e), g, Lit)
  BY <1>1, <1>4, UnlinkedKeeps
<1> QED
  BY <1>1, <1>4, <1>5, SyncStep

(* Disconnect: the iterators that stood at the element move on. *)
LEMMA DisconnectStep ==
  ASSUME ValuesAssumption, ValuesIInv, NEW e \in Widget, Disconnect(e)
  PROVE  ValuesIInv'
<1>1. /\ Control /\ e \in ToSet(connections) /\ connections' = Without(connections, {e}) /\ stack' = Unlinked(e)
      /\ UNCHANGED <<shows, value, syncing>> /\ missed' = missed \ {e}
  BY DEF Disconnect
<1>2. /\ shows \in [Widget -> Int] /\ value \in Int /\ connections \in Seq(Connectable) /\ IsInjective(connections)
      /\ syncing \in BOOLEAN /\ missed \subseteq Widget /\ ToSet(connections) \subseteq Connectable
  BY ValuesParts
<1>3. connections' \in Seq(Connectable) /\ IsInjective(connections') /\ e \notin ToSet(connections')
  BY <1>1, <1>2, WithoutProperties
<1>4. /\ stack' \in Seq(Frames) /\ \A i \in 1 .. Len(stack') : FrameOK(stack'[i], connections')
      /\ Shape(stack', syncing) /\ (stack' # <<>> => Last(stack').op # "changed")
      /\ Relies(stack', connections', Agreed \cup {e})
      /\ \A g \in Groups : Led(stack', g, Lit)
  BY <1>1, <1>2, <1>3, UnlinkedKeeps
<1>5. Relies(stack', connections', Agreed')
  <2> DEFINE some == Agreed \cup {e}
             agreed == Agreed'
  <2>1. \A d \in Agreed \ {e} : d \in Agreed'
    BY <1>1 DEF Agreed
  <2>2. ToSet(connections') \cap some \subseteq agreed
    BY <1>3, <2>1
  <2>3. Relies(stack', connections', some)
    BY <1>4
  <2> HIDE DEF some, agreed
  <2>4. Relies(stack', connections', agreed)
    BY <2>2, <2>3, RelyMore
  <2> QED
    BY <2>4 DEF agreed
<1>6. missed' \subseteq Widget
  BY <1>1, <1>2
<1> QED
  BY <1>1, <1>2, <1>3, <1>4, <1>5, <1>6, ValuesKept

(* kChanged of an element that is connected gives the value, and of another
   one nothing. *)
LEMMA SyncFromElementStep ==
  ASSUME ValuesAssumption, ValuesIInv, SyncFromElement
  PROVE  ValuesIInv'
<1> DEFINE e == Innermost.el
           handle == Call("handle", e, no_element)
           listen == Call("listen", e, no_element)
           s == Append(Outer, handle)
<1>1. /\ stack # <<>> /\ Innermost.op = "changed" /\ UNCHANGED <<shows, syncing, connections>>
      /\ IF e \in ToSet(connections) /\ ~syncing THEN value' = shows[e] /\ missed' = missed \ {e} /\ stack' = Append(s, listen)
         ELSE stack' = s /\ missed' = (IF e \in ToSet(connections) THEN Missed(e) ELSE missed) /\ value' = value
  BY DEF SyncFromElement, In
<1>2. /\ shows \in [Widget -> Int] /\ value \in Int /\ syncing \in BOOLEAN /\ missed \subseteq Widget
      /\ connections \in Seq(Connectable) /\ IsInjective(connections)
      /\ Source => Clamp(e, shows[e]) = shows[e]
      /\ ~Source => Relies(stack, connections, Agreed \cup Pending)
      /\ \A g \in Groups : Led(stack, g, Lit)
  BY ValuesParts
<1>3. /\ Outer \in Seq(Frames) /\ Innermost \in Frames /\ stack = Append(Outer, Innermost)
      /\ FrameOK(Innermost, connections) /\ \A i \in 1 .. Len(Outer) : FrameOK(Outer[i], connections)
      /\ Shape(Outer, syncing) /\ (Outer # <<>> => ~Telling(Last(Outer)))
  BY <1>1, ValuesTop
<1>4. e \in Widget
  BY <1>1, <1>3 DEF FrameOK
<1>5. /\ handle.op = "handle" /\ handle \in Frames /\ FrameOK(handle, connections)
      /\ listen.op = "listen" /\ listen \in Frames /\ FrameOK(listen, connections) /\ listen.el = e
  BY <1>4 DEF Call, Frames, Ops, FrameOK
<1>6. (Source <=> e \in ToSet(connections) /\ ~syncing) /\ Pending = {e}
  BY <1>1 DEF Source, Pending, In
<1> HIDE DEF handle, listen, e
<1>7. /\ s \in Seq(Frames) /\ Last(s) = handle /\ \A i \in 1 .. Len(s) : FrameOK(s[i], connections)
      /\ s # <<>>
  BY <1>3, <1>5, PushOK, Pushed
<1>8. Shape(s, syncing)
  BY <1>2, <1>3, <1>5, ShapePush
<1>9. \A g \in Groups : Led(s, g, Lit)
  <2> TAKE g \in Groups
  <2>1. Led(Outer, g, Lit)
    BY <1>1, <1>2, <1>3, LedQuiet
  <2> QED
    BY <1>3, <1>5, <2>1, LedQuiet
<1>10. ~Source => Relies(s, connections, Agreed \cup {e})
  <2>1. ~Source => Relies(Outer, connections, Agreed \cup {e})
    BY <1>1, <1>2, <1>3, <1>6, RelyQuiet
  <2> QED
    BY <1>3, <1>5, <2>1, RelyQuiet
<1> HIDE DEF s
<1>11. CASE ~Source
  <2>1. /\ stack' = s /\ value' = value /\ missed' = IF e \in ToSet(connections) THEN Missed(e) ELSE missed
    BY <1>1, <1>6, <1>11
  <2>2. missed' \subseteq Widget /\ ToSet(connections) \cap (Agreed \cup {e}) \subseteq Agreed'
    BY <1>1, <1>2, <1>4, <2>1 DEF Agreed, Missed
  <2>3. Last(s).op # "changed"
    BY <1>5, <1>7
  <2>4. Relies(s, connections, Agreed')
    <3> DEFINE some == Agreed \cup {e}
               agreed == Agreed'
    <3>1. Relies(s, connections, some) /\ ToSet(connections) \cap some \subseteq agreed
      BY <1>10, <1>11, <2>2
    <3> HIDE DEF some, agreed
    <3>2. Relies(s, connections, agreed)
      BY <3>1, RelyMore
    <3> QED
      BY <3>2 DEF agreed
  <2> QED
    BY <1>1, <1>2, <1>7, <1>8, <1>9, <2>1, <2>2, <2>3, <2>4, ValuesKept
<1>12. CASE Source
  <2>1. stack' = Append(s, listen) /\ value' = shows[e] /\ missed' = missed \ {e}
    BY <1>1, <1>6, <1>12
  <2>2. /\ stack' \in Seq(Frames) /\ \A i \in 1 .. Len(stack') : FrameOK(stack'[i], connections)
        /\ Last(stack') = listen
    BY <1>5, <1>7, <2>1, PushOK, Pushed
  <2>3. Shape(stack', syncing)
    BY <1>2, <1>5, <1>7, <1>8, <2>1, ShapePush DEF Telling
  <2>4. Relies(stack', connections, Agreed')
    <3>1. e \in Agreed'
      BY <1>1, <1>2, <1>4, <1>12, <2>1 DEF Agreed
    <3> DEFINE agreed == Agreed'
    <3>2. e \in agreed
      BY <3>1
    <3> HIDE DEF agreed
    <3>3. Owed(listen, connections) \subseteq agreed
      BY <1>5, <3>2 DEF Owed
    <3>4. Relies(stack', connections, agreed)
      BY <1>5, <1>7, <2>1, <3>3, RelyTelling
    <3> QED
      BY <3>4 DEF agreed
  <2>5. \A g \in Groups : Led(stack', g, Lit)
    BY <1>5, <1>7, <1>9, <2>1, LedQuiet
  <2>6. value' \in Int /\ missed' \subseteq Widget /\ Last(stack').op # "changed"
    BY <1>2, <1>4, <1>5, <2>1, <2>2
  <2> QED
    BY <1>1, <1>2, <2>2, <2>3, <2>4, <2>5, <2>6, ValuesKept
<1> QED
  BY <1>11, <1>12

(* HandlersReturn: a handler returns. *)
LEMMA HandledStep ==
  ASSUME ValuesAssumption, ValuesIInv, HandlersReturn
  PROVE  ValuesIInv'
<1>1. stack # <<>> /\ Innermost.op = "handle" /\ stack' = Outer /\ UNCHANGED <<shows, value, syncing, connections, missed>>
  BY DEF HandlersReturn, In
<1>2. ~Source /\ ~In("changed")
  BY <1>1 DEF Source, In
<1>3. /\ shows \in [Widget -> Int] /\ value \in Int /\ syncing \in BOOLEAN /\ missed \subseteq Widget
      /\ connections \in Seq(Connectable) /\ IsInjective(connections)
      /\ Relies(stack, connections, Agreed)
      /\ \A g \in Groups : Led(stack, g, Lit)
  BY <1>2, ValuesParts
<1>4. /\ Outer \in Seq(Frames) /\ Innermost \in Frames /\ stack = Append(Outer, Innermost)
      /\ \A i \in 1 .. Len(Outer) : FrameOK(Outer[i], connections)
      /\ Shape(Outer, syncing) /\ (Outer # <<>> => Last(Outer).op # "changed")
  BY <1>1, ValuesTop
<1>5. Relies(Outer, connections, Agreed)
  BY <1>1, <1>3, <1>4, RelyQuiet
<1>6. \A g \in Groups : Led(Outer, g, Lit)
  BY <1>1, <1>3, <1>4, LedQuiet
<1>7. Agreed' = Agreed
  BY <1>1 DEF Agreed
<1> QED
  BY <1>1, <1>3, <1>4, <1>5, <1>6, <1>7, ValuesKept

(* The listeners were told; next come the elements, from the first one on. *)
LEMMA InvokeOnValueChangedStep ==
  ASSUME ValuesAssumption, ValuesIInv, InvokeOnValueChanged
  PROVE  ValuesIInv'
<1> DEFINE sync == Call("sync", Innermost.el, FirstOf(connections, no_element))
<1>1. /\ stack # <<>> /\ Innermost.op = "listen" /\ stack' = Append(Outer, sync)
      /\ UNCHANGED <<shows, value, syncing, connections, missed>>
  BY DEF InvokeOnValueChanged, In
<1>2. ~Source /\ ~In("changed")
  BY <1>1 DEF Source, In
<1>3. /\ shows \in [Widget -> Int] /\ value \in Int /\ syncing \in BOOLEAN /\ missed \subseteq Widget
      /\ connections \in Seq(Connectable) /\ IsInjective(connections)
      /\ Relies(stack, connections, Agreed) /\ ToSet(connections) \subseteq Widget
      /\ \A g \in Groups : Led(stack, g, Lit)
  BY <1>2, ValuesParts
<1>4. /\ Outer \in Seq(Frames) /\ Innermost \in Frames /\ stack = Append(Outer, Innermost)
      /\ \A i \in 1 .. Len(Outer) : FrameOK(Outer[i], connections)
      /\ Shape(Outer, syncing) /\ (Outer # <<>> => ~Telling(Last(Outer)))
  BY <1>1, ValuesTop
<1>5. no_element \notin Connectable
  BY ValuesAssumed
<1>6. FirstOf(connections, no_element) \in ToSet(connections) \cup {no_element} /\ Done(connections, FirstOf(connections, no_element)) = {}
  BY <1>3, <1>5, DoneProperties
<1>7. /\ sync \in Frames /\ sync.op = "sync" /\ sync.el = Innermost.el /\ sync.at = FirstOf(connections, no_element)
      /\ FrameOK(sync, connections)
  <2>1. Innermost.el \in Widget \cup {no_element} /\ FirstOf(connections, no_element) \in Widget \cup {no_element}
    BY <1>3, <1>4, <1>6 DEF Frames
  <2> QED
    BY <1>6, <2>1 DEF Call, Frames, Ops, FrameOK
<1> HIDE DEF sync
<1>8. /\ stack' \in Seq(Frames) /\ \A i \in 1 .. Len(stack') : FrameOK(stack'[i], connections)
      /\ Last(stack') = sync
  BY <1>1, <1>4, <1>7, PushOK, Pushed
<1>9. Shape(stack', syncing)
  BY <1>1, <1>3, <1>4, <1>7, ShapePush
<1>10. Relies(stack', connections, Agreed)
  <2>1. Owed(Innermost, connections) \subseteq Agreed
    BY <1>1, <1>3, <1>4, RelyTelling
  <2>2. Owed(sync, connections) = Owed(Innermost, connections)
    BY <1>1, <1>6, <1>7 DEF Owed
  <2> QED
    BY <1>1, <1>4, <1>7, <2>1, <2>2, RelyTelling
<1>11. \A g \in Groups : Led(stack', g, Lit)
  <2> TAKE g \in Groups
  <2>1. Led(Outer, g, Lit)
    BY <1>1, <1>3, <1>4, LedQuiet
  <2> QED
    BY <1>1, <1>4, <1>7, <2>1, LedQuiet
<1>12. Agreed' = Agreed
  BY <1>1 DEF Agreed
<1>13. Last(stack').op # "changed"
  BY <1>7, <1>8
<1> QED
  BY <1>1, <1>3, <1>8, <1>9, <1>10, <1>11, <1>12, <1>13, ValuesKept

(* The next element is set, or the last one was. *)
LEMMA SyncToElementsStep ==
  ASSUME ValuesAssumption, ValuesIInv, SyncToElements
  PROVE  ValuesIInv'
<1> DEFINE e == Innermost.at
           next == After(connections, e, no_element)
           sync == Call("sync", Innermost.el, next)
           rest == Append(Outer, sync)
<1>1. /\ stack # <<>> /\ Innermost.op = "sync" /\ UNCHANGED <<value, connections>>
      /\ IF e = no_element THEN stack' = Outer /\ UNCHANGED <<shows, syncing, missed>>
         ELSE IF e = Innermost.el THEN stack' = rest /\ UNCHANGED <<shows, syncing, missed>>
         ELSE SyncToElement(rest, e)
  BY DEF SyncToElements, In
<1>2. ~Source /\ ~In("changed")
  BY <1>1 DEF Source, In
<1>3. /\ shows \in [Widget -> Int] /\ value \in Int /\ syncing \in BOOLEAN /\ missed \subseteq Widget
      /\ connections \in Seq(Connectable) /\ IsInjective(connections)
      /\ Relies(stack, connections, Agreed) /\ ToSet(connections) \subseteq Widget
      /\ \A g \in Groups : Led(stack, g, Lit)
  BY <1>2, ValuesParts
<1>4. /\ Outer \in Seq(Frames) /\ Innermost \in Frames /\ stack = Append(Outer, Innermost) /\ FrameOK(Innermost, connections)
      /\ \A i \in 1 .. Len(Outer) : FrameOK(Outer[i], connections)
      /\ Shape(Outer, syncing) /\ (Outer # <<>> => ~Telling(Last(Outer)))
  BY <1>1, ValuesTop
<1>5. Owed(Innermost, connections) \subseteq Agreed
  BY <1>1, <1>3, <1>4, RelyTelling
<1>6. \A g \in Groups : Led(Outer, g, Lit)
  BY <1>1, <1>3, <1>4, LedQuiet
<1>7. no_element \notin Connectable
  BY ValuesAssumed
<1>8. CASE e = no_element
  <2>1. stack' = Outer /\ UNCHANGED <<shows, syncing, missed>>
    BY <1>1, <1>8
  <2>2. ToSet(connections) \subseteq Agreed
    BY <1>1, <1>5, <1>8 DEF Owed, Done
  <2>3. Relies(Outer, connections, Agreed)
    BY <2>2, RelyMore
  <2>4. Agreed' = Agreed
    BY <1>1, <2>1 DEF Agreed
  <2>5. Outer # <<>> => Last(Outer).op # "changed"
    BY <1>4 DEF Telling
  <2> QED
    BY <1>1, <1>3, <1>4, <1>6, <2>1, <2>3, <2>4, <2>5, ValuesKept
<1>9. CASE e # no_element
  <2>1. e \in ToSet(connections)
    BY <1>1, <1>4, <1>9 DEF FrameOK
  <2>2. next \in ToSet(connections) \cup {no_element} /\ Done(connections, next) \subseteq Done(connections, e) \cup {e}
    BY <1>3, <1>7, <2>1, DoneProperties
  <2>3. sync \in Frames /\ sync.op = "sync" /\ sync.el = Innermost.el /\ sync.at = next /\ FrameOK(sync, connections)
    <3>1. Innermost.el \in Widget \cup {no_element} /\ next \in Widget \cup {no_element}
      BY <1>3, <1>4, <2>2 DEF Frames
    <3> HIDE DEF next
    <3> QED
      BY <2>2, <3>1 DEF Call, Frames, Ops, FrameOK
  <2> HIDE DEF sync, next
  <2>4. /\ rest \in Seq(Frames) /\ \A i \in 1 .. Len(rest) : FrameOK(rest[i], connections)
        /\ Last(rest) = sync
    BY <1>4, <2>3, PushOK, Pushed
  <2>5. Shape(rest, syncing)
    BY <1>3, <1>4, <2>3, ShapePush
  <2>6. \A g \in Groups : Led(rest, g, Lit)
    BY <1>4, <1>6, <2>3, LedQuiet
  <2>7. Relies(rest, connections, Agreed \cup {e})
    <3>1. Owed(sync, connections) \subseteq Owed(Innermost, connections) \cup {e}
      BY <1>1, <2>2, <2>3 DEF Owed
    <3>2. Owed(sync, connections) \subseteq Agreed \cup {e}
      BY <1>5, <3>1
    <3> QED
      BY <1>4, <2>3, <3>2, RelyTelling
  <2>8. rest # <<>> => Last(rest).op # "changed"
    BY <2>3, <2>4
  <2>9. CASE e = Innermost.el
    <3>1. stack' = rest /\ UNCHANGED <<shows, syncing, missed>>
      BY <1>1, <1>9, <2>9 DEF next, sync
    <3>2. e \in Agreed
      BY <1>5, <2>1, <2>9 DEF Owed
    <3>3. Relies(rest, connections, Agreed)
      <4>1. Agreed \cup {e} = Agreed
        BY <3>2
      <4> QED
        BY <2>7, <4>1
    <3>4. Agreed' = Agreed
      BY <1>1, <3>1 DEF Agreed
    <3> HIDE DEF rest
    <3> QED
      BY <1>1, <1>3, <1>4, <2>4, <2>5, <2>6, <2>8, <3>1, <3>3, <3>4, ValuesKept
  <2>10. CASE e # Innermost.el
    <3>1. SyncToElement(rest, e)
      BY <1>1, <1>9, <2>10 DEF next, sync
    <3> HIDE DEF rest
    <3> QED
      BY <1>1, <1>3, <1>4, <2>1, <2>4, <2>5, <2>6, <2>7, <2>8, <3>1, SyncStep
  <2> QED
    BY <2>9, <2>10
<1> QED
  BY <1>8, <1>9

(* Synced: the element has been set, and the others follow. *)
LEMMA SyncedStep ==
  ASSUME ValuesAssumption, ValuesIInv, Synced
  PROVE  ValuesIInv'
<1>1. /\ stack # <<>> /\ Innermost.op = "synced" /\ stack' = Outer /\ syncing' = FALSE
      /\ UNCHANGED <<shows, value, connections, missed>>
  BY DEF Synced, In
<1>2. ~Source /\ ~In("changed")
  BY <1>1 DEF Source, In
<1>3. /\ shows \in [Widget -> Int] /\ value \in Int /\ missed \subseteq Widget
      /\ connections \in Seq(Connectable) /\ IsInjective(connections)
      /\ Relies(stack, connections, Agreed)
      /\ \A g \in Groups : Led(stack, g, Lit)
  BY <1>2, ValuesParts
<1>4. /\ Outer \in Seq(Frames) /\ Innermost \in Frames /\ stack = Append(Outer, Innermost)
      /\ \A i \in 1 .. Len(Outer) : FrameOK(Outer[i], connections)
      /\ Shape(Outer, FALSE) /\ (Outer # <<>> => Last(Outer).op # "changed")
  BY <1>1, ValuesTop
<1>5. Relies(Outer, connections, Agreed)
  BY <1>1, <1>3, <1>4, RelyQuiet
<1>6. \A g \in Groups : Led(Outer, g, Lit)
  BY <1>1, <1>3, <1>4, LedQuiet
<1>7. Agreed' = Agreed
  BY <1>1 DEF Agreed
<1> QED
  BY <1>1, <1>3, <1>4, <1>5, <1>6, <1>7, ValuesKept

(* The frame of an update moves on to what it has passed by then. *)
LEMMA LeadStep ==
  ASSUME ValuesAssumption, ValuesIInv, Lead
  PROVE  ValuesIInv'
<1> DEFINE e == Innermost.el
           first == FirstOf(Group[e], no_element)
           leads == Call("group", e, first)
<1>1. /\ stack # <<>> /\ Innermost.op = "lead" /\ stack' = Append(Outer, leads)
      /\ UNCHANGED <<shows, value, syncing, connections, missed>>
  BY DEF Lead, In
<1>2. ~Source /\ ~In("changed")
  BY <1>1 DEF Source, In
<1>3. /\ shows \in [Widget -> Int] /\ value \in Int /\ syncing \in BOOLEAN /\ missed \subseteq Widget
      /\ connections \in Seq(Connectable) /\ IsInjective(connections)
      /\ Relies(stack, connections, Agreed)
      /\ \A g \in Groups : Led(stack, g, Lit)
  BY <1>2, ValuesParts
<1>4. /\ Outer \in Seq(Frames) /\ Innermost \in Frames /\ stack = Append(Outer, Innermost) /\ FrameOK(Innermost, connections)
      /\ \A i \in 1 .. Len(Outer) : FrameOK(Outer[i], connections)
      /\ Shape(Outer, syncing) /\ (Outer # <<>> => ~Telling(Last(Outer)))
  BY <1>1, ValuesTop
<1>5. e \in Widget /\ Group[e] # <<>>
  BY <1>1, <1>4 DEF FrameOK
<1>6. /\ Group[e] \in Seq(Widget) /\ IsInjective(Group[e]) /\ no_element \notin Widget
      /\ ToSet(Group[e]) \subseteq Widget
  BY <1>5, ValuesAssumed
<1>7. first \in ToSet(Group[e]) \cup {no_element} /\ Done(Group[e], first) = {}
  BY <1>6, DoneProperties
<1> HIDE DEF first
<1>8. leads \in Frames /\ leads.op = "group" /\ leads.el = e /\ leads.at = first /\ FrameOK(leads, connections)
  <2>1. first \in Widget \cup {no_element}
    BY <1>6, <1>7
  <2> QED
    BY <1>5, <1>7, <2>1 DEF Call, Frames, Ops, FrameOK
<1> HIDE DEF leads, e
<1>9. /\ stack' \in Seq(Frames) /\ \A i \in 1 .. Len(stack') : FrameOK(stack'[i], connections)
      /\ Last(stack') = leads
  BY <1>1, <1>4, <1>8, PushOK, Pushed
<1>10. Shape(stack', syncing)
  BY <1>1, <1>3, <1>4, <1>8, ShapePush
<1>11. Relies(stack', connections, Agreed)
  <2>1. Relies(Outer, connections, Agreed)
    BY <1>1, <1>3, <1>4, RelyQuiet
  <2> QED
    BY <1>1, <1>4, <1>8, <2>1, RelyQuiet
<1>12. \A g \in Groups : Led(stack', g, Lit)
  <2> TAKE g \in Groups
  <2>1. CASE e \in g
    <3>1. Switched(leads) \cap Lit \subseteq {e}
      BY <1>7, <1>8 DEF Switched
    <3>2. One(Switched(leads) \cap Lit)
      BY <3>1 DEF One
    <3> QED
      BY <1>1, <1>4, <1>8, <2>1, <3>2, LedLeading
  <2>2. CASE e \notin g
    <3>1. Led(Outer, g, Lit)
      BY <1>1, <1>3, <1>4, <2>2, LedQuiet DEF e
    <3> QED
      BY <1>1, <1>4, <1>8, <2>2, <3>1, LedQuiet
  <2> QED
    BY <2>1, <2>2
<1>13. Agreed' = Agreed
  BY <1>1 DEF Agreed
<1>14. Last(stack').op # "changed"
  BY <1>8, <1>9
<1> QED
  BY <1>1, <1>3, <1>9, <1>10, <1>11, <1>12, <1>13, <1>14, ValuesKept

(* The next one of the group is switched off, or the last one was. *)
LEMMA UpdateGroupStep ==
  ASSUME ValuesAssumption, ValuesIInv, UpdateGroupElements
  PROVE  ValuesIInv'
<1> DEFINE l == Innermost.el
           e == Innermost.at
           next == After(Group[l], e, no_element)
           leads == Call("group", l, next)
           rest == Append(Outer, leads)
<1>1. /\ stack # <<>> /\ Innermost.op = "group" /\ UNCHANGED <<value, syncing, connections, missed>>
      /\ IF e = no_element THEN stack' = Outer /\ UNCHANGED shows
         ELSE IF e = l THEN stack' = rest /\ UNCHANGED shows
         ELSE SetElement(rest, e, 0)
  BY DEF UpdateGroupElements, In
<1>2. ~Source /\ ~In("changed")
  BY <1>1 DEF Source, In
<1>3. /\ shows \in [Widget -> Int] /\ value \in Int /\ syncing \in BOOLEAN /\ missed \subseteq Widget
      /\ connections \in Seq(Connectable) /\ IsInjective(connections)
      /\ Relies(stack, connections, Agreed) /\ ToSet(connections) \subseteq Connectable
      /\ \A g \in Groups : Led(stack, g, Lit)
  BY <1>2, ValuesParts
<1>4. /\ Outer \in Seq(Frames) /\ Innermost \in Frames /\ stack = Append(Outer, Innermost) /\ FrameOK(Innermost, connections)
      /\ \A i \in 1 .. Len(Outer) : FrameOK(Outer[i], connections)
      /\ Shape(Outer, syncing) /\ (Outer # <<>> => ~Telling(Last(Outer)))
  BY <1>1, ValuesTop
<1>5. l \in Widget /\ Group[l] # <<>> /\ e \in ToSet(Group[l]) \cup {no_element}
  BY <1>1, <1>4 DEF FrameOK
<1>6. /\ Group[l] \in Seq(Widget) /\ IsInjective(Group[l]) /\ no_element \notin Widget
      /\ ToSet(Group[l]) \subseteq Widget
  BY <1>5, ValuesAssumed
<1>7. Relies(Outer, connections, Agreed)
  BY <1>1, <1>3, <1>4, RelyQuiet
<1>8. \A g \in Groups : IF l \in g THEN One(Switched(Innermost) \cap Lit) ELSE Led(Outer, g, Lit)
  BY <1>1, <1>3, <1>4, LedLeading, LedQuiet
<1>9. \A g \in Groups : l \in g => g = ToSet(Group[l])
  BY <1>5, InGroup
<1>10. CASE e = no_element
  <2>1. stack' = Outer /\ UNCHANGED shows
    BY <1>1, <1>10
  <2>2. ToSet(Group[l]) \subseteq Switched(Innermost)
    BY <1>1, <1>10 DEF Switched, Done
  <2>3. \A g \in Groups : Led(Outer, g, Lit)
    <3> TAKE g \in Groups
    <3>1. CASE l \in g
      <4>1. One(g \cap Lit)
        BY <1>8, <1>9, <2>2, <3>1 DEF One
      <4>2. Lit \cap g \subseteq Lit
        OBVIOUS
      <4> QED
        BY <1>4, <4>1, <4>2, LedFewer
    <3>2. CASE l \notin g
      BY <1>8, <3>2
    <3> QED
      BY <3>1, <3>2
  <2>4. Agreed' = Agreed
    BY <1>1, <2>1 DEF Agreed
  <2>5. Outer # <<>> => Last(Outer).op # "changed"
    BY <1>4 DEF Telling
  <2> QED
    BY <1>1, <1>3, <1>4, <1>7, <2>1, <2>3, <2>4, <2>5, ValuesKept
<1>11. CASE e # no_element
  <2>1. e \in ToSet(Group[l]) /\ e \in Widget
    BY <1>5, <1>6, <1>11
  <2>2. next \in ToSet(Group[l]) \cup {no_element} /\ Done(Group[l], next) \subseteq Done(Group[l], e) \cup {e}
    BY <1>6, <2>1, DoneProperties
  <2> HIDE DEF next
  <2>3. leads \in Frames /\ leads.op = "group" /\ leads.el = l /\ leads.at = next /\ FrameOK(leads, connections)
    <3>1. next \in Widget \cup {no_element}
      BY <1>6, <2>2
    <3> QED
      BY <1>5, <2>2, <3>1 DEF Call, Frames, Ops, FrameOK
  <2> HIDE DEF leads
  <2>4. /\ rest \in Seq(Frames) /\ \A i \in 1 .. Len(rest) : FrameOK(rest[i], connections)
        /\ Last(rest) = leads
    BY <1>4, <2>3, PushOK, Pushed
  <2>5. Shape(rest, syncing)
    BY <1>3, <1>4, <2>3, ShapePush
  <2>6. Relies(rest, connections, Agreed)
    BY <1>4, <1>7, <2>3, RelyQuiet
  <2>7. Switched(leads) \subseteq Switched(Innermost) \cup {e}
    BY <1>1, <2>2, <2>3 DEF Switched
  <2>8. rest # <<>> => ~Telling(Last(rest)) /\ Last(rest).op # "changed"
    BY <2>3, <2>4 DEF Telling
  <2>9. CASE e = l
    <3>1. stack' = rest /\ UNCHANGED shows
      BY <1>1, <1>11, <2>9 DEF leads, next
    <3>2. Switched(leads) \subseteq Switched(Innermost)
      BY <2>7, <2>9 DEF Switched
    <3>3. \A g \in Groups : Led(rest, g, Lit)
      <4> TAKE g \in Groups
      <4>1. CASE l \in g
        <5>1. One(Switched(leads) \cap Lit)
          BY <1>8, <3>2, <4>1 DEF One
        <5> QED
          BY <1>4, <2>3, <4>1, <5>1, LedLeading
      <4>2. CASE l \notin g
        BY <1>4, <1>8, <2>3, <4>2, LedQuiet
      <4> QED
        BY <4>1, <4>2
    <3>4. Agreed' = Agreed
      BY <1>1, <3>1 DEF Agreed
    <3> HIDE DEF rest
    <3> QED
      BY <1>1, <1>3, <2>4, <2>5, <2>6, <2>8, <3>1, <3>3, <3>4, ValuesKept
  <2>10. CASE e # l
    <3>1. SetElement(rest, e, 0)
      BY <1>1, <1>11, <2>10 DEF leads, next
    <3>2. \A g \in Groups : Led(rest, g, Lit \ {e})
      <4> TAKE g \in Groups
      <4>1. CASE l \in g
        <5>1. One(Switched(leads) \cap (Lit \ {e}))
          BY <1>8, <2>7, <4>1 DEF One
        <5> QED
          BY <1>4, <2>3, <4>1, <5>1, LedLeading
      <4>2. CASE l \notin g
        <5>1. (Lit \ {e}) \cap g \subseteq Lit
          OBVIOUS
        <5>2. Led(Outer, g, Lit \ {e})
          BY <1>4, <1>8, <4>2, <5>1, LedFewer
        <5> QED
          BY <1>4, <2>3, <4>2, <5>2, LedQuiet
      <4> QED
        BY <4>1, <4>2
    <3>4. Relies(rest, connections, Agreed \cup IF 0 = value THEN {e} ELSE {})
      <4> DEFINE more == Agreed \cup IF 0 = value THEN {e} ELSE {}
      <4>1. ToSet(connections) \cap Agreed \subseteq more
        OBVIOUS
      <4> HIDE DEF more
      <4>2. Relies(rest, connections, more)
        BY <2>6, <4>1, RelyMore
      <4> QED
        BY <4>2 DEF more
    <3>5. 0 \in Int /\ \A g \in Groups : Led(rest, g, IF 0 = 0 THEN Lit \ {e} ELSE Lit)
      BY <3>2
    <3> HIDE DEF rest
    <3> QED
      BY <1>1, <1>3, <2>1, <2>4, <2>5, <2>8, <3>1, <3>4, <3>5, SetKeeps
  <2> QED
    BY <2>9, <2>10
<1> QED
  BY <1>10, <1>11

(* Each step of the program, of the value, of an element and of a group keeps
   the invariant. *)
LEMMA ValuesStep ==
  ASSUME ValuesAssumption, ValuesIInv, [ElementValuesNext]_elementValuesVars
  PROVE  ValuesIInv'
<1>1. ASSUME NEW e \in Widget, NEW v \in NewValue, set_value(e, v)
      PROVE  ValuesIInv'
  <2>1. v \in Int
    BY ValuesAssumed
  <2> QED
    BY <1>1, <2>1, SetStep DEF set_value
<1>2. ASSUME NEW e \in Widget, ClickBox(e)
      PROVE  ValuesIInv'
  <2> DEFINE v == IF shows[e] = 0 THEN 1 ELSE 0
  <2>1. Control /\ SetElement(stack, e, v) /\ UNCHANGED <<value, syncing, connections, missed>> /\ v \in Int
    BY <1>2 DEF ClickBox, Control
  <2> HIDE DEF v
  <2> QED
    BY <2>1, SetStep
<1>3. ASSUME NEW v \in NewValue, set_integer(v)
      PROVE  ValuesIInv'
  BY <1>3, SetIntegerStep
<1>4. ASSUME NEW e \in Widget, Connect(e) \/ Disconnect(e)
      PROVE  ValuesIInv'
  BY <1>4, ConnectStep, DisconnectStep
<1>5. CASE UNCHANGED elementValuesVars
  BY <1>5 DEF elementValuesVars, ValuesIInv, ElementValuesTypeOK, Source, Pending, In, Innermost, Agreed, Lit, Groups
<1> QED
  BY <1>1, <1>2, <1>3, <1>4, <1>5, SyncFromElementStep, HandledStep, InvokeOnValueChangedStep, SyncToElementsStep,
     SyncedStep, LeadStep, UpdateGroupStep DEF ElementValuesNext

(* At first nothing is connected, on or under way. *)
LEMMA ValuesStart ==
  ASSUME ValuesAssumption, InitElementValues
  PROVE  ValuesIInv
<1>1. /\ shows = [e \in Widget |-> 0] /\ value = 0 /\ syncing = FALSE /\ connections = <<>> /\ stack = <<>> /\ missed = {}
  BY DEF InitElementValues
<1>2. ElementValuesTypeOK /\ ToSet(connections) = {}
  <2>1. shows \in [Widget -> Int]
    BY <1>1
  <2>4. value \in Int /\ syncing \in BOOLEAN /\ missed \subseteq Widget
    <3>1. value = 0 /\ 0 \in Int
      BY <1>1
    <3>2. syncing = FALSE
      BY <1>1
    <3>3. missed \subseteq Widget
      BY <1>1
    <3> QED
      BY <3>1, <3>2, <3>3, Zenon
  <2>2. connections \in Seq(Connectable) /\ IsInjective(connections) /\ ToSet(connections) = {}
    BY <1>1 DEF IsInjective, ToSet
  <2>3. stack \in Seq(Frames) /\ \A i \in 1 .. Len(stack) : FrameOK(stack[i], connections)
    BY <1>1
  <2> QED
    BY <2>1, <2>2, <2>3, <2>4 DEF ElementValuesTypeOK
<1>3. Shape(stack, syncing)
  BY <1>1 DEF Shape
<1>4. ~Source
  BY <1>1 DEF Source, In
<1>5. Relies(stack, connections, Agreed \cup Pending)
  BY <1>1, <1>2 DEF Relies, Told
<1>6. \A g \in Groups : Led(stack, g, Lit)
  <2>1. Lit = {}
    BY <1>1 DEF Lit
  <2>2. \A g : Leads(stack, g) = {}
    BY <1>1 DEF Leads
  <2> QED
    BY <2>1, <2>2 DEF Led, One
<1> QED
  BY <1>2, <1>3, <1>4, <1>5, <1>6 DEF ValuesIInv

(* What the invariant says when no call is under way *)
LEMMA ValuesAreSafe ==
  ASSUME ValuesAssumption, ValuesIInv
  PROVE  ValuesAgree
<1>1. ElementsAgree
  <2> SUFFICES ASSUME stack = <<>>
               PROVE  \A e \in ToSet(connections) \ missed : shows[e] = Clamp(e, value)
    BY DEF ElementsAgree, Idle, Connected
  <2>1. ~In("changed")
    BY DEF In
  <2>2. Relies(stack, connections, Agreed)
    BY <2>1, ValuesParts
  <2>3. Told(stack) = {}
    BY DEF Told
  <2> QED
    BY <2>2, <2>3 DEF Relies, Agreed
<1>2. AtMostOneOn
  <2> SUFFICES ASSUME stack = <<>>, NEW e \in Widget, NEW d \in ToSet(Group[e]), shows[e] # 0, shows[d] # 0
               PROVE  d = e
    BY DEF AtMostOneOn, Idle
  <2> DEFINE g == ToSet(Group[e])
  <2>1. Group[e] # <<>>
    BY DEF ToSet
  <2>2. g \in Groups /\ e \in g /\ g \subseteq Widget
    <3>1. g \in Groups
      BY <2>1 DEF Groups
    <3> QED
      BY <2>1, <3>1, ValuesAssumed
  <2>3. d \in g
    OBVIOUS
  <2> HIDE DEF g
  <2>4. Leads(stack, g) = {}
    BY DEF Leads
  <2>5. Led(stack, g, Lit)
    BY <2>2, ValuesParts
  <2>6. One(g \cap Lit)
    BY <2>4, <2>5 DEF Led
  <2> QED
    BY <2>2, <2>3, <2>6 DEF One, Lit
<1> QED
  BY <1>1, <1>2 DEF ValuesAgree

(* Whenever all calls have returned the elements connected show the value, as
   far as their limits allow, but for those whose last synchronisation was
   dropped as it came during another one, and of each group at most one is on,
   whatever handlers and listeners do in the middle (element_value.cc,
   base_radio_check_box.cc). *)
THEOREM ValuesSafe ==
  ASSUME ValuesAssumption
  PROVE  ElementValuesSpec => []ValuesAgree
<1>1. InitElementValues => ValuesIInv
  BY ValuesStart
<1>2. ValuesIInv /\ [ElementValuesNext]_elementValuesVars => ValuesIInv'
  BY ValuesStep
<1>3. ValuesIInv => ValuesAgree
  BY ValuesAreSafe
<1> QED
  BY <1>1, <1>2, <1>3, PTL DEF ElementValuesSpec

-----------------------------------------------------------------------------
(* Panels *)

TabStates == [pages : Seq(BOOLEAN), pressed : Seq(BOOLEAN), current : Nat \ {0}, need : BOOLEAN, shown : Nat,
              kept : BOOLEAN]

(* There is a tab for each page, and the pages seen are there unless one was removed. *)
TabsOK ==
  /\ tabs \in TabStates /\ Len(tabs.pages) = Len(tabs.pressed)
  /\ tabs.kept => tabs.shown <= Len(tabs.pages)
  /\ OnlyCurrentShown

Pieces == [first : Int \X Int, divider : Int \X Int, second : Int \X Int]
SplitStates ==
  [size : [x : Nat, y : Nat], axis : {"x", "y"}, fixed : {"first", "second"}, min : Nat, value : Int, initial : Int,
   rects : Pieces, invalid : BOOLEAN, grab : Int, at : Int, held : BOOLEAN]

(* Before it is laid out for the first time a divider has no room and is not
   dragged.  Later it is laid out where it was set, unless that has changed
   meanwhile; and what the pointer has moved last was set to where the pointer
   has it. *)
SplitOK(s) ==
  /\ s \in SplitStates
  /\ s.initial >= 0 => s.rects.divider[2] = 0 /\ s.grab = -1 /\ ~s.held
  /\ ~s.invalid /\ s.fixed = "first" => s.rects.divider[1] = s.value
  /\ s.held /\ s.fixed = "first" => s.value = Within(s.at - s.grab, s.min, computed_max_value(s))

GroupCalls == [op : {"group", "click"}, value : {0, 1}]
GroupStates ==
  [header : {0, 1}, container : {0, 1}, visible : BOOLEAN, pending : BOOLEAN, calls : Seq(GroupCalls), nested : Nat,
   disturbed : BOOLEAN]

(* What is still to be set, unless it has been disturbed, is what the header shows. *)
GroupOK ==
  /\ group \in GroupStates /\ group.visible = (group.container # 0)
  /\ ~group.disturbed =>
       /\ group.calls = <<>> => group.container = group.header
       /\ \A k \in DOMAIN group.calls : group.calls[k].op = "group" => group.calls[k].value = group.header

(* What was told last is what there is. *)
SpinOK == spin \in [value : Int, text : Int, told : Int, again : BOOLEAN] /\ spin.told = spin.value /\ SpinToldOnce

(* The inductive invariant *)
PanelsIInv == TabsOK /\ SplitOK(split) /\ GroupOK /\ SpinOK

-----------------------------------------------------------------------------
(* Clamp returns something within the limits, and the same for that. *)
LEMMA WithinLimits ==
  ASSUME NEW v \in Int, NEW min \in Int, NEW max \in Int
  PROVE  /\ Within(v, min, max) \in Int
         /\ min <= max => Within(v, min, max) \in min..max /\ Within(Within(v, min, max), min, max) = Within(v, min, max)
  BY DEF Within

(* A function on 1..n is a sequence. *)
LEMMA SequenceOf ==
  ASSUME NEW M, NEW n \in Nat, NEW f \in [1..n -> M]
  PROVE  f \in Seq(M) /\ Len(f) = n
  OBVIOUS

(* What removing one place leaves is shorter by one. *)
LEMMA RemovedAt ==
  ASSUME NEW M, NEW list \in Seq(M), NEW i \in 1..Len(list)
  PROVE  RemoveAt(list, i) \in Seq(M) /\ Len(RemoveAt(list, i)) = Len(list) - 1
<1>1. Len(list) \in Nat /\ \A j \in 1..Len(list) : list[j] \in M
  BY ElementOfSeq, LenProperties
<1> DEFINE front == SubSeq(list, 1, i - 1)
           back == SubSeq(list, i + 1, Len(list))
<1>2. front \in Seq(M) /\ Len(front) = i - 1 /\ back \in Seq(M) /\ Len(back) = Len(list) - i
  BY <1>1, SubSeqProperties
<1>3. RemoveAt(list, i) = front \o back
  BY DEF RemoveAt
<1> HIDE DEF front, back
<1>4. front \o back \in Seq(M) /\ Len(front \o back) = Len(front) + Len(back)
  BY <1>2, ConcatProperties
<1> QED
  BY <1>1, <1>2, <1>3, <1>4

(* Choosing another tab shows its page alone. *)
LEMMA PageChosen ==
  ASSUME NEW t \in [pages : Seq(BOOLEAN), pressed : Seq(BOOLEAN), current : Nat, need : BOOLEAN, shown : Nat,
                    kept : BOOLEAN],
         NEW index \in Nat \ {0}, index # t.current, Len(t.pages) = Len(t.pressed), tabs' = PageValue(t, index)
  PROVE  TabsOK' /\ tabs'.need = t.need
<1> DEFINE seen == [i \in DOMAIN t.pages |-> i = index]
           down == [i \in DOMAIN t.pressed |-> i = index]
<1>1. /\ seen \in Seq(BOOLEAN) /\ Len(seen) = Len(t.pages) /\ DOMAIN t.pages = 1..Len(t.pages)
      /\ down \in Seq(BOOLEAN) /\ Len(down) = Len(t.pages) /\ DOMAIN t.pressed = 1..Len(t.pages)
      /\ Len(t.pages) \in Nat
  <2>1. /\ t.pages \in Seq(BOOLEAN) /\ t.pressed \in Seq(BOOLEAN) /\ Len(t.pages) \in Nat
        /\ DOMAIN t.pages = 1..Len(t.pages) /\ DOMAIN t.pressed = 1..Len(t.pages)
    BY LenProperties
  <2>2. seen \in [1..Len(t.pages) -> BOOLEAN] /\ down \in [1..Len(t.pages) -> BOOLEAN]
    BY <2>1
  <2> HIDE DEF seen, down
  <2> QED
    BY <2>1, <2>2, SequenceOf
<1>2. /\ tabs' = [pages |-> seen, pressed |-> down, current |-> index, need |-> t.need, shown |-> Len(t.pages),
                  kept |-> TRUE]
  BY DEF PageValue
<1> HIDE DEF seen, down
<1>3. tabs' \in TabStates /\ Len(tabs'.pages) = Len(tabs'.pressed) /\ tabs'.shown <= Len(tabs'.pages)
  BY <1>1, <1>2 DEF TabStates
<1>4. \A i \in 1..tabs'.shown : tabs'.pages[i] = (i = index) /\ tabs'.pressed[i] = (i = index)
  BY <1>1, <1>2 DEF seen, down
<1> QED
  BY <1>2, <1>3, <1>4 DEF TabsOK, OnlyCurrentShown

(* Whatever is done to a tab container, the page of its tab alone is shown. *)
LEMMA TabsStep ==
  ASSUME PanelsAssumption, TabsOK, TabsNext
  PROVE  TabsOK'
<1>1. tabs \in TabStates /\ Len(tabs.pages) = Len(tabs.pressed) /\ tabs.pages \in Seq(BOOLEAN) /\ tabs.pressed \in Seq(BOOLEAN)
      /\ Len(tabs.pages) \in Nat /\ DOMAIN tabs.pages = 1..Len(tabs.pages)
  BY DEF TabsOK, TabStates
<1>2. ASSUME NEW i \in Nat \ {0}, tabs' = PageValue(tabs, i)
      PROVE  TabsOK'
  <2>1. CASE i = tabs.current
    BY <1>2, <2>1 DEF PageValue, TabsOK, OnlyCurrentShown
  <2>2. CASE i # tabs.current
    BY <1>1, <1>2, <2>2, PageChosen DEF TabStates
  <2> QED
    BY <2>1, <2>2
<1>3. CASE \E i \in 1..MaxPages : SetPage(i)
  BY <1>2, <1>3 DEF SetPage, PanelsAssumption
<1>4. ASSUME NEW i \in DOMAIN tabs.pages, ClickTab(i)
      PROVE  TabsOK'
  BY <1>1, <1>2, <1>4 DEF ClickTab
<1>5. ASSUME NEW i \in DOMAIN tabs.pages, RemovePage(i)
      PROVE  TabsOK'
  <2>1. /\ RemoveAt(tabs.pages, i) \in Seq(BOOLEAN) /\ Len(RemoveAt(tabs.pages, i)) = Len(tabs.pages) - 1
        /\ RemoveAt(tabs.pressed, i) \in Seq(BOOLEAN) /\ Len(RemoveAt(tabs.pressed, i)) = Len(tabs.pages) - 1
    BY <1>1, RemovedAt
  <2> QED
    BY <1>1, <1>5, <2>1 DEF RemovePage, TabsOK, TabStates, OnlyCurrentShown
<1>6. CASE AddPage
  <2> DEFINE seen == Append(tabs.pages, TRUE)
             down == Append(tabs.pressed, FALSE)
  <2>1. /\ seen \in Seq(BOOLEAN) /\ Len(seen) = Len(tabs.pages) + 1 /\ down \in Seq(BOOLEAN) /\ Len(down) = Len(tabs.pages) + 1
        /\ \A j \in 1..Len(tabs.pages) : seen[j] = tabs.pages[j] /\ down[j] = tabs.pressed[j]
    <3>1. TRUE \in BOOLEAN /\ FALSE \in BOOLEAN
      OBVIOUS
    <3>2. seen \in Seq(BOOLEAN) /\ Len(seen) = Len(tabs.pages) + 1 /\ \A j \in 1..Len(tabs.pages) : seen[j] = tabs.pages[j]
      BY <1>1, <3>1, AppendProperties
    <3>3. down \in Seq(BOOLEAN) /\ Len(down) = Len(tabs.pressed) + 1
          /\ \A j \in 1..Len(tabs.pressed) : down[j] = tabs.pressed[j]
      BY <1>1, <3>1, AppendProperties
    <3> QED
      BY <1>1, <3>2, <3>3
  <2> HIDE DEF seen, down
  <2>2. tabs' = [tabs EXCEPT !.pages = seen, !.pressed = down]
    BY <1>6 DEF AddPage, seen, down
  <2>3. tabs' \in TabStates /\ Len(tabs'.pages) = Len(tabs'.pressed) /\ (tabs'.kept => tabs'.shown <= Len(tabs'.pages))
    <3>1. tabs.kept => tabs.shown <= Len(tabs.pages)
      BY DEF TabsOK
    <3> QED
      <4>1. tabs' \in TabStates
        BY <1>1, <2>1, <2>2 DEF TabStates
      <4>2. tabs'.pages = seen /\ tabs'.pressed = down /\ tabs'.shown = tabs.shown /\ tabs'.kept = tabs.kept /\ tabs.shown \in Nat
        BY <1>1, <2>2 DEF TabStates
      <4> QED
        BY <1>1, <2>1, <3>1, <4>1, <4>2
  <2>4. OnlyCurrentShown'
    <3> SUFFICES ASSUME ~tabs'.need, tabs'.kept, NEW j \in 1..tabs'.shown
                 PROVE  tabs'.pages[j] = (j = tabs'.current) /\ tabs'.pressed[j] = (j = tabs'.current)
      BY DEF OnlyCurrentShown
    <3>1. ~tabs.need /\ tabs.kept /\ j \in 1..tabs.shown /\ tabs.shown <= Len(tabs.pages) /\ tabs.current = tabs'.current
          /\ tabs'.pages = seen /\ tabs'.pressed = down
      BY <1>1, <2>2 DEF TabStates, TabsOK
    <3>2. tabs.pages[j] = (j = tabs.current) /\ tabs.pressed[j] = (j = tabs.current)
      BY <3>1 DEF TabsOK, OnlyCurrentShown
    <3>3. j \in 1..Len(tabs.pages)
      BY <1>1, <3>1 DEF TabStates
    <3> QED
      BY <2>1, <3>1, <3>2, <3>3
  <2> QED
    BY <2>3, <2>4 DEF TabsOK
<1>7. CASE UpdatePages
  <2> DEFINE t == [tabs EXCEPT !.need = FALSE, !.current = 0]
  <2>1. /\ t \in [pages : Seq(BOOLEAN), pressed : Seq(BOOLEAN), current : Nat, need : BOOLEAN, shown : Nat, kept : BOOLEAN]
        /\ t.pages = tabs.pages /\ t.pressed = tabs.pressed /\ t.current = 0
    BY <1>1 DEF TabStates
  <2>2. tabs.current \in Nat \ {0} /\ tabs' = PageValue(t, tabs.current)
    BY <1>1, <1>7 DEF TabStates, UpdatePages
  <2> HIDE DEF t
  <2> QED
    BY <1>1, <2>1, <2>2, PageChosen
<1> QED
  BY <1>3, <1>4, <1>5, <1>6, <1>7 DEF TabsNext

-----------------------------------------------------------------------------
(* The parts of a split container that changes leave alone *)
Same(s, t) ==
  /\ t.size = s.size /\ t.axis = s.axis /\ t.fixed = s.fixed /\ t.min = s.min /\ t.rects = s.rects
  /\ t.grab = s.grab /\ t.at = s.at

(* Setting a split container *)
LEMMA SplitSet ==
  ASSUME PanelsAssumption, NEW s \in SplitStates, NEW v \in Int
  PROVE  LET t == SplitValue(s, v)
         IN  /\ t \in SplitStates /\ Same(s, t) /\ t.initial = s.initial /\ t.held = s.held
             /\ t.value = Within(v, s.min, computed_max_value(s)) /\ computed_max_value(s) \in Int
             /\ computed_max_value(t) = computed_max_value(s) /\ Across(t) = Across(s) /\ Across(s) \in Nat
             /\ ~t.invalid => ~s.invalid /\ t.value = s.value
<1> DEFINE t == SplitValue(s, v)
           w == Within(v, s.min, computed_max_value(s))
<1>1. computed_max_value(s) \in Int /\ Across(s) \in Nat
  BY DEF computed_max_value, Across, Most, PanelsAssumption, SplitStates
<1>2. w \in Int
  BY <1>1 DEF Within, SplitStates
<1>3. t = IF w = s.value THEN s ELSE [s EXCEPT !.value = w, !.invalid = TRUE]
  BY DEF SplitValue
<1> HIDE DEF t, w
<1>4. t \in SplitStates /\ Same(s, t) /\ t.initial = s.initial /\ t.held = s.held /\ t.value = w
      /\ (~t.invalid => ~s.invalid /\ t.value = s.value)
  BY <1>2, <1>3 DEF SplitStates, Same
<1>5. Across(t) = Across(s) /\ computed_max_value(t) = computed_max_value(s)
  BY <1>4 DEF Across, computed_max_value, Same
<1> QED
  BY <1>1, <1>4, <1>5 DEF t, w

(* Laying it out puts the divider where it is set. *)
LEMMA SplitLaidOut ==
  ASSUME PanelsAssumption, NEW s \in SplitStates, s.initial >= 0 => s.grab = -1 /\ ~s.held,
         s.held /\ s.fixed = "first" => s.value = Within(s.at - s.grab, s.min, computed_max_value(s))
  PROVE  SplitOK(ValidateSplit(s))
<1> DEFINE t == IF s.initial >= 0 THEN [SplitValue(s, s.initial) EXCEPT !.initial = -1] ELSE s
           rest == Across(t) - t.value - Splitter
           divider == IF t.fixed = "first" THEN t.value ELSE rest
           pieces == [first |-> <<0, divider>>, divider |-> <<divider, Splitter>>,
                      second |-> <<divider + Splitter, IF t.fixed = "first" THEN rest ELSE t.value>>]
<1>1. t \in SplitStates /\ t.initial < 0 /\ Across(t) \in Nat
      /\ (t.held /\ t.fixed = "first" => t.value = Within(t.at - t.grab, t.min, computed_max_value(t)))
  <2>1. CASE s.initial >= 0
    <3> DEFINE u == SplitValue(s, s.initial)
    <3>1. u \in SplitStates /\ Same(s, u) /\ u.held = s.held /\ Across(u) \in Nat
      <4>1. s.initial \in Int
        BY DEF SplitStates
      <4> QED
        BY <4>1, SplitSet
    <3>2. t = [u EXCEPT !.initial = -1]
      BY <2>1
    <3> HIDE DEF u, t
    <3>3. t \in SplitStates /\ t.initial = -1 /\ t.held = u.held /\ t.axis = u.axis /\ t.size = u.size
      BY <3>1, <3>2 DEF SplitStates
    <3> QED
      BY <2>1, <3>1, <3>3 DEF Across
  <2>2. CASE ~(s.initial >= 0)
    <3>1. Across(s) \in Nat
      BY DEF SplitStates, Across
    <3> QED
      BY <2>2, <3>1 DEF SplitStates
  <2> QED
    BY <2>1, <2>2
<1>2. ValidateSplit(s) = [t EXCEPT !.invalid = FALSE, !.rects = pieces]
  BY DEF ValidateSplit
<1> HIDE DEF t
<1>3. pieces \in Pieces /\ pieces.divider[1] = divider
  BY <1>1 DEF Pieces, SplitStates, PanelsAssumption
<1> HIDE DEF pieces
<1>4. ValidateSplit(s) \in SplitStates
  BY <1>1, <1>2, <1>3 DEF SplitStates
<1> DEFINE w == ValidateSplit(s)
<1>5. Same([t EXCEPT !.rects = pieces], w) /\ w.held = t.held /\ w.value = t.value /\ w.initial = t.initial /\ ~w.invalid
      /\ w.rects = pieces /\ w.size = t.size /\ w.axis = t.axis /\ w.fixed = t.fixed /\ w.min = t.min
      /\ w.at = t.at /\ w.grab = t.grab
  BY <1>1, <1>2 DEF SplitStates, Same
<1>6. computed_max_value(w) = computed_max_value(t)
  BY <1>5 DEF computed_max_value, Across
<1> HIDE DEF w
<1> QED
  BY <1>1, <1>3, <1>4, <1>5, <1>6 DEF SplitOK, w, SplitStates

(* Setting it keeps what is said of it, if something else has moved it. *)
LEMMA SetElsewhere ==
  ASSUME PanelsAssumption, NEW s \in SplitStates, NEW v \in Int,
         s.initial >= 0 => s.rects.divider[2] = 0 /\ s.grab = -1,
         ~s.invalid /\ s.fixed = "first" => s.rects.divider[1] = s.value
  PROVE  SplitOK(Elsewhere(SplitValue(s, v)))
<1> DEFINE t == SplitValue(s, v)
           u == Elsewhere(t)
<1>1. /\ t \in SplitStates /\ Same(s, t) /\ t.initial = s.initial
      /\ ~t.invalid => ~s.invalid /\ t.value = s.value
  BY SplitSet
<1> HIDE DEF t
<1>2. u \in SplitStates /\ Same(t, u) /\ u.initial = t.initial /\ u.value = t.value /\ u.invalid = t.invalid /\ ~u.held
  BY <1>1 DEF Elsewhere, SplitStates, Same
<1> HIDE DEF u
<1>3. SplitOK(u)
  BY <1>1, <1>2 DEF SplitOK, Same
<1> QED
  BY <1>3 DEF u, t

(* Whatever is done to a split container, its divider is where it was set. *)
LEMMA SplitStep ==
  ASSUME PanelsAssumption, SplitOK(split), SplitNext
  PROVE  SplitOK(split')
<1>1. split \in SplitStates /\ split.value \in Int /\ split.min \in Nat /\ split.at \in Int /\ split.grab \in Int
  BY DEF SplitOK, SplitStates
<1>2. computed_max_value(split) \in Int /\ Across(split) \in Nat
  BY <1>1, SplitSet
<1>3. ASSUME NEW axis \in {"x", "y"}, SetAxis(axis)
      PROVE  SplitOK(split')
  <2>1. split' = [split EXCEPT !.axis = axis, !.invalid = @ \/ axis # split.axis, !.held = FALSE]
    BY <1>1, <1>3 DEF SetAxis, Elsewhere, SplitStates
  <2>2. /\ split' \in SplitStates /\ ~split'.held /\ split'.initial = split.initial /\ split'.grab = split.grab
        /\ split'.rects = split.rects /\ split'.fixed = split.fixed /\ split'.value = split.value
        /\ ~split'.invalid => ~split.invalid
    BY <1>1, <2>1 DEF SplitStates
  <2> QED
    BY <2>2 DEF SplitOK
<1>4. ASSUME NEW pane \in {"first", "second"}, SetFixedPane(pane)
      PROVE  SplitOK(split')
  <2>1. split' = [split EXCEPT !.fixed = pane, !.invalid = @ \/ pane # split.fixed, !.held = FALSE]
    BY <1>1, <1>4 DEF SetFixedPane, Elsewhere, SplitStates
  <2>2. /\ split' \in SplitStates /\ ~split'.held /\ split'.initial = split.initial /\ split'.grab = split.grab
        /\ split'.rects = split.rects /\ split'.value = split.value
        /\ ~split'.invalid => ~split.invalid /\ split'.fixed = split.fixed
    BY <1>1, <2>1 DEF SplitStates
  <2> QED
    BY <2>2 DEF SplitOK
<1>5. ASSUME NEW min \in Minima, SetMinimum(min)
      PROVE  SplitOK(split')
  <2> DEFINE s == [split EXCEPT !.min = min]
  <2>1. min \in Nat
    BY DEF PanelsAssumption
  <2>2. s \in SplitStates /\ s.initial = split.initial /\ s.rects = split.rects /\ s.grab = split.grab
        /\ s.invalid = split.invalid /\ s.fixed = split.fixed /\ s.value = split.value
    BY <1>1, <2>1 DEF SplitStates
  <2>3. split' = Elsewhere(SplitValue(s, split.value))
    BY <1>5 DEF SetMinimum
  <2> HIDE DEF s
  <2> QED
    BY <1>1, <2>2, <2>3, SetElsewhere DEF SplitOK
<1>6. ASSUME NEW v \in Int, split' = Elsewhere(SplitValue(split, v))
      PROVE  SplitOK(split')
  BY <1>1, <1>6, SetElsewhere DEF SplitOK
<1>7. CASE \E v \in Lengths : SetSplit(v)
  BY <1>6, <1>7 DEF SetSplit, PanelsAssumption
<1>8. ASSUME NEW steps \in {-1, 1}, DividerKey(steps)
      PROVE  SplitOK(split')
  <2> DEFINE by == IF split.fixed = "first" THEN steps ELSE -steps
  <2>1. by \in {-1, 1} /\ Splitter \in Nat
    BY DEF PanelsAssumption
  <2>2. split.value + by * Splitter \in Int
    BY <1>1, <2>1
  <2>3. split' = Elsewhere(SplitValue(split, split.value + by * Splitter))
    BY <1>8 DEF DividerKey, Step
  <2> QED
    BY <1>6, <2>2, <2>3
<1>9. CASE DoubleClick
  BY <1>1, <1>2, <1>6, <1>9 DEF DoubleClick
<1>10. ASSUME NEW s \in SplitStates, s.initial >= 0 => s.grab = -1 /\ ~s.held,
              s.held /\ s.fixed = "first" => s.value = Within(s.at - s.grab, s.min, computed_max_value(s)),
              split' = ValidateSplit(s)
       PROVE  SplitOK(split')
  BY <1>10, SplitLaidOut
<1>11. CASE SplitProcess
  BY <1>1, <1>10, <1>11 DEF SplitProcess, SplitOK
<1>12. ASSUME NEW x \in Lengths, NEW y \in Lengths, OnResized([x |-> x, y |-> y])
       PROVE  SplitOK(split')
  <2> DEFINE s == [split EXCEPT !.size = [x |-> x, y |-> y]]
             w == ValidateSplit([s EXCEPT !.held = FALSE])
  <2>1. x \in Nat /\ y \in Nat
    BY DEF PanelsAssumption
  <2>2. s \in SplitStates /\ s.initial = split.initial /\ s.grab = split.grab /\ s.held = split.held
    BY <1>1, <2>1 DEF SplitStates
  <2> HIDE DEF s
  <2>3. split' = Elsewhere(ValidateSplit(s))
    BY <1>12 DEF OnResized, s
  <2>4. CASE split.initial >= 0
    <3>1. SplitOK(ValidateSplit(s))
      BY <2>2, <2>4, SplitLaidOut DEF SplitOK
    <3> QED
      BY <2>3, <3>1 DEF Elsewhere, SplitOK, SplitStates
  <2>5. CASE split.initial < 0
    <3> DEFINE u == [s EXCEPT !.held = FALSE]
    <3>1. u \in SplitStates /\ ~u.held /\ u.initial = split.initial /\ u.initial < 0
      BY <2>2, <2>5 DEF SplitStates
    <3>2. Elsewhere(ValidateSplit(s)) = ValidateSplit(u)
      <4>1. s.initial < 0 /\ s.initial \in Int /\ u.initial \in Int
        BY <2>2, <2>5, <3>1 DEF SplitStates
      <4>2. /\ u.fixed = s.fixed /\ u.value = s.value /\ u.size = s.size /\ u.axis = s.axis
        BY <2>2 DEF SplitStates
      <4>3. ~(s.initial >= 0) /\ ~(u.initial >= 0)
        BY <3>1, <4>1
      <4> DEFINE divider == IF s.fixed = "first" THEN s.value ELSE Across(s) - s.value - Splitter
                 pieces == [first |-> <<0, divider>>, divider |-> <<divider, Splitter>>,
                            second |-> <<divider + Splitter, IF s.fixed = "first" THEN Across(s) - s.value - Splitter ELSE s.value>>]
      <4>4. Across(u) = Across(s)
        BY <4>2 DEF Across
      <4> HIDE DEF u
      <4>5. ValidateSplit(s) = [s EXCEPT !.invalid = FALSE, !.rects = pieces]
        BY <4>3 DEF ValidateSplit
      <4>6. ValidateSplit(u) = [u EXCEPT !.invalid = FALSE, !.rects = pieces]
        BY <4>2, <4>3, <4>4 DEF ValidateSplit
      <4> HIDE DEF pieces
      <4> QED
        BY <2>2, <4>5, <4>6 DEF Elsewhere, SplitStates, u
    <3> HIDE DEF u
    <3> QED
      BY <2>3, <3>1, <3>2, SplitLaidOut DEF SplitStates
  <2> QED
    BY <1>1, <2>4, <2>5 DEF SplitStates
<1>13. ASSUME NEW i \in Int, NEW at \in Int, split.initial >= 0 => i = -1,
              split' = [split EXCEPT !.grab = i, !.at = at, !.held = FALSE]
       PROVE  SplitOK(split')
  <2>1. /\ split' \in SplitStates /\ split'.grab = i /\ ~split'.held /\ split'.initial = split.initial
        /\ split'.rects = split.rects /\ split'.invalid = split.invalid /\ split'.fixed = split.fixed
        /\ split'.value = split.value
    BY <1>1, <1>13 DEF SplitStates
  <2> QED
    BY <1>13, <2>1 DEF SplitOK
<1>14. ASSUME NEW at \in Places, Grab(at)
       PROVE  SplitOK(split')
  <2>1. at \in Int /\ split.rects.divider[1] \in Int /\ split.rects.divider[2] \in Int
    BY <1>1 DEF PanelsAssumption, SplitStates, Pieces
  <2>2. /\ split' = [split EXCEPT !.grab = at - split.rects.divider[1], !.at = at, !.held = FALSE]
        /\ at - split.rects.divider[1] \in 0..split.rects.divider[2] - 1
    BY <1>14 DEF Grab
  <2>3. ~(split.initial >= 0)
    BY <2>1, <2>2 DEF SplitOK
  <2>4. at - split.rects.divider[1] \in Int
    BY <2>1
  <2> QED
    BY <1>13, <2>1, <2>2, <2>3, <2>4
<1>15. CASE ReleaseDivider
  <2>1. split' = [split EXCEPT !.grab = -1, !.at = 0, !.held = FALSE] /\ -1 \in Int /\ 0 \in Int
    BY <1>15 DEF ReleaseDivider
  <2> QED
    BY <1>13, <2>1
<1>16. ASSUME NEW at \in Places, Drag(at)
       PROVE  SplitOK(split')
  <2> DEFINE v == Dragged(split, at)
             t == SplitValue(split, v)
  <2>1. at \in Int /\ split.rects.divider[1] \in Int
    BY <1>1 DEF PanelsAssumption, SplitStates, Pieces
  <2>2. v \in Int /\ (split.fixed = "first" => v = at - split.grab)
    BY <1>1, <1>2, <2>1 DEF Dragged
  <2>3. split.grab # -1 /\ split' = [t EXCEPT !.at = at, !.held = TRUE]
    BY <1>16 DEF Drag
  <2> HIDE DEF v
  <2>4. /\ t \in SplitStates /\ Same(split, t) /\ t.initial = split.initial
        /\ t.value = Within(v, split.min, computed_max_value(split))
        /\ computed_max_value(t) = computed_max_value(split)
        /\ ~t.invalid => ~split.invalid /\ t.value = split.value
    BY <1>1, <2>2, SplitSet
  <2> HIDE DEF t
  <2>5. split' \in SplitStates
    BY <2>1, <2>3, <2>4 DEF SplitStates
  <2>6. /\ split'.at = at /\ split'.held /\ split'.grab = split.grab /\ split'.fixed = split.fixed /\ split'.min = split.min
        /\ split'.initial = split.initial /\ split'.value = t.value /\ split'.invalid = t.invalid
        /\ split'.rects = split.rects /\ split'.size = split.size /\ split'.axis = split.axis
    BY <1>1, <2>3, <2>4 DEF SplitStates, Same
  <2>7. computed_max_value(split') = computed_max_value(split)
    BY <2>6 DEF computed_max_value, Across
  <2> QED
    BY <2>2, <2>3, <2>4, <2>5, <2>6, <2>7 DEF SplitOK
<1> QED
  BY <1>3, <1>4, <1>5, <1>7, <1>8, <1>9, <1>11, <1>12, <1>14, <1>15, <1>16 DEF SplitNext

-----------------------------------------------------------------------------
(* A group box whose container is set to something is still a group box. *)
LEMMA ContainerSet ==
  ASSUME NEW s \in GroupStates, NEW v \in {0, 1}, NEW shown \in BOOLEAN
  PROVE  [s EXCEPT !.container = v, !.visible = shown] \in GroupStates
  BY DEF GroupStates

(* Setting the header sets the container too, if nothing is left to be done. *)
LEMMA GroupSet ==
  ASSUME NEW g \in GroupStates, g.visible = (g.container # 0), NEW v \in {0, 1}, group' = GroupValue(g, v),
         \A k \in DOMAIN g.calls : g.calls[k].op = "group" => g.disturbed
  PROVE  GroupOK'
<1>1. CASE v = g.header
  BY <1>1 DEF GroupValue, ContainerValue, GroupOK, GroupStates
<1>2. CASE v # g.header
  <2> DEFINE call == [op |-> "group", value |-> v]
  <2>1. /\ Append(g.calls, call) \in Seq(GroupCalls) /\ Append(g.calls, call) # <<>>
        /\ DOMAIN Append(g.calls, call) = 1..Len(g.calls) + 1 /\ DOMAIN g.calls = 1..Len(g.calls)
        /\ \A k \in 1..Len(g.calls) : Append(g.calls, call)[k] = g.calls[k]
        /\ Append(g.calls, call)[Len(g.calls) + 1] = call /\ Len(g.calls) \in Nat
    <3>1. call \in GroupCalls /\ g.calls \in Seq(GroupCalls)
      BY DEF GroupCalls, GroupStates
    <3> HIDE DEF call
    <3> QED
      BY <3>1, AppendProperties, LenProperties
  <2>2. group' = [g EXCEPT !.header = v, !.calls = Append(g.calls, call)]
    BY <1>2 DEF GroupValue
  <2>3. group' \in GroupStates /\ group'.visible = (group'.container # 0) /\ group'.calls = Append(g.calls, call)
        /\ group'.header = v /\ group'.disturbed = g.disturbed
    BY <2>1, <2>2 DEF GroupStates
  <2>4. ASSUME ~g.disturbed, NEW k \in 1..Len(g.calls) + 1, Append(g.calls, call)[k].op = "group"
        PROVE  Append(g.calls, call)[k].value = v
    <3>1. CASE k = Len(g.calls) + 1
      BY <2>1, <3>1
    <3>2. CASE k \in 1..Len(g.calls)
      BY <2>1, <2>4, <3>2
    <3> QED
      BY <2>1, <3>1, <3>2
  <2> HIDE DEF call
  <2> QED
    BY <2>1, <2>3, <2>4 DEF GroupOK
<1> QED
  BY <1>1, <1>2

(* Whatever is done to a group box, what is left to do agrees with its header. *)
LEMMA GroupStep ==
  ASSUME PanelsAssumption, GroupOK, GroupNext
  PROVE  GroupOK'
<1>1. group \in GroupStates /\ group.visible = (group.container # 0) /\ group.calls \in Seq(GroupCalls)
  BY DEF GroupOK, GroupStates
<1>2. ASSUME NEW v \in {0, 1}, SetGroup(v)
      PROVE  GroupOK'
  <2> DEFINE g == [group EXCEPT !.disturbed = FALSE]
  <2>1. g \in GroupStates /\ g.visible = (g.container # 0) /\ g.calls = <<>> /\ group' = GroupValue(g, v)
    BY <1>1, <1>2 DEF SetGroup, GroupStates
  <2> HIDE DEF g
  <2> QED
    BY <2>1, GroupSet
<1>3. ASSUME NEW v \in {0, 1}, SetAgain(v)
      PROVE  GroupOK'
  <2> DEFINE waits == \E k \in DOMAIN group.calls : group.calls[k].op = "group"
             g == [group EXCEPT !.nested = @ + 1, !.disturbed = @ \/ waits]
  <2>1. /\ g \in GroupStates /\ g.visible = (g.container # 0) /\ g.calls = group.calls /\ g.disturbed = (group.disturbed \/ waits)
    <3>1. waits \in BOOLEAN
      OBVIOUS
    <3> HIDE DEF waits
    <3>2. (group.disturbed \/ waits) \in BOOLEAN /\ group.nested + 1 \in Nat
      BY <1>1, <3>1 DEF GroupStates
    <3> DEFINE disturbed == group.disturbed \/ waits
    <3>3. g = [group EXCEPT !.nested = @ + 1, !.disturbed = disturbed]
      OBVIOUS
    <3> HIDE DEF disturbed, g
    <3>4. g \in GroupStates /\ g.visible = (g.container # 0) /\ g.calls = group.calls /\ g.disturbed = disturbed
      BY <1>1, <3>2, <3>3 DEF GroupStates, disturbed
    <3> QED
      BY <3>4 DEF disturbed
  <2>2. group' = GroupValue(g, v)
    BY <1>3 DEF SetAgain
  <2>3. \A k \in DOMAIN g.calls : g.calls[k].op = "group" => g.disturbed
    BY <2>1
  <2> HIDE DEF g, waits
  <2> QED
    BY <2>1, <2>2, <2>3, GroupSet
<1>4. CASE ClickHeader
  <2>1. group' = [group EXCEPT !.header = 1 - @, !.calls = <<[op |-> "click", value |-> 0]>>, !.disturbed = FALSE]
    BY <1>4 DEF ClickHeader
  <2>2. 1 - group.header \in {0, 1}
    BY <1>1 DEF GroupStates
  <2> DEFINE click == <<[op |-> "click", value |-> 0]>>
  <2>3. click \in Seq(GroupCalls) /\ click # <<>> /\ \A k \in DOMAIN click : click[k].op = "click"
    BY DEF GroupCalls
  <2>4. group' = [group EXCEPT !.header = 1 - @, !.calls = click, !.disturbed = FALSE]
    BY <2>1
  <2> HIDE DEF click
  <2>5. group' \in GroupStates /\ group'.visible = (group'.container # 0) /\ group'.calls = click
    BY <1>1, <2>2, <2>3, <2>4 DEF GroupStates
  <2> QED
    BY <2>3, <2>5 DEF GroupOK
<1>5. CASE HeaderChanged
  <2> DEFINE top == Last(group.calls)
             told == [ContainerValue(group, group.header) EXCEPT !.pending = group.header # 0]
             g == IF top.op = "group" THEN ContainerValue(told, top.value) ELSE told
             left == Front(group.calls)
  <2>1. /\ group.calls # <<>>
        /\ group' = [g EXCEPT !.calls = left, !.nested = IF Len(group.calls) = 1 THEN 0 ELSE @]
    BY <1>5 DEF HeaderChanged, ContainerValue
  <2>2. /\ top = group.calls[Len(group.calls)] /\ top \in GroupCalls /\ Len(group.calls) \in DOMAIN group.calls
        /\ left \in Seq(GroupCalls) /\ DOMAIN left \subseteq DOMAIN group.calls
        /\ \A k \in DOMAIN left : left[k] = group.calls[k]
    <3>1. /\ Len(group.calls) \in Nat /\ Len(group.calls) \in 1..Len(group.calls) /\ group.calls[Len(group.calls)] \in GroupCalls
          /\ \A k \in 1..Len(group.calls) : group.calls[k] \in GroupCalls /\ DOMAIN group.calls = 1..Len(group.calls)
      BY <1>1, <2>1, PopProperties, ElementOfSeq, LenProperties
    <3>2. left = SubSeq(group.calls, 1, Len(group.calls) - 1)
      BY DEF Front
    <3>3. /\ left \in Seq(GroupCalls) /\ Len(left) = Len(group.calls) - 1
          /\ \A k \in 1..Len(group.calls) - 1 : left[k] = group.calls[k]
      BY <3>1, <3>2, SubSeqProperties
    <3> QED
      BY <3>1, <3>3, LenProperties DEF Last
  <2>3. /\ told = [group EXCEPT !.container = group.header, !.visible = group.header # 0, !.pending = group.header # 0]
        /\ told \in GroupStates /\ told.visible = (told.container # 0) /\ told.container = group.header
        /\ told.header = group.header /\ told.disturbed = group.disturbed /\ told.calls = group.calls
    BY <1>1 DEF ContainerValue, GroupStates
  <2> HIDE DEF told
  <2>4. /\ g \in GroupStates /\ g.visible = (g.container # 0) /\ g.header = group.header /\ g.disturbed = group.disturbed
        /\ top.op = "group" => g.container = top.value
        /\ top.op # "group" => g.container = group.header
    <3>1. top.value \in {0, 1} /\ top.op \in {"group", "click"}
      BY <2>2 DEF GroupCalls
    <3>2. CASE top.op = "group"
      <4>1. g = [told EXCEPT !.container = top.value, !.visible = top.value # 0]
        BY <3>2 DEF ContainerValue
      <4> HIDE DEF g, top
      <4>2. g \in GroupStates
        <5>1. told \in GroupStates /\ top.value \in {0, 1} /\ (top.value # 0) \in BOOLEAN
          BY <2>3, <3>1
        <5> QED
          BY <4>1, <5>1, ContainerSet, Zenon
      <4>3. /\ g.container = top.value /\ g.visible = (top.value # 0) /\ g.header = told.header
            /\ g.disturbed = told.disturbed
        BY <2>3, <4>1 DEF GroupStates
      <4> QED
        BY <2>3, <3>2, <4>2, <4>3
    <3>3. CASE top.op # "group"
      <4>1. g = told
        BY <3>3
      <4> QED
        BY <2>3, <3>3, <4>1
    <3> QED
      BY <3>2, <3>3
  <2> HIDE DEF g, top, left
  <2>5. ~group.disturbed => g.container = group.header
    BY <2>2, <2>4 DEF GroupOK
  <2>6. /\ group' \in GroupStates /\ group'.visible = (group'.container # 0) /\ group'.container = g.container
        /\ group'.header = g.header /\ group'.disturbed = g.disturbed /\ group'.calls = left
    BY <2>1, <2>2, <2>4 DEF GroupStates
  <2> QED
    BY <2>2, <2>4, <2>5, <2>6 DEF GroupOK
<1>6. CASE GroupProcessed
  BY <1>1, <1>6 DEF GroupProcessed, GroupOK, GroupStates
<1> QED
  BY <1>2, <1>3, <1>4, <1>5, <1>6 DEF GroupNext

-----------------------------------------------------------------------------
(* Whatever is done to a spin box, its text is for its value, and that was told. *)
LEMMA SpinStep ==
  ASSUME PanelsAssumption, SpinOK, SpinNext
  PROVE  SpinOK'
<1> DEFINE Spins == [value : Int, text : Int, told : Int, again : BOOLEAN]
           Limited(v) == Within(v, SpinLimits.min, SpinLimits.max)
<1>1. /\ spin \in Spins /\ spin.told = spin.value /\ ~spin.again /\ Limited(spin.text) = spin.value
  BY DEF SpinOK, SpinToldOnce
<1>2. /\ SpinLimits.min \in Int /\ SpinLimits.max \in Int /\ SpinLimits.min <= SpinLimits.max /\ Typed \subseteq Int
  BY DEF PanelsAssumption
<1>3. \A v \in Int : Limited(v) \in Int /\ Limited(Limited(v)) = Limited(v)
  BY <1>2, WithinLimits
<1>4. ASSUME NEW s \in Spins, s.told = s.value, ~s.again, NEW v \in Int, NEW update_text \in BOOLEAN,
             update_text => Limited(s.text) = s.value, ~update_text => s.text = v,
             spin' = SetValueInternal(s, v, update_text)
      PROVE  SpinOK'
  <2> HIDE DEF Limited
  <2>1. spin' = IF Limited(v) = s.value THEN s
                ELSE [s EXCEPT !.value = Limited(v), !.text = IF update_text THEN Limited(v) ELSE @,
                               !.told = Limited(v), !.again = @ \/ Limited(v) = s.told]
    BY <1>4 DEF SetValueInternal, Limited
  <2>2. CASE Limited(v) = s.value
    BY <1>3, <1>4, <2>1, <2>2 DEF SpinOK, SpinToldOnce, Limited
  <2>3. CASE Limited(v) # s.value
    <3>1. /\ spin' \in Spins /\ spin'.told = Limited(v) /\ spin'.value = Limited(v) /\ ~spin'.again
          /\ spin'.text = IF update_text THEN Limited(v) ELSE s.text
      BY <1>3, <1>4, <2>1, <2>3
    <3>2. Limited(spin'.text) = spin'.value
      BY <1>3, <1>4, <3>1
    <3> QED
      BY <3>1, <3>2 DEF SpinOK, SpinToldOnce, Limited
  <2> QED
    BY <2>2, <2>3
<1>5. ASSUME NEW v \in Int, spin' = SetValueInternal(spin, v, TRUE)
      PROVE  SpinOK'
  BY <1>1, <1>4, <1>5
<1>6. ASSUME NEW text \in Typed, Type(text)
      PROVE  SpinOK'
  <2> DEFINE s == [spin EXCEPT !.text = text]
  <2>1. text \in Int /\ s \in Spins /\ s.told = s.value /\ ~s.again /\ s.text = text /\ spin' = SetValueInternal(s, text, FALSE)
    BY <1>1, <1>2, <1>6 DEF Type
  <2> HIDE DEF s
  <2> QED
    BY <1>4, <2>1
<1>7. CASE \E text \in Typed : SetSpin(text)
  BY <1>2, <1>5, <1>7 DEF SetSpin
<1>8. ASSUME NEW step \in {-1, 1}, SpinButton(step)
      PROVE  SpinOK'
  <2>1. spin.value + step \in Int
    BY <1>1
  <2> QED
    BY <1>5, <1>8, <2>1 DEF SpinButton
<1> QED
  BY <1>6, <1>7, <1>8 DEF SpinNext

-----------------------------------------------------------------------------
(* So it is at first. *)
LEMMA PanelsStart ==
  ASSUME PanelsAssumption, InitPanels
  PROVE  PanelsIInv
<1>1. TabsOK
  BY DEF InitPanels, TabsOK, TabStates, OnlyCurrentShown
<1>2. SplitOK(split)
  <2>1. split.rects \in Pieces
    BY DEF InitPanels, Pieces
  <2> QED
    BY <2>1 DEF InitPanels, SplitOK, SplitStates
<1>3. GroupOK
  <2>1. <<>> \in Seq(GroupCalls) /\ DOMAIN <<>> = {}
    BY EmptySeq
  <2>2. group \in GroupStates
    BY <2>1 DEF InitPanels, GroupStates
  <2> QED
    BY <2>1, <2>2 DEF InitPanels, GroupOK
<1>4. SpinOK
  <2> DEFINE v == Within(0, SpinLimits.min, SpinLimits.max)
  <2>1. v \in Int /\ Within(v, SpinLimits.min, SpinLimits.max) = v
    <3>1. SpinLimits.min \in Int /\ SpinLimits.max \in Int /\ SpinLimits.min <= SpinLimits.max
      BY DEF PanelsAssumption
    <3>2. Within(0, SpinLimits.min, SpinLimits.max) \in Int
          /\ Within(Within(0, SpinLimits.min, SpinLimits.max), SpinLimits.min, SpinLimits.max)
               = Within(0, SpinLimits.min, SpinLimits.max)
      BY <3>1 DEF Within
    <3> QED
      BY <3>2
  <2>2. spin = [value |-> v, text |-> v, told |-> v, again |-> FALSE]
    BY DEF InitPanels
  <2> HIDE DEF v
  <2> QED
    BY <2>1, <2>2 DEF SpinOK, SpinToldOnce
<1> QED
  BY <1>1, <1>2, <1>3, <1>4 DEF PanelsIInv

(* Of any tab container, split container, group box and spin box, however they
   are set, dragged, changed and told, and whatever handlers do in between: the
   page of the tab is shown alone, the divider is laid out where the pointer has
   it, the container is expanded when the header is on, and each value of the
   spin box is told once (tab_container.cc, split_container.cc, group_box.cc,
   spin_box.cc). *)
THEOREM PanelsSafe ==
  ASSUME PanelsAssumption
  PROVE  PanelsSpec => []PanelsFollow
<1>1. InitPanels => PanelsIInv
  BY PanelsStart
<1>2. PanelsIInv /\ [PanelsNext]_panelsVars => PanelsIInv'
  <2> SUFFICES ASSUME PanelsIInv, [PanelsNext]_panelsVars
               PROVE  PanelsIInv'
    OBVIOUS
  <2>1. tabs' = tabs => TabsOK'
    BY DEF PanelsIInv, TabsOK, OnlyCurrentShown
  <2>2. split' = split => SplitOK(split')
    BY DEF PanelsIInv
  <2>3. group' = group => GroupOK'
    BY DEF PanelsIInv, GroupOK
  <2>4. spin' = spin => SpinOK'
    BY DEF PanelsIInv, SpinOK, SpinToldOnce
  <2>5. CASE UNCHANGED panelsVars
    BY <2>1, <2>2, <2>3, <2>4, <2>5 DEF PanelsIInv, panelsVars
  <2>6. CASE TabsNext /\ UNCHANGED <<split, group, spin>>
    BY <2>2, <2>3, <2>4, <2>6, TabsStep DEF PanelsIInv
  <2>7. CASE SplitNext /\ UNCHANGED <<tabs, group, spin>>
    BY <2>1, <2>3, <2>4, <2>7, SplitStep DEF PanelsIInv
  <2>8. CASE GroupNext /\ UNCHANGED <<tabs, split, spin>>
    BY <2>1, <2>2, <2>4, <2>8, GroupStep DEF PanelsIInv
  <2>9. CASE SpinNext /\ UNCHANGED <<tabs, split, group>>
    BY <2>1, <2>2, <2>3, <2>9, SpinStep DEF PanelsIInv
  <2> QED
    BY <2>5, <2>6, <2>7, <2>8, <2>9 DEF PanelsNext
<1>3. PanelsIInv => PanelsFollow
  BY DEF PanelsIInv, TabsOK, SplitOK, GroupOK, GroupStates, SpinOK, PanelsFollow, OnlyCurrentShown, DividerFollowsPointer,
         HeaderAgrees, SpinToldOnce
<1> QED
  BY <1>1, <1>2, <1>3, PTL DEF PanelsSpec

-----------------------------------------------------------------------------
(* Text boxes *)

(* A box that is laid out has room. *)
HasRoom == \A rect \in Rects : rect.h > 0

Boxes ==
  [multiline : BOOLEAN, wrapping : BOOLEAN, adapt : BOOLEAN, read_only : BOOLEAN, lines : Nat, caret : Nat,
   select : Nat, from : Int, to : Int, down : Int, on : BOOLEAN, width : Int, height : Int, scroll : Int,
   max : Int, value : Int, shown : BOOLEAN, virtual_width : Int, torn : BOOLEAN, turned : BOOLEAN]
Worlds ==
  [focused : BOOLEAN, captured : BOOLEAN, touch : BOOLEAN, pointer : Int, blinks : Nat, drags : Nat,
   rect : [w : Int, h : Int], asked : BOOLEAN, measured : Int, within : Int, dependent : BOOLEAN, heard : Nat,
   stray : BOOLEAN, hurried : BOOLEAN, untold : BOOLEAN, unasked : BOOLEAN]

(* All but the view and the bar, and what size it has *)
KeptText(b, r) ==
  /\ r.multiline = b.multiline /\ r.wrapping = b.wrapping /\ r.adapt = b.adapt /\ r.read_only = b.read_only
  /\ r.lines = b.lines /\ r.caret = b.caret /\ r.select = b.select /\ r.from = b.from /\ r.to = b.to
  /\ r.down = b.down /\ r.on = b.on /\ r.shown = b.shown /\ r.virtual_width = b.virtual_width
(* All but the view and the bar *)
Kept(b, r) == KeptText(b, r) /\ r.width = b.width /\ r.height = b.height /\ r.turned = b.turned

(* The bar and the view are at the same place, or the view of one line at its top, *)
Joined(b) ==
  /\ 0 <= b.scroll /\ b.scroll <= b.max /\ 0 <= b.value /\ b.value <= b.max
  /\ b.value = b.scroll \/ (b.torn /\ b.scroll = 0)
(* and can go as far as the text does. *)
BoxFits(b) ==
  /\ b \in Boxes /\ Joined(b)
  /\ IF b.height = 0 THEN b.scroll = 0 /\ b.value = 0 ELSE b.max = Larger(0, ContentHeight(b) - b.height)

(* The text is selected up to the pointer, or to where it is in the padding. *)
SelectedNearPointer ==
  tb.select # 0 => /\ world.captured /\ world.drags > 0
                   /\ world.drags = 1 \/ world.hurried
                   /\ aside \/ tb.to + Padding = world.pointer + tb.scroll \/ tb.to = world.pointer + tb.scroll

(* The inductive invariant *)
TextBoxIInv ==
  /\ BoxFits(tb) /\ world \in Worlds /\ aside \in BOOLEAN
  /\ world.captured => tb.height # 0
  /\ tb.height = 0 => tb.select = 0
  /\ BlinkAgrees /\ LaidOutBesideBar /\ SizeFollowsText /\ SelectedNearPointer

-----------------------------------------------------------------------------
(* A text has a row at least. *)
LEMMA RowsOfText ==
  ASSUME TextBoxesAssumption, NEW b \in Boxes
  PROVE  /\ Rows(b) \in Nat /\ ContentHeight(b) \in Nat /\ \A width \in Int : RowsIn(b, width) \in Nat
         /\ ~b.wrapping => \A width, other \in Int : RowsIn(b, width) = RowsIn(b, other)
<1>1. b.lines \in Nat /\ b.width \in Int /\ FontHeight \in Nat /\ Wide \in Nat
  BY DEF Boxes, TextBoxesAssumption
<1>2. b.lines * 1 = b.lines /\ b.lines * 2 \in Nat /\ b.lines * 1 \in Nat
  BY <1>1
<1>3. \A width \in Int : RowsIn(b, width) \in Nat
  BY <1>1, <1>2 DEF RowsIn
<1>4. Rows(b) \in Nat
  BY <1>1, <1>3 DEF Rows
<1>5. ContentHeight(b) \in Nat
  BY <1>1, <1>4 DEF ContentHeight
<1>6. ~b.wrapping => \A width, other \in Int : RowsIn(b, width) = RowsIn(b, other)
  BY DEF RowsIn
<1> QED
  BY <1>3, <1>4, <1>5, <1>6

(* What only moves the view and the bar leaves the text as high as it is. *)
LEMMA KeptHeight ==
  ASSUME NEW b, NEW r, Kept(b, r)
  PROVE  ContentHeight(r) = ContentHeight(b) /\ \A width : RowsIn(r, width) = RowsIn(b, width)
  BY DEF Kept, KeptText, ContentHeight, Rows, RowsIn

(* Where the view goes the bar goes too. *)
LEMMA ScrolledJoins ==
  ASSUME TextBoxesAssumption, NEW b \in Boxes, NEW to \in Int, to # b.scroll, 0 <= to, to <= b.max
  PROVE  LET r == [b EXCEPT !.scroll = to, !.value = Between(to, 0, b.max), !.torn = FALSE]
         IN  r \in Boxes /\ Kept(b, r) /\ Joined(r) /\ r.max = b.max /\ r.scroll = to /\ r.value = to
<1> DEFINE r == [b EXCEPT !.scroll = to, !.value = Between(to, 0, b.max), !.torn = FALSE]
<1>1. b.max \in Int
  BY DEF Boxes
<1>2. Between(to, 0, b.max) = to
  BY <1>1 DEF Larger, Smaller, Between
<1>3. r = [b EXCEPT !.scroll = to, !.value = to, !.torn = FALSE]
  BY <1>2
<1> HIDE DEF r
<1>4. r \in Boxes
  BY <1>3 DEF Boxes
<1>5. Kept(b, r) /\ r.max = b.max /\ r.scroll = to /\ r.value = to
  BY <1>3 DEF Boxes, Kept, KeptText
<1>6. Joined(r)
  BY <1>1, <1>5 DEF Joined
<1> QED
  BY <1>4, <1>5, <1>6 DEF r

(* Both follow one another wherever they are told to go. *)
LEMMA ScrolledFits ==
  ASSUME TextBoxesAssumption, NEW b, BoxFits(b), b.height # 0, NEW y \in Int
  PROVE  LET r == SetScrollPos(b, y) IN BoxFits(r) /\ Kept(b, r)
<1> DEFINE to == IF b.multiline THEN Larger(0, Smaller(y, ContentHeight(b) - b.height)) ELSE 0
           s == [b EXCEPT !.scroll = to, !.value = Between(to, 0, b.max), !.torn = FALSE]
           r == SetScrollPos(b, y)
<1>1. b \in Boxes /\ b.height \in Int /\ b.max \in Int /\ ContentHeight(b) \in Nat
      /\ b.max = Larger(0, ContentHeight(b) - b.height)
  BY RowsOfText DEF BoxFits, Boxes
<1>2. to \in Int /\ 0 <= to /\ to <= b.max
  BY <1>1 DEF Larger, Smaller
<1>3. r = IF to = b.scroll THEN b ELSE s
  BY DEF SetScrollPos
<1>4. to # b.scroll => s \in Boxes /\ Kept(b, s) /\ Joined(s) /\ s.max = b.max
  <2> HIDE DEF to
  <2> QED
    BY <1>1, <1>2, ScrolledJoins
<1> HIDE DEF to, s, r
<1>5. CASE to = b.scroll
  BY <1>3, <1>5 DEF Kept, KeptText, r
<1>6. CASE to # b.scroll
  <2>1. ContentHeight(s) = ContentHeight(b)
    BY <1>4, <1>6, KeptHeight
  <2>2. BoxFits(s)
    BY <1>1, <1>4, <1>6, <2>1 DEF BoxFits, Kept
  <2> QED
    BY <1>3, <1>4, <1>6, <2>2 DEF r
<1> QED
  BY <1>5, <1>6

(* The bar takes the view along, if that has several lines. *)
LEMMA BarMoved ==
  ASSUME TextBoxesAssumption, NEW b \in Boxes, b.height # 0, b.max = Larger(0, ContentHeight(b) - b.height),
         NEW to \in Int, 0 <= to, to <= b.max
  PROVE  LET r == SetScrollPos([b EXCEPT !.value = to, !.torn = ~b.multiline], to) IN BoxFits(r) /\ Kept(b, r)
<1> DEFINE one == ~b.multiline
           m == [b EXCEPT !.value = to, !.torn = one]
           pos == IF m.multiline THEN Larger(0, Smaller(to, ContentHeight(m) - m.height)) ELSE 0
           s == [m EXCEPT !.scroll = pos, !.value = Between(pos, 0, m.max), !.torn = FALSE]
           r == SetScrollPos(m, to)
<1>1. b.height \in Int /\ b.max \in Int /\ ContentHeight(b) \in Nat /\ one \in BOOLEAN
  BY RowsOfText DEF Boxes
<1>2. m \in Boxes /\ Kept(b, m) /\ m.max = b.max /\ m.value = to /\ m.torn = one /\ m.scroll = b.scroll
  <2> HIDE DEF one
  <2>1. m \in Boxes
    BY <1>1 DEF Boxes
  <2>2. Kept(b, m) /\ m.max = b.max /\ m.value = to /\ m.torn = one /\ m.scroll = b.scroll
    BY DEF Boxes, Kept, KeptText
  <2> QED
    BY <2>1, <2>2
<1>3. r = IF pos = m.scroll THEN m ELSE s
  BY DEF SetScrollPos
<1> HIDE DEF m
<1>4. ContentHeight(m) = ContentHeight(b) /\ m.height = b.height /\ m.multiline = b.multiline
  BY <1>2, KeptHeight DEF Kept, KeptText
<1>5. pos = (IF b.multiline THEN to ELSE 0) /\ pos \in Int /\ 0 <= pos /\ pos <= m.max
  BY <1>1, <1>2, <1>4 DEF Larger, Smaller
<1>6. pos # m.scroll => s \in Boxes /\ Kept(m, s) /\ Joined(s) /\ s.max = m.max
  <2> HIDE DEF pos
  <2> QED
    BY <1>2, <1>5, ScrolledJoins
<1> HIDE DEF pos, s, r
<1>7. r \in Boxes /\ Kept(b, r) /\ Joined(r) /\ r.max = b.max
  <2>1. CASE pos = m.scroll
    <3>1. r = m
      BY <1>3, <2>1
    <3>2. Joined(m)
      BY <1>1, <1>2, <1>5, <2>1 DEF Joined
    <3> QED
      BY <1>2, <3>1, <3>2
  <2>2. CASE pos # m.scroll
    BY <1>2, <1>3, <1>6, <2>2 DEF Kept, KeptText
  <2> QED
    BY <2>1, <2>2
<1>8. ContentHeight(r) = ContentHeight(b)
  BY <1>7, KeptHeight
<1>9. BoxFits(r)
  BY <1>7, <1>8 DEF BoxFits, Kept
<1> QED
  BY <1>7, <1>9 DEF r, m

(* Without room neither moves. *)
LEMMA BarFits ==
  ASSUME TextBoxesAssumption, NEW b, BoxFits(b), NEW y \in Int, b.height # 0
  PROVE  LET r == SetBar(b, y) IN BoxFits(r) /\ Kept(b, r)
<1> DEFINE to == Between(y, 0, b.max)
<1>1. b \in Boxes /\ b.max \in Int /\ 0 <= b.max /\ b.max = Larger(0, ContentHeight(b) - b.height)
  BY DEF BoxFits, Boxes, Joined
<1>2. to \in Int /\ 0 <= to /\ to <= b.max
  BY <1>1 DEF Larger, Smaller, Between
<1>3. SetBar(b, y) = IF to = b.value THEN b ELSE SetScrollPos([b EXCEPT !.value = to, !.torn = ~b.multiline], to)
  BY DEF SetBar
<1> HIDE DEF to
<1>4. BoxFits(SetScrollPos([b EXCEPT !.value = to, !.torn = ~b.multiline], to))
      /\ Kept(b, SetScrollPos([b EXCEPT !.value = to, !.torn = ~b.multiline], to))
  BY <1>1, <1>2, BarMoved
<1> QED
  BY <1>3, <1>4 DEF Kept, KeptText

(* A box whose text or size has changed is put right by updating its bar. *)
LEMMA UpdatedFits ==
  ASSUME TextBoxesAssumption, NEW b \in Boxes, Joined(b), b.height = 0 => b.scroll = 0 /\ b.value = 0
  PROVE  LET r == UpdateScrollbars(b) IN BoxFits(r) /\ Kept(b, r)
<1> DEFINE m == Larger(0, ContentHeight(b) - b.height)
           s == [b EXCEPT !.max = m]
           to == Between(b.value, 0, m)
           r == UpdateScrollbars(b)
<1>1. b.height \in Int /\ b.max \in Int /\ b.scroll \in Int /\ b.value \in Int /\ ContentHeight(b) \in Nat
  BY RowsOfText DEF Boxes
<1>2. m \in Int /\ 0 <= m
  BY <1>1 DEF Larger
<1>3. s \in Boxes /\ Kept(b, s) /\ s.max = m /\ s.scroll = b.scroll /\ s.value = b.value /\ s.torn = b.torn
  <2> HIDE DEF m
  <2> QED
    BY <1>2 DEF Boxes, Kept, KeptText
<1>4. r = SetBar(s, b.value)
  BY DEF UpdateScrollbars
<1> HIDE DEF s
<1>5. ContentHeight(s) = ContentHeight(b) /\ s.height = b.height
  BY <1>3, KeptHeight DEF Kept
<1>6. to \in Int /\ 0 <= to /\ to <= m /\ to <= b.value
  BY <1>1, <1>2 DEF Larger, Smaller, Between, Joined
<1>7. r = IF to = s.value THEN s ELSE SetScrollPos([s EXCEPT !.value = to, !.torn = ~s.multiline], to)
  BY <1>3, <1>4 DEF SetBar
<1> HIDE DEF to, r
<1>8. CASE to = b.value
  <2>1. r = s
    BY <1>3, <1>7, <1>8
  <2>2. Joined(s)
    BY <1>1, <1>2, <1>3, <1>6, <1>8 DEF Joined
  <2>3. BoxFits(s)
    BY <1>3, <1>5, <2>2 DEF BoxFits
  <2> QED
    BY <1>3, <2>1, <2>3 DEF r
<1>9. CASE to # b.value
  <2>1. s.height # 0
    BY <1>1, <1>5, <1>6, <1>9
  <2>2. BoxFits(r) /\ Kept(s, r)
    <3>1. s.max = Larger(0, ContentHeight(s) - s.height) /\ to <= s.max
      BY <1>3, <1>5, <1>6
    <3>2. r = SetScrollPos([s EXCEPT !.value = to, !.torn = ~s.multiline], to)
      BY <1>3, <1>7, <1>9
    <3> QED
      BY <1>3, <1>6, <2>1, <3>1, <3>2, BarMoved
  <2> QED
    BY <1>3, <2>2 DEF Kept, KeptText, r
<1> QED
  BY <1>8, <1>9

(* The view goes back into what there is, and the bar with it. *)
LEMMA ScrolledBack ==
  ASSUME TextBoxesAssumption, NEW b \in Boxes, Joined(b)
  PROVE  LET r == SetScrollPos(b, b.scroll) IN r \in Boxes /\ Kept(b, r) /\ Joined(r)
<1> DEFINE to == IF b.multiline THEN Larger(0, Smaller(b.scroll, ContentHeight(b) - b.height)) ELSE 0
           s == [b EXCEPT !.scroll = to, !.value = Between(to, 0, b.max), !.torn = FALSE]
           r == SetScrollPos(b, b.scroll)
<1>1. b.height \in Int /\ b.max \in Int /\ b.scroll \in Int /\ ContentHeight(b) \in Nat
  BY RowsOfText DEF Boxes
<1>2. to \in Int /\ 0 <= to /\ to <= b.max
  BY <1>1 DEF Larger, Smaller, Joined
<1>3. r = IF to = b.scroll THEN b ELSE s
  BY DEF SetScrollPos
<1>4. to # b.scroll => s \in Boxes /\ Kept(b, s) /\ Joined(s)
  <2> HIDE DEF to
  <2> QED
    BY <1>2, ScrolledJoins
<1> HIDE DEF to, s, r
<1> QED
  BY <1>3, <1>4 DEF Kept, KeptText, r

(* With other room the text is laid out again. *)
LEMMA LaidOut ==
  ASSUME TextBoxesAssumption, NEW b \in Boxes, Joined(b), NEW width \in Int, NEW height \in Int,
         height = 0 => b.scroll = 0 /\ b.value = 0
  PROVE  LET r == SetLayoutSize(b, width, height)
         IN  /\ r \in Boxes /\ KeptText(b, r) /\ r.turned = b.turned /\ r.width = width /\ r.height = height
             /\ Joined(r)
             /\ b.wrapping /\ width # b.width => BoxFits(r)
             /\ ~(b.wrapping /\ width # b.width) => r.scroll = b.scroll /\ r.value = b.value /\ r.max = b.max
<1> DEFINE sized == [b EXCEPT !.width = width, !.height = height]
           r == SetLayoutSize(b, width, height)
<1>1. sized \in Boxes
  BY DEF Boxes
<1>2. /\ KeptText(b, sized) /\ sized.turned = b.turned /\ sized.width = width /\ sized.height = height
      /\ sized.scroll = b.scroll /\ sized.value = b.value /\ sized.max = b.max /\ sized.torn = b.torn
  BY DEF Boxes, KeptText
<1>3. r = IF b.wrapping /\ width # b.width THEN UpdateScrollbars(sized) ELSE sized
  BY DEF SetLayoutSize
<1> HIDE DEF sized
<1>4. Joined(sized) /\ (sized.height = 0 => sized.scroll = 0 /\ sized.value = 0)
  BY <1>2 DEF Joined
<1>5. BoxFits(UpdateScrollbars(sized)) /\ Kept(sized, UpdateScrollbars(sized))
  BY <1>1, <1>4, UpdatedFits
<1> HIDE DEF r
<1>6. CASE b.wrapping /\ width # b.width
  <2>1. r = UpdateScrollbars(sized)
    BY <1>3, <1>6
  <2>2. BoxFits(r) /\ Kept(sized, r)
    BY <1>5, <2>1
  <2>3. r \in Boxes /\ Joined(r)
    BY <2>2 DEF BoxFits
  <2>4. KeptText(b, r) /\ r.turned = b.turned /\ r.width = width /\ r.height = height
    BY <1>2, <2>2 DEF Kept, KeptText
  <2> QED
    BY <1>6, <2>2, <2>3, <2>4 DEF r
<1>7. CASE ~(b.wrapping /\ width # b.width)
  <2>1. r = sized
    BY <1>3, <1>7
  <2> QED
    BY <1>1, <1>2, <1>4, <1>7, <2>1 DEF r
<1> QED
  BY <1>6, <1>7

(* A box that fits is not disturbed by being measured, but for its scroll position. *)
LEMMA LaidOutFits ==
  ASSUME TextBoxesAssumption, NEW b, BoxFits(b), b.wrapping, NEW width \in Int
  PROVE  LET r == SetLayoutSize(b, width, b.height)
         IN  BoxFits(r) /\ KeptText(b, r) /\ r.turned = b.turned /\ r.width = width /\ r.height = b.height
<1> DEFINE r == SetLayoutSize(b, width, b.height)
<1>1. b \in Boxes /\ Joined(b) /\ b.height \in Int /\ (b.height = 0 => b.scroll = 0 /\ b.value = 0)
  BY DEF BoxFits, Boxes
<1>2. /\ r \in Boxes /\ KeptText(b, r) /\ r.turned = b.turned /\ r.width = width /\ r.height = b.height
      /\ Joined(r)
      /\ width # b.width => BoxFits(r)
      /\ width = b.width => r.scroll = b.scroll /\ r.value = b.value /\ r.max = b.max
  BY <1>1, LaidOut
<1> HIDE DEF r
<1>3. ASSUME width = b.width
      PROVE  BoxFits(r)
  <2>1. ContentHeight(r) = ContentHeight(b)
    BY <1>2, <1>3 DEF ContentHeight, Rows, RowsIn, KeptText
  <2> QED
    BY <1>2, <1>3, <2>1 DEF BoxFits
<1> QED
  BY <1>2, <1>3 DEF r

LEMMA MeasuredFits ==
  ASSUME TextBoxesAssumption, NEW b, BoxFits(b), NEW within \in Int
  PROVE  LET size == OnCalculatePreferredContentSize(b, within)
         IN  /\ BoxFits(size.box) /\ Kept(b, size.box) /\ size.rows \in Int
             /\ b.adapt => size.rows = RowsIn(b, MeasuredIn(b, within))
<1> DEFINE width == MeasuredIn(b, within)
           there == SetLayoutSize(b, width, b.height)
           back == SetLayoutSize(there, b.width, b.height)
           size == OnCalculatePreferredContentSize(b, within)
<1>1. b \in Boxes /\ b.width \in Int /\ width \in Int
  BY DEF BoxFits, Boxes, MeasuredIn
<1>2. size = IF b.adapt /\ b.wrapping THEN [rows |-> Rows(there), box |-> back]
             ELSE [rows |-> IF b.adapt THEN Rows(b) ELSE IF b.multiline THEN 5 ELSE 1, box |-> b]
  BY DEF OnCalculatePreferredContentSize
<1>3. Rows(b) \in Int /\ (\A w \in Int : RowsIn(b, w) \in Int)
      /\ (~b.wrapping => Rows(b) = RowsIn(b, width))
  <2> HIDE DEF width
  <2> QED
    BY <1>1, RowsOfText DEF Rows
<1> HIDE DEF width, there, back, size
<1>4. CASE b.adapt /\ b.wrapping
  <2>1. BoxFits(there) /\ KeptText(b, there) /\ there.turned = b.turned /\ there.width = width /\ there.height = b.height
    BY <1>1, <1>4, LaidOutFits DEF there
  <2>2. BoxFits(back) /\ KeptText(there, back) /\ back.turned = there.turned /\ back.width = b.width
        /\ back.height = there.height
    <3>1. there.wrapping
      BY <1>4, <2>1 DEF KeptText
    <3>2. back = SetLayoutSize(there, b.width, there.height)
      BY <2>1 DEF back
    <3> QED
      BY <1>1, <2>1, <3>1, <3>2, LaidOutFits
  <2>3. Rows(there) = RowsIn(b, width)
    BY <2>1 DEF Rows, RowsIn, KeptText
  <2>4. size.rows = Rows(there) /\ size.box = back
    BY <1>2, <1>4
  <2>5. Kept(b, back)
    BY <2>1, <2>2 DEF Kept, KeptText
  <2> QED
    BY <1>1, <1>3, <2>2, <2>3, <2>4, <2>5 DEF size, width
<1>5. CASE ~(b.adapt /\ b.wrapping)
  <2>1. size.rows = (IF b.adapt THEN Rows(b) ELSE IF b.multiline THEN 5 ELSE 1) /\ size.box = b
    BY <1>2, <1>5
  <2> QED
    BY <1>3, <1>5, <2>1 DEF Kept, KeptText, size, width
<1> QED
  BY <1>4, <1>5

(* A box that is given a size fits in it. *)
LEMMA ResizedFits ==
  ASSUME TextBoxesAssumption, HasRoom, NEW b, BoxFits(b), NEW rect \in Rects
  PROVE  LET r == BoxResized(b, rect)
         IN  BoxFits(r) /\ KeptText(b, r) /\ r.height # 0 /\ r.width = visible_rect(r, rect).w
<1> DEFINE v == visible_rect(b, rect)
           laid == SetLayoutSize(b, v.w, v.h)
           placed == IF v.w = b.width /\ v.h = b.height THEN laid ELSE SetScrollPos(laid, laid.scroll)
           still == [placed EXCEPT !.turned = FALSE]
           r == BoxResized(b, rect)
<1>1. b \in Boxes /\ Joined(b) /\ rect \in [w : Int, h : Int] /\ rect.h > 0 /\ BarWidth \in Nat
  BY DEF BoxFits, TextBoxesAssumption, HasRoom
<1>2. v.w \in Int /\ v.h \in Int /\ v.h # 0 /\ v.w = rect.w - (IF b.shown THEN BarWidth ELSE 0)
  BY <1>1 DEF visible_rect
<1>3. r = UpdateScrollbars(still)
  BY DEF BoxResized
<1> HIDE DEF v
<1>4. laid \in Boxes /\ KeptText(b, laid) /\ laid.width = v.w /\ laid.height = v.h /\ Joined(laid)
  BY <1>1, <1>2, LaidOut
<1> HIDE DEF laid
<1>5. placed \in Boxes /\ Kept(laid, placed) /\ Joined(placed)
  <2>1. SetScrollPos(laid, laid.scroll) \in Boxes /\ Kept(laid, SetScrollPos(laid, laid.scroll))
        /\ Joined(SetScrollPos(laid, laid.scroll))
    BY <1>4, ScrolledBack
  <2>2. Kept(laid, laid)
    BY DEF Kept, KeptText
  <2> QED
    BY <1>4, <2>1, <2>2
<1> HIDE DEF placed
<1>6. /\ still \in Boxes /\ KeptText(placed, still) /\ still.width = placed.width /\ still.height = placed.height
      /\ Joined(still)
  <2>1. still \in Boxes
    BY <1>5 DEF Boxes
  <2>2. /\ KeptText(placed, still) /\ still.width = placed.width /\ still.height = placed.height
        /\ still.scroll = placed.scroll /\ still.value = placed.value /\ still.max = placed.max /\ still.torn = placed.torn
    BY <1>5 DEF Boxes, KeptText
  <2> QED
    BY <1>5, <2>1, <2>2 DEF Joined
<1> HIDE DEF still, r
<1>7. still.height = v.h /\ still.width = v.w
  BY <1>4, <1>5, <1>6 DEF Kept
<1>8. BoxFits(r) /\ Kept(still, r)
  BY <1>2, <1>3, <1>6, <1>7, UpdatedFits
<1>9. KeptText(b, r) /\ r.height = v.h /\ r.width = v.w
  BY <1>4, <1>5, <1>6, <1>7, <1>8 DEF Kept, KeptText
<1>10. visible_rect(r, rect).w = v.w
  BY <1>1, <1>2, <1>9 DEF visible_rect, KeptText
<1> QED
  BY <1>2, <1>8, <1>9, <1>10 DEF r

(* The same for where the caret is to be seen. *)
LEMMA CaretSeenFits ==
  ASSUME TextBoxesAssumption, NEW b, BoxFits(b)
  PROVE  LET r == ScrollIfNeeded(b) IN BoxFits(r) /\ Kept(b, r)
<1> DEFINE y == b.caret * FontHeight
           to == IF y + FontHeight - b.scroll > b.height THEN y + FontHeight - b.height
                 ELSE IF y - b.scroll < 0 THEN y ELSE b.scroll
<1>1. b.caret \in Nat /\ FontHeight \in Nat /\ b.scroll \in Int /\ b.height \in Int
  BY DEF BoxFits, Boxes, TextBoxesAssumption
<1>2. y \in Int
  BY <1>1
<1>3. to \in Int
  <2> HIDE DEF y
  <2> QED
    BY <1>1, <1>2
<1>4. CASE b.height <= 0
  BY <1>4 DEF ScrollIfNeeded, Kept, KeptText
<1>5. CASE ~(b.height <= 0)
  <2>1. ScrollIfNeeded(b) = SetScrollPos(b, to)
    BY <1>5 DEF ScrollIfNeeded
  <2>2. b.height # 0
    BY <1>1, <1>5
  <2> HIDE DEF to
  <2> QED
    BY <1>3, <2>1, <2>2, ScrolledFits
<1> QED
  BY <1>4, <1>5

(* What does not concern the size of the text, nor where the view is *)
Alike(b, r) ==
  /\ r.multiline = b.multiline /\ r.wrapping = b.wrapping /\ r.adapt = b.adapt /\ r.lines = b.lines
  /\ r.width = b.width /\ r.height = b.height /\ r.shown = b.shown /\ r.virtual_width = b.virtual_width
  /\ r.turned = b.turned
Still(b, r) == r.scroll = b.scroll /\ r.max = b.max /\ r.value = b.value /\ r.torn = b.torn

(* leaves the box as it fits. *)
LEMMA AlikeFits ==
  ASSUME NEW b, BoxFits(b), NEW r \in Boxes, Alike(b, r), Still(b, r)
  PROVE  BoxFits(r)
<1>1. ContentHeight(r) = ContentHeight(b)
  BY DEF Alike, ContentHeight, Rows, RowsIn
<1> QED
  BY <1>1 DEF BoxFits, Alike, Still, Joined

SameLayout(w, v) ==
  /\ v.rect = w.rect /\ v.asked = w.asked /\ v.measured = w.measured /\ v.within = w.within /\ v.heard = w.heard
  /\ v.untold = w.untold /\ v.unasked = w.unasked

(* What is set to something of its kind is still a box. *)
LEMMA MarkedBox ==
  ASSUME NEW b \in Boxes, NEW row \in Nat, NEW lines \in Nat, NEW k \in Nat, NEW on \in BOOLEAN, NEW i \in Int
  PROVE  /\ [b EXCEPT !.on = on, !.from = i, !.to = i, !.caret = row] \in Boxes
         /\ [b EXCEPT !.on = on, !.caret = row, !.from = i, !.to = i] \in Boxes
         /\ [b EXCEPT !.on = on, !.from = i, !.to = i, !.select = k] \in Boxes
         /\ [b EXCEPT !.lines = lines, !.caret = row, !.from = i, !.to = i] \in Boxes
  BY DEF Boxes

(* With the text and its layout as they were the box is beside its bar and as
   large as before. *)
LEMMA AlikeAgrees ==
  ASSUME Alike(tb, tb'), SameLayout(world, world'), LaidOutBesideBar, SizeFollowsText
  PROVE  LaidOutBesideBar' /\ SizeFollowsText'
<1>1. LaidOutBesideBar'
  BY DEF Alike, SameLayout, LaidOutBesideBar, visible_rect
<1>2. SizeFollowsText'
  BY DEF Alike, SameLayout, SizeFollowsText, RowsIn, MeasuredIn
<1> QED
  BY <1>1, <1>2

SamePointer(w, v) ==
  v.captured = w.captured /\ v.pointer = w.pointer /\ v.drags = w.drags /\ v.hurried = w.hurried
SameBlink(w, v) == v.focused = w.focused /\ v.stray = w.stray /\ v.blinks = w.blinks

(* There is one blink at most. *)
LEMMA OneBlink ==
  ASSUME BlinkAgrees, world \in Worlds
  PROVE  world.blinks = 0 \/ world.blinks = 1
  BY DEF BlinkAgrees

(* The blink that is started again is the only one. *)
LEMMA BlinkAgain ==
  ASSUME NEW w \in Worlds, w.blinks = 0 \/ w.blinks = 1
  PROVE  LET v == ResetBlink(w)
         IN  /\ v \in Worlds /\ SameLayout(w, v) /\ SamePointer(w, v) /\ v.focused = w.focused /\ v.blinks = 1
             /\ v.stray = ~w.focused /\ v.touch = w.touch
<1> DEFINE one == [w EXCEPT !.blinks = 1]
           loose == ~w.focused
           v == ResetBlink(w)
<1>1. CaretBlinkStart(CaretBlinkStop(w)) = one
  <2>1. CASE w.blinks = 0
    BY <2>1 DEF CaretBlinkStart, CaretBlinkStop, Worlds
  <2>2. CASE w.blinks = 1
    <3>1. CaretBlinkStop(w) = [w EXCEPT !.blinks = 0]
      BY <2>2 DEF CaretBlinkStop, Worlds
    <3> QED
      BY <3>1 DEF CaretBlinkStart, Worlds
  <2> QED
    BY <2>1, <2>2
<1>2. v = [one EXCEPT !.stray = loose]
  BY <1>1 DEF ResetBlink
<1>3. /\ one \in Worlds /\ SameLayout(w, one) /\ SamePointer(w, one) /\ one.focused = w.focused /\ one.blinks = 1
      /\ one.touch = w.touch
  BY DEF Worlds, SameLayout, SamePointer
<1>4. loose \in BOOLEAN
  BY DEF Worlds
<1> HIDE DEF one, loose, v
<1>5. v \in Worlds /\ v.stray = loose
  BY <1>2, <1>3, <1>4 DEF Worlds
<1>6. SameLayout(one, v) /\ SamePointer(one, v) /\ v.focused = one.focused /\ v.blinks = one.blinks /\ v.touch = one.touch
  BY <1>2, <1>3 DEF Worlds, SameLayout, SamePointer
<1> QED
  BY <1>3, <1>5, <1>6 DEF SameLayout, SamePointer, loose, v

(* Gaining and losing the focus starts and stops it. *)
LEMMA Focused ==
  ASSUME NEW w \in Worlds, w.blinks = 0 \/ w.blinks = 1, NEW focus \in BOOLEAN
  PROVE  LET v == Focus(w, focus)
         IN  /\ v \in Worlds /\ SameLayout(w, v) /\ SamePointer(w, v) /\ v.focused = focus /\ v.stray = FALSE
             /\ v.blinks = IF focus THEN 1 ELSE 0
<1> DEFINE n == IF focus THEN 1 ELSE 0
           one == [w EXCEPT !.blinks = n]
           v == Focus(w, focus)
<1>1. (IF focus THEN CaretBlinkStart(w) ELSE CaretBlinkStop(w)) = one
  BY DEF CaretBlinkStart, CaretBlinkStop, Worlds
<1>2. v = [one EXCEPT !.focused = focus, !.stray = FALSE]
  BY <1>1 DEF Focus
<1>3. n \in Nat
  OBVIOUS
<1> HIDE DEF n, v
<1>4. one \in Worlds /\ SameLayout(w, one) /\ SamePointer(w, one) /\ one.blinks = n
  BY <1>3 DEF Worlds, SameLayout, SamePointer
<1> HIDE DEF one
<1>5. v \in Worlds /\ v.focused = focus /\ v.stray = FALSE /\ v.blinks = one.blinks
  BY <1>2, <1>4 DEF Worlds
<1>6. SameLayout(one, v) /\ SamePointer(one, v)
  BY <1>2, <1>4 DEF Worlds, SameLayout, SamePointer
<1> QED
  BY <1>4, <1>5, <1>6 DEF SameLayout, SamePointer, n, v

-----------------------------------------------------------------------------
(* What is told of the selection, in terms of what it depends on *)
LEMMA SelectionKept ==
  ASSUME SelectedNearPointer, tb'.select = tb.select, tb'.to = tb.to, tb'.scroll = tb.scroll, aside' = aside,
         SamePointer(world, world')
  PROVE  SelectedNearPointer'
  BY DEF SelectedNearPointer, SamePointer

(* Blinking, and gaining and losing the focus *)
LEMMA BlinkStep ==
  ASSUME TextBoxesAssumption, TextBoxIInv, Blink \/ FocusBox \/ LoseFocus
  PROVE  TextBoxIInv'
<1>1. tb \in Boxes /\ world \in Worlds /\ aside \in BOOLEAN /\ (world.blinks = 0 \/ world.blinks = 1)
  BY OneBlink DEF TextBoxIInv, BoxFits
<1>2. ASSUME NEW on \in BOOLEAN, tb' = [tb EXCEPT !.on = on]
      PROVE  tb' \in Boxes /\ Alike(tb, tb') /\ Still(tb, tb') /\ tb'.select = tb.select /\ tb'.to = tb.to
  BY <1>1, <1>2 DEF Boxes, Alike, Still
<1>3. ASSUME NEW on \in BOOLEAN, tb' = [tb EXCEPT !.on = on], aside' = aside, world' \in Worlds, SameLayout(world, world'),
             SamePointer(world, world'), BlinkAgrees'
      PROVE  TextBoxIInv'
  <2>1. tb' \in Boxes /\ Alike(tb, tb') /\ Still(tb, tb') /\ tb'.select = tb.select /\ tb'.to = tb.to
    BY <1>2, <1>3
  <2>2. BoxFits(tb') /\ LaidOutBesideBar' /\ SizeFollowsText'
    BY <1>3, <2>1, AlikeFits, AlikeAgrees DEF TextBoxIInv
  <2>3. SelectedNearPointer'
    BY <1>3, <2>1, SelectionKept DEF Still, TextBoxIInv
  <2> QED
    BY <1>1, <1>3, <2>1, <2>2, <2>3 DEF TextBoxIInv, Alike, SamePointer
<1>4. CASE Blink
  <2>1. tb' = [tb EXCEPT !.on = ~tb.on] /\ world' = world /\ aside' = aside
    BY <1>4 DEF Blink
  <2>2. (~tb.on) \in BOOLEAN
    OBVIOUS
  <2> QED
    BY <1>1, <1>3, <2>1, <2>2 DEF TextBoxIInv, SameLayout, SamePointer, BlinkAgrees
<1>5. CASE FocusBox
  <2>1. tb' = [tb EXCEPT !.on = TRUE] /\ aside' = aside /\ world' = Focus(world, TRUE)
    BY <1>5 DEF FocusBox, LightUp
  <2>2. /\ world' \in Worlds /\ SameLayout(world, world') /\ SamePointer(world, world') /\ world'.focused
        /\ world'.blinks = 1
    BY <1>1, <2>1, Focused
  <2> QED
    BY <1>3, <2>1, <2>2 DEF BlinkAgrees
<1>6. CASE LoseFocus
  <2>1. tb' = [tb EXCEPT !.on = FALSE] /\ aside' = aside /\ world' = Focus(world, FALSE)
    BY <1>6 DEF LoseFocus
  <2>2. /\ world' \in Worlds /\ SameLayout(world, world') /\ SamePointer(world, world') /\ ~world'.focused
        /\ ~world'.stray /\ world'.blinks = 0
    BY <1>1, <2>1, Focused
  <2> QED
    BY <1>3, <2>1, <2>2 DEF BlinkAgrees
<1> QED
  BY <1>4, <1>5, <1>6

(* A move of the pointer selects up to where it is, if text is being selected. *)
LEMMA MovedSelection ==
  ASSUME NEW b \in Boxes, NEW y \in Int
  PROVE  LET r == MouseMove(b, y)
         IN  /\ r \in Boxes /\ Alike(b, r) /\ Still(b, r) /\ r.select = b.select
             /\ b.select # 0 => r.to = y + r.scroll
<1> DEFINE r == MouseMove(b, y)
           to == y + b.scroll
<1>1. b.scroll \in Int /\ b.down \in Int /\ to \in Int
  BY DEF Boxes
<1>2. CASE b.select = 0
  BY <1>2 DEF MouseMove, Alike, Still
<1>3. CASE b.select # 0
  <2>1. r = [b EXCEPT !.from = b.down, !.to = to]
    BY <1>3 DEF MouseMove, Select
  <2> HIDE DEF to, r
  <2>2. r \in Boxes
    BY <1>1, <2>1 DEF Boxes
  <2>3. Alike(b, r) /\ Still(b, r) /\ r.select = b.select /\ r.to = to
    BY <2>1 DEF Boxes, Alike, Still
  <2> QED
    BY <2>2, <2>3 DEF Still, to, r
<1> QED
  BY <1>2, <1>3

(* Dragging goes on to scroll, and to select, as long as the pointer is down. *)
LEMMA SelScrollStep ==
  ASSUME TextBoxesAssumption, TextBoxIInv, SelScroll
  PROVE  TextBoxIInv'
<1> DEFINE top == Padding + 2
           bottom == top + Larger(0, visible_rect(tb, world.rect).h - 4)
           dy == GetSelectionScrollSpeed(world.pointer, top, bottom)
           scrolled == SetBar(tb, tb.value + dy)
           posted == IF tb.select # 0 THEN world.drags ELSE world.drags - 1
<1>1. /\ tb \in Boxes /\ world \in Worlds /\ aside \in BOOLEAN /\ BoxFits(tb) /\ world.drags > 0
      /\ world.captured => tb.height # 0
      /\ tb.height = 0 => tb.select = 0
      /\ BlinkAgrees /\ LaidOutBesideBar /\ SizeFollowsText /\ SelectedNearPointer
  BY DEF TextBoxIInv, BoxFits, SelScroll
<1>2. world.drags \in Nat /\ world.drags - 1 \in Nat
  BY <1>1 DEF Worlds
<1>3. ASSUME NEW n \in Nat
      PROVE  LET v == [world EXCEPT !.drags = n]
             IN  /\ v \in Worlds /\ SameLayout(world, v) /\ SameBlink(world, v) /\ v.captured = world.captured
                 /\ v.pointer = world.pointer /\ v.hurried = world.hurried /\ v.drags = n
  BY <1>1, <1>3 DEF Worlds, SameLayout, SameBlink
<1>4. CASE ~world.captured
  <2>1. tb' = tb /\ aside' = aside /\ world' = [world EXCEPT !.drags = world.drags - 1]
    BY <1>4 DEF SelScroll
  <2>2. world' \in Worlds /\ SameLayout(world, world') /\ ~world'.captured /\ SameBlink(world, world')
    BY <1>2, <1>3, <1>4, <2>1
  <2>3. tb.select = 0
    BY <1>1, <1>4 DEF SelectedNearPointer
  <2>4. LaidOutBesideBar' /\ SizeFollowsText'
    BY <1>1, <2>1, <2>2, AlikeAgrees DEF Alike
  <2> QED
    BY <1>1, <2>1, <2>2, <2>3, <2>4 DEF TextBoxIInv, BlinkAgrees, SelectedNearPointer, SameBlink
<1>5. CASE world.captured
  <2>1. /\ tb' = IF dy = 0 THEN scrolled ELSE MouseMove(scrolled, world.pointer)
        /\ world' = [world EXCEPT !.drags = posted]
        /\ aside' = (aside /\ dy = 0)
    BY <1>5 DEF SelScroll
  <2>2. dy \in Int
    <3>1. world.pointer \in Int /\ top \in Int /\ bottom \in Int
      BY <1>1 DEF Worlds, TextBoxesAssumption, visible_rect, Larger
    <3> HIDE DEF top, bottom
    <3> DEFINE d == IF world.pointer < top THEN world.pointer - top
                    ELSE IF world.pointer > bottom THEN world.pointer - bottom ELSE 0
               square == d * d
    <3>2. d \in Int
      BY <3>1
    <3> HIDE DEF d
    <3>3. square \in Int
      BY <3>2
    <3> HIDE DEF square
    <3>4. square \div 40 \in Int
      BY <3>3
    <3>5. dy = IF world.pointer < top THEN -(square \div 40) ELSE square \div 40
      BY DEF GetSelectionScrollSpeed, d, square
    <3> QED
      BY <3>4, <3>5
  <2> HIDE DEF dy
  <2>3. tb.value + dy \in Int /\ tb.height # 0
    BY <1>1, <1>5, <2>2 DEF Boxes
  <2>4. BoxFits(scrolled) /\ Kept(tb, scrolled)
    BY <1>1, <2>3, BarFits
  <2>5. dy = 0 => scrolled = tb
    BY <1>1 DEF SetBar, Between, Larger, Smaller, BoxFits, Joined, Boxes
  <2> HIDE DEF scrolled
  <2>6. posted \in Nat /\ (tb.select # 0 => posted = world.drags)
    BY <1>2
  <2> HIDE DEF posted
  <2>7. /\ world' \in Worlds /\ SameLayout(world, world') /\ world'.captured /\ SameBlink(world, world')
        /\ world'.pointer = world.pointer /\ world'.hurried = world.hurried
        /\ tb.select # 0 => world'.drags = world.drags
    BY <1>3, <1>5, <2>1, <2>6
  <2>8. CASE dy = 0
    <3>1. tb' = tb /\ aside' = aside
      BY <1>1, <2>1, <2>5, <2>8
    <3>2. LaidOutBesideBar' /\ SizeFollowsText'
      BY <1>1, <2>7, <3>1, AlikeAgrees DEF Alike
    <3> QED
      BY <1>1, <1>5, <2>7, <3>1, <3>2 DEF TextBoxIInv, BlinkAgrees, SelectedNearPointer, SameBlink
  <2>9. CASE dy # 0
    <3>1. tb' = MouseMove(scrolled, world.pointer) /\ aside' = FALSE
      BY <2>1, <2>9
    <3>2. /\ tb' \in Boxes /\ Alike(scrolled, tb') /\ Still(scrolled, tb') /\ tb'.select = scrolled.select
          /\ scrolled.select # 0 => tb'.to = world.pointer + tb'.scroll
      <4>1. scrolled \in Boxes /\ world.pointer \in Int
        BY <1>1, <2>4 DEF BoxFits, Worlds
      <4> QED
        BY <3>1, <4>1, MovedSelection
    <3>3. BoxFits(tb') /\ Alike(tb, tb') /\ tb'.select = tb.select /\ tb'.height = tb.height
      BY <2>4, <3>2, AlikeFits DEF Alike, Kept, KeptText
    <3>4. LaidOutBesideBar' /\ SizeFollowsText'
      BY <1>1, <2>7, <3>3, AlikeAgrees
    <3>5. SelectedNearPointer'
      BY <1>1, <2>4, <2>7, <3>2, <3>3 DEF SelectedNearPointer, Kept, KeptText
    <3> QED
      BY <1>1, <2>3, <2>7, <3>1, <3>3, <3>4, <3>5 DEF TextBoxIInv, BlinkAgrees, SameBlink
  <2> QED
    BY <2>8, <2>9
<1> QED
  BY <1>4, <1>5

(* A press selects from there, and a touch does not. *)
LEMMA PointerDownStep ==
  ASSUME TextBoxesAssumption, TextBoxIInv, NEW y \in Pointers, NEW touch \in BOOLEAN, NEW clicks \in {1, 2},
         PointerDown(y, touch, clicks)
  PROVE  TextBoxIInv'
<1> DEFINE w == IF TakesFocus /\ ~world.focused THEN Focus(world, TRUE) ELSE world
           more == world.drags + 1
           late == world.drags > 0
           pressed == Press(world, y, touch)
           k == ((clicks - 1) % 2) + 1
           lit == (tb.on \/ world'.focused # world.focused)
           place == y - Padding + tb.scroll
           down == [tb EXCEPT !.down = place, !.on = lit]
           q == [LightUp(down) EXCEPT !.from = 0, !.to = 0, !.select = k]
<1>1. /\ tb \in Boxes /\ world \in Worlds /\ aside \in BOOLEAN /\ BoxFits(tb) /\ world.drags \in Nat
      /\ BlinkAgrees /\ LaidOutBesideBar /\ SizeFollowsText /\ SelectedNearPointer
      /\ (world.blinks = 0 \/ world.blinks = 1)
  BY OneBlink DEF TextBoxIInv, BoxFits, Worlds
<1>2. /\ y \in Int /\ Padding \in Nat /\ tb.scroll \in Int /\ y - Padding \in Int /\ place \in Int
  BY <1>1 DEF TextBoxesAssumption, Boxes
<1>3. /\ tb.height > 0 /\ aside' = (touch /\ tb.select # 0)
      /\ world' = IF touch THEN pressed ELSE ResetBlink(pressed)
      /\ tb' = IF touch THEN down ELSE MouseMove(q, y - Padding)
  BY DEF PointerDown
<1>4. tb.height # 0
  BY <1>1, <1>3 DEF Boxes
<1>5. /\ w \in Worlds /\ SameLayout(world, w) /\ SamePointer(world, w) /\ (w.blinks = 0 \/ w.blinks = 1)
      /\ w.blinks = IF w.focused \/ w.stray THEN 1 ELSE 0
  <2>1. CASE TakesFocus /\ ~world.focused
    <3>1. w = Focus(world, TRUE)
      BY <2>1
    <3> QED
      BY <1>1, <3>1, Focused
  <2>2. CASE ~(TakesFocus /\ ~world.focused)
    BY <1>1, <2>2 DEF BlinkAgrees, SameLayout, SamePointer
  <2> QED
    BY <2>1, <2>2
<1>6. /\ pressed \in Worlds /\ pressed.captured /\ SameLayout(world, pressed) /\ SameBlink(w, pressed)
      /\ pressed.pointer = y /\ pressed.drags > 0 /\ (pressed.drags = 1 \/ pressed.hurried)
  <2>1. pressed = [w EXCEPT !.captured = TRUE, !.touch = touch, !.pointer = y, !.drags = more, !.hurried = late]
    BY <1>5 DEF Press, SamePointer
  <2>2. more \in Nat /\ late \in BOOLEAN /\ more > 0 /\ (more = 1 \/ late)
    BY <1>1
  <2> HIDE DEF w, more, late, pressed
  <2>3. pressed \in Worlds
    BY <1>2, <1>5, <2>1, <2>2 DEF Worlds
  <2>4. /\ SameLayout(w, pressed) /\ SameBlink(w, pressed) /\ pressed.captured = TRUE /\ pressed.pointer = y
        /\ pressed.drags = more /\ pressed.hurried = late
    BY <1>5, <2>1 DEF Worlds, SameLayout, SameBlink
  <2> QED
    BY <1>5, <2>2, <2>3, <2>4 DEF SameLayout
<1> HIDE DEF pressed, w
<1>7. /\ world' \in Worlds /\ world'.captured /\ SameLayout(world, world') /\ BlinkAgrees'
      /\ world'.pointer = y /\ world'.drags > 0 /\ (world'.drags = 1 \/ world'.hurried)
  <2>1. CASE touch
    BY <1>3, <1>5, <1>6, <2>1 DEF SameBlink, BlinkAgrees
  <2>2. CASE ~touch
    <3>1. /\ ResetBlink(pressed) \in Worlds /\ SameLayout(pressed, ResetBlink(pressed))
          /\ SamePointer(pressed, ResetBlink(pressed)) /\ ResetBlink(pressed).focused = pressed.focused
          /\ ResetBlink(pressed).blinks = 1 /\ ResetBlink(pressed).stray = ~pressed.focused
      BY <1>5, <1>6, BlinkAgain DEF SameBlink
    <3> QED
      BY <1>3, <1>6, <2>2, <3>1 DEF SameLayout, SamePointer, BlinkAgrees
  <2> QED
    BY <2>1, <2>2
<1>8. /\ down \in Boxes /\ Alike(tb, down) /\ Still(tb, down) /\ down.select = tb.select
  <2>1. lit \in BOOLEAN
    BY <1>1 DEF Boxes
  <2> HIDE DEF lit, place
  <2> QED
    BY <1>1, <1>2, <2>1 DEF Boxes, Alike, Still
<1>9. tb' = IF touch THEN down ELSE MouseMove(q, y - Padding)
  BY <1>3
<1> HIDE DEF down
<1>10. /\ tb' \in Boxes /\ Alike(tb, tb') /\ Still(tb, tb')
       /\ tb'.select # 0 => aside' \/ tb'.to + Padding = y + tb'.scroll
  <2>1. CASE touch
    BY <1>3, <1>8, <1>9, <2>1
  <2>2. CASE ~touch
    <3>1. k \in Nat
      <4>1. clicks = 1 \/ clicks = 2
        OBVIOUS
      <4> QED
        BY <4>1
    <3> HIDE DEF k
    <3>2. q \in Boxes /\ Alike(tb, q) /\ Still(tb, q)
      <4>1. q = [down EXCEPT !.on = TRUE, !.from = 0, !.to = 0, !.select = k]
        BY <1>8 DEF LightUp, Boxes
      <4> HIDE DEF q
      <4>. 0 \in Int /\ TRUE \in BOOLEAN
        OBVIOUS
      <4>2. q \in Boxes
        BY <1>8, <3>1, <4>1, MarkedBox, Zenon
      <4>3. Alike(down, q) /\ Still(down, q)
        BY <1>8, <4>1 DEF Boxes, Alike, Still
      <4> QED
        BY <1>8, <4>2, <4>3 DEF Alike, Still
    <3> HIDE DEF q
    <3>3. tb' = MouseMove(q, y - Padding)
      BY <1>9, <2>2
    <3>4. /\ tb' \in Boxes /\ Alike(q, tb') /\ Still(q, tb') /\ tb'.select = q.select
          /\ q.select # 0 => tb'.to = (y - Padding) + tb'.scroll
      BY <1>2, <3>2, <3>3, MovedSelection
    <3>5. tb'.scroll \in Int
      BY <3>4 DEF Boxes
    <3> QED
      BY <1>2, <3>2, <3>4, <3>5 DEF Alike, Still
  <2> QED
    BY <2>1, <2>2
<1>11. BoxFits(tb') /\ LaidOutBesideBar' /\ SizeFollowsText'
  BY <1>1, <1>7, <1>10, AlikeFits, AlikeAgrees
<1>12. SelectedNearPointer' /\ aside' \in BOOLEAN
  BY <1>3, <1>7, <1>10 DEF SelectedNearPointer
<1> QED
  BY <1>4, <1>7, <1>10, <1>11, <1>12 DEF TextBoxIInv, Alike

(* What is selected follows the pointer, until it is lifted. *)
LEMMA PointerMoveStep ==
  ASSUME TextBoxesAssumption, TextBoxIInv, NEW y \in Pointers, PointerMove(y)
  PROVE  TextBoxIInv'
<1>1. /\ tb \in Boxes /\ world \in Worlds /\ aside \in BOOLEAN /\ BoxFits(tb)
      /\ BlinkAgrees /\ LaidOutBesideBar /\ SizeFollowsText /\ SelectedNearPointer /\ world.captured
      /\ tb.height # 0
  BY DEF TextBoxIInv, BoxFits, PointerMove
<1>2. y \in Int /\ Padding \in Nat /\ y - Padding \in Int
  BY DEF TextBoxesAssumption
<1>3. world' = [world EXCEPT !.pointer = y] /\ tb' = MouseMove(tb, y - Padding) /\ aside' = FALSE
  BY DEF PointerMove
<1>4. /\ world' \in Worlds /\ world'.captured /\ SameBlink(world, world') /\ world'.drags = world.drags
      /\ world'.hurried = world.hurried /\ world'.pointer = y /\ SameLayout(world, world')
  BY <1>1, <1>2, <1>3 DEF Worlds, SameLayout, SameBlink
<1>5. /\ tb' \in Boxes /\ Alike(tb, tb') /\ Still(tb, tb') /\ tb'.select = tb.select
      /\ tb.select # 0 => tb'.to = (y - Padding) + tb'.scroll
  BY <1>1, <1>2, <1>3, MovedSelection
<1>6. BoxFits(tb') /\ LaidOutBesideBar' /\ SizeFollowsText'
  BY <1>1, <1>4, <1>5, AlikeFits, AlikeAgrees
<1>7. SelectedNearPointer'
  <2>1. tb'.scroll \in Int
    BY <1>5 DEF Boxes
  <2> QED
    BY <1>1, <1>2, <1>4, <1>5, <2>1 DEF SelectedNearPointer
<1> QED
  BY <1>1, <1>3, <1>4, <1>5, <1>6, <1>7 DEF TextBoxIInv, BlinkAgrees, SameBlink, Alike

(* Then nothing is being selected. *)
LEMMA PointerUpStep ==
  ASSUME TextBoxesAssumption, TextBoxIInv, NEW row \in Nat, NEW cancel \in BOOLEAN, PointerUp(row, cancel)
  PROVE  TextBoxIInv'
<1> DEFINE placed == world.touch /\ ~cancel
           lifted == [world EXCEPT !.captured = FALSE]
           up == [tb EXCEPT !.select = 0]
<1>1. /\ tb \in Boxes /\ world \in Worlds /\ aside \in BOOLEAN /\ BoxFits(tb)
      /\ BlinkAgrees /\ LaidOutBesideBar /\ SizeFollowsText /\ (world.blinks = 0 \/ world.blinks = 1)
  BY OneBlink DEF TextBoxIInv, BoxFits
<1>2. /\ world' = IF placed THEN ResetBlink(lifted) ELSE lifted
      /\ tb' = IF placed THEN [LightUp(up) EXCEPT !.from = 0, !.to = 0, !.caret = row] ELSE up
      /\ aside' = aside
  BY DEF PointerUp
<1>3. /\ lifted \in Worlds /\ ~lifted.captured /\ SameBlink(world, lifted) /\ SameLayout(world, lifted)
  BY <1>1 DEF Worlds, SameLayout, SameBlink
<1>4. /\ up \in Boxes /\ Alike(tb, up) /\ Still(tb, up) /\ up.select = 0
  BY <1>1 DEF Boxes, Alike, Still
<1> HIDE DEF lifted, up
<1>5. /\ world' \in Worlds /\ ~world'.captured /\ BlinkAgrees' /\ SameLayout(world, world')
  <2>1. /\ ResetBlink(lifted) \in Worlds /\ SameLayout(lifted, ResetBlink(lifted))
        /\ SamePointer(lifted, ResetBlink(lifted)) /\ ResetBlink(lifted).focused = lifted.focused
        /\ ResetBlink(lifted).blinks = 1 /\ ResetBlink(lifted).stray = ~lifted.focused
    BY <1>1, <1>3, BlinkAgain DEF SameBlink
  <2> QED
    BY <1>1, <1>2, <1>3, <2>1 DEF SamePointer, SameLayout, SameBlink, BlinkAgrees
<1>6. /\ tb' \in Boxes /\ Alike(tb, tb') /\ Still(tb, tb') /\ tb'.select = 0
  <2>1. CASE placed
    <3>1. tb' = [up EXCEPT !.on = TRUE, !.from = 0, !.to = 0, !.caret = row]
      BY <1>2, <1>4, <2>1 DEF LightUp, Boxes
    <3>. 0 \in Int /\ TRUE \in BOOLEAN
      OBVIOUS
    <3>2. tb' \in Boxes
      BY <1>4, <3>1, MarkedBox, Zenon
    <3>3. Alike(up, tb') /\ Still(up, tb') /\ tb'.select = up.select
      BY <1>4, <3>1 DEF Boxes, Alike, Still
    <3> QED
      BY <1>4, <3>2, <3>3 DEF Alike, Still
  <2>2. CASE ~placed
    BY <1>2, <1>4, <2>2
  <2> QED
    BY <2>1, <2>2
<1>7. BoxFits(tb') /\ LaidOutBesideBar' /\ SizeFollowsText'
  BY <1>1, <1>5, <1>6, AlikeFits, AlikeAgrees
<1> QED
  BY <1>1, <1>2, <1>5, <1>6, <1>7 DEF TextBoxIInv, SelectedNearPointer

-----------------------------------------------------------------------------
(* The wheel moves the bar, and what is selected is no longer looked at. *)
LEMMA WheelStep ==
  ASSUME TextBoxesAssumption, TextBoxIInv, NEW delta \in Int, Wheel(delta)
  PROVE  TextBoxIInv'
<1>1. /\ tb \in Boxes /\ world \in Worlds /\ BoxFits(tb) /\ tb.height # 0 /\ tb.value + delta \in Int
      /\ BlinkAgrees /\ LaidOutBesideBar /\ SizeFollowsText /\ SelectedNearPointer
  BY DEF TextBoxIInv, BoxFits, Wheel, Boxes
<1>2. tb' = SetBar(tb, tb.value + delta) /\ aside' = (tb.select # 0) /\ world' = world
  BY DEF Wheel
<1>3. BoxFits(tb') /\ Kept(tb, tb')
  BY <1>1, <1>2, BarFits
<1>4. LaidOutBesideBar' /\ SizeFollowsText'
  BY <1>1, <1>2, <1>3, AlikeAgrees DEF Kept, KeptText, Alike, SameLayout
<1>5. SelectedNearPointer' /\ aside' \in BOOLEAN
  BY <1>1, <1>2, <1>3 DEF SelectedNearPointer, Kept, KeptText
<1> QED
  BY <1>1, <1>2, <1>3, <1>4, <1>5 DEF TextBoxIInv, BlinkAgrees, Kept, KeptText

(* Listeners hear of a change, and a box as large as its text is laid out again. *)
LEMMA ChangeTold ==
  ASSUME NEW w \in Worlds, NEW b \in Boxes
  PROVE  LET v == OnChange(w, b)
         IN  /\ v \in Worlds /\ v.heard = b.lines /\ v.asked = (w.asked \/ b.adapt)
             /\ SameBlink(w, v) /\ SamePointer(w, v) /\ v.rect = w.rect
<1> DEFINE v == OnChange(w, b)
           ask == w.asked \/ b.adapt
<1>1. ask \in BOOLEAN /\ b.lines \in Nat
  BY DEF Boxes
<1>2. v = [w EXCEPT !.heard = b.lines, !.asked = ask, !.untold = FALSE]
  BY DEF OnChange
<1> HIDE DEF v
<1>3. v \in Worlds
  <2> HIDE DEF ask
  <2> QED
    BY <1>1, <1>2 DEF Worlds
<1>4. v.heard = b.lines /\ v.asked = ask /\ SameBlink(w, v) /\ SamePointer(w, v) /\ v.rect = w.rect
  BY <1>2 DEF Worlds, SameBlink, SamePointer
<1> QED
  BY <1>3, <1>4 DEF v

(* A text of other lines is as high as that. *)
LEMMA LinesFit ==
  ASSUME TextBoxesAssumption, BoxFits(tb), NEW n \in Nat, NEW row \in Nat
  PROVE  LET r == WithLines(tb, n, row)
         IN  /\ BoxFits(r) /\ r.lines = n /\ r.adapt = tb.adapt /\ r.height = tb.height /\ r.width = tb.width
             /\ r.shown = tb.shown /\ r.select = tb.select /\ r.turned = tb.turned
<1> DEFINE b == [tb EXCEPT !.lines = n, !.caret = row, !.from = 0, !.to = 0]
           r == WithLines(tb, n, row)
<1>1. tb \in Boxes /\ Joined(tb) /\ (tb.height = 0 => tb.scroll = 0 /\ tb.value = 0)
  BY DEF BoxFits
<1>2. b \in Boxes
  <2>1. 0 \in Int
    OBVIOUS
  <2> QED
    BY <1>1, <2>1, MarkedBox, Zenon
<1>3. /\ b.lines = n /\ b.adapt = tb.adapt /\ b.turned = tb.turned
      /\ b.height = tb.height /\ b.width = tb.width /\ b.shown = tb.shown /\ b.select = tb.select /\ Still(tb, b)
  BY <1>1 DEF Boxes, Still
<1>4. r = UpdateScrollbars(b)
  BY DEF WithLines
<1> HIDE DEF b, r
<1>5. Joined(b) /\ (b.height = 0 => b.scroll = 0 /\ b.value = 0)
  BY <1>1, <1>3 DEF Joined, Still
<1>6. BoxFits(r) /\ Kept(b, r)
  BY <1>2, <1>4, <1>5, UpdatedFits
<1> QED
  BY <1>3, <1>6 DEF Kept, KeptText, r

(* What follows from the new text *)
LEMMA TextChanged ==
  ASSUME TextBoxesAssumption, TextBoxIInv, BoxFits(tb'), world' \in Worlds, aside' \in BOOLEAN,
         tb'.adapt = tb.adapt, tb'.height = tb.height, tb'.width = tb.width, tb'.shown = tb.shown, tb'.select = tb.select,
         tb'.turned = tb.turned,
         world'.heard = tb'.lines \/ world'.untold, (tb'.adapt => world'.asked) \/ world'.unasked,
         world'.rect = world.rect, SamePointer(world, world'), BlinkAgrees', tb.select = 0 \/ aside'
  PROVE  TextBoxIInv'
<1>1. LaidOutBesideBar' /\ SizeFollowsText'
  BY DEF TextBoxIInv, LaidOutBesideBar, SizeFollowsText, visible_rect
<1>2. SelectedNearPointer'
  BY DEF TextBoxIInv, SelectedNearPointer, SamePointer
<1> QED
  BY <1>1, <1>2 DEF TextBoxIInv, SamePointer

(* Typing and moving the caret, while nothing is being selected *)
LEMMA TypeStep ==
  ASSUME TextBoxesAssumption, TextBoxIInv, NEW n \in Nat, NEW row \in Nat, TypeLines(n, row)
  PROVE  TextBoxIInv'
<1> DEFINE typed == WithLines(tb, n, row)
           lit == LightUp(typed)
           w == ResetBlink(world)
<1>1. /\ BoxFits(tb) /\ world \in Worlds /\ aside \in BOOLEAN /\ BlinkAgrees
      /\ world.focused /\ tb.select = 0
      /\ tb' = ScrollIfNeeded(lit) /\ world' = OnChange(w, tb') /\ aside' = aside
  BY DEF TextBoxIInv, TypeLines
<1>2. BoxFits(typed) /\ typed.lines = n /\ typed.adapt = tb.adapt /\ typed.height = tb.height /\ typed.width = tb.width
      /\ typed.shown = tb.shown /\ typed.select = tb.select /\ typed.turned = tb.turned
  BY <1>1, LinesFit
<1> HIDE DEF typed
<1>3. BoxFits(lit) /\ Alike(typed, lit) /\ lit.select = typed.select
  <2>1. typed \in Boxes /\ lit = [typed EXCEPT !.on = TRUE]
    BY <1>2 DEF BoxFits, LightUp
  <2>2. lit \in Boxes /\ Alike(typed, lit) /\ Still(typed, lit) /\ lit.select = typed.select
    BY <2>1 DEF Boxes, Alike, Still
  <2> HIDE DEF lit
  <2> QED
    BY <1>2, <2>2, AlikeFits
<1> HIDE DEF lit
<1>4. BoxFits(tb') /\ Kept(lit, tb')
  BY <1>1, <1>3, CaretSeenFits
<1>5. world.blinks = 0 \/ world.blinks = 1
  BY <1>1, OneBlink
<1>6. w \in Worlds /\ SamePointer(world, w) /\ w.focused /\ w.blinks = 1 /\ w.rect = world.rect
  BY <1>1, <1>5, BlinkAgain DEF SameLayout
<1> HIDE DEF w
<1>7. /\ world' \in Worlds /\ world'.heard = tb'.lines /\ world'.asked = (w.asked \/ tb'.adapt)
      /\ SameBlink(w, world') /\ SamePointer(w, world') /\ world'.rect = w.rect
  BY <1>1, <1>4, <1>6, ChangeTold DEF BoxFits
<1>8. /\ tb'.adapt = tb.adapt /\ tb'.height = tb.height /\ tb'.width = tb.width /\ tb'.shown = tb.shown
      /\ tb'.select = tb.select /\ tb'.turned = tb.turned
  BY <1>2, <1>3, <1>4 DEF Alike, Kept, KeptText
<1>9. BlinkAgrees' /\ SamePointer(world, world')
  BY <1>6, <1>7 DEF SameBlink, SamePointer, BlinkAgrees
<1> QED
  BY <1>1, <1>4, <1>6, <1>7, <1>8, <1>9, TextChanged

(* Moving the caret scrolls to it. *)
LEMMA KeyMoveStep ==
  ASSUME TextBoxesAssumption, TextBoxIInv, NEW row \in Nat, KeyMove(row)
  PROVE  TextBoxIInv'
<1> DEFINE moved == [tb EXCEPT !.caret = row, !.from = 0, !.to = 0]
           lit == LightUp(moved)
<1>1. /\ tb \in Boxes /\ BoxFits(tb) /\ world \in Worlds /\ aside \in BOOLEAN /\ BlinkAgrees /\ LaidOutBesideBar /\ SizeFollowsText
      /\ world.focused /\ tb.select = 0 /\ (world.blinks = 0 \/ world.blinks = 1) /\ (world.captured => tb.height # 0)
      /\ tb' = ScrollIfNeeded(lit) /\ world' = ResetBlink(world) /\ aside' = aside
  BY OneBlink DEF TextBoxIInv, KeyMove, BoxFits
<1>2. BoxFits(lit) /\ Alike(tb, lit) /\ lit.select = tb.select
  <2>1. lit = [tb EXCEPT !.on = TRUE, !.caret = row, !.from = 0, !.to = 0]
    BY <1>1 DEF LightUp, Boxes
  <2> HIDE DEF lit
  <2>. 0 \in Int /\ TRUE \in BOOLEAN
    OBVIOUS
  <2>2. lit \in Boxes
    BY <1>1, <2>1, MarkedBox, Zenon
  <2>3. Alike(tb, lit) /\ Still(tb, lit) /\ lit.select = tb.select
    BY <1>1, <2>1 DEF Boxes, Alike, Still
  <2> QED
    BY <1>1, <2>2, <2>3, AlikeFits
<1> HIDE DEF lit
<1>3. BoxFits(tb') /\ Kept(lit, tb')
  BY <1>1, <1>2, CaretSeenFits
<1>4. Alike(tb, tb') /\ tb'.select = 0
  BY <1>1, <1>2, <1>3 DEF Alike, Kept, KeptText
<1>5. /\ world' \in Worlds /\ SameLayout(world, world') /\ SamePointer(world, world') /\ world'.focused
      /\ world'.blinks = 1
  BY <1>1, BlinkAgain
<1>6. LaidOutBesideBar' /\ SizeFollowsText'
  BY <1>1, <1>4, <1>5, AlikeAgrees
<1>7. BlinkAgrees' /\ SelectedNearPointer'
  BY <1>1, <1>4, <1>5 DEF BlinkAgrees, SelectedNearPointer
<1> QED
  BY <1>1, <1>3, <1>4, <1>5, <1>6, <1>7 DEF TextBoxIInv, SamePointer, Alike

(* A text that is set is told of like one that is typed, if it is not empty. *)
LEMMA SetTextStep ==
  ASSUME TextBoxesAssumption, TextBoxIInv, NEW n \in Set, SetText(n)
  PROVE  TextBoxIInv'
<1> DEFINE taken == Taken(n)
           cleared == WithLines(tb, taken, 0)
<1>1. /\ BoxFits(tb) /\ world \in Worlds /\ BlinkAgrees /\ taken \in Nat /\ aside' = (tb.select # 0)
      /\ tb' = IF n = 0 THEN ScrollIfNeeded(cleared) ELSE SetScrollPos(cleared, cleared.scroll)
      /\ world' = IF n = 0 THEN [world EXCEPT !.untold = TRUE, !.unasked = TRUE] ELSE OnChange(world, tb')
  BY DEF TextBoxIInv, SetText, TextBoxesAssumption, Taken, Smaller
<1> HIDE DEF taken
<1>2. /\ BoxFits(cleared) /\ cleared.adapt = tb.adapt /\ cleared.height = tb.height /\ cleared.width = tb.width
      /\ cleared.shown = tb.shown /\ cleared.select = tb.select /\ cleared.turned = tb.turned
  BY <1>1, LinesFit
<1> HIDE DEF cleared
<1>3. BoxFits(tb') /\ Kept(cleared, tb')
  <2>1. cleared \in Boxes /\ ContentHeight(cleared) \in Nat /\ cleared.scroll \in Int
    BY <1>2, RowsOfText DEF BoxFits, Boxes
  <2>2. CASE n = 0
    BY <1>1, <1>2, <2>2, CaretSeenFits
  <2>3. CASE n # 0 /\ cleared.height # 0
    BY <1>1, <1>2, <2>1, <2>3, ScrolledFits
  <2>4. CASE n # 0 /\ cleared.height = 0
    <3>1. cleared.scroll = 0 /\ Joined(cleared)
      BY <1>2, <2>4 DEF BoxFits
    <3>2. SetScrollPos(cleared, cleared.scroll) = cleared
      BY <2>1, <2>4, <3>1 DEF SetScrollPos, Larger, Smaller
    <3> QED
      BY <1>1, <1>2, <2>4, <3>2 DEF Kept, KeptText
  <2> QED
    BY <2>2, <2>3, <2>4
<1>4. /\ world' \in Worlds /\ (world'.heard = tb'.lines \/ world'.untold)
      /\ (tb'.adapt => world'.asked) \/ world'.unasked
      /\ SameBlink(world, world') /\ SamePointer(world, world') /\ world'.rect = world.rect
  <2>1. CASE n = 0
    BY <1>1, <2>1 DEF Worlds, SameBlink, SamePointer
  <2>2. CASE n # 0
    BY <1>1, <1>3, <2>2, ChangeTold DEF BoxFits
  <2> QED
    BY <2>1, <2>2
<1>5. aside' \in BOOLEAN /\ (tb.select = 0 \/ aside')
  BY <1>1
<1>6. /\ tb'.adapt = tb.adapt /\ tb'.height = tb.height /\ tb'.width = tb.width /\ tb'.shown = tb.shown
      /\ tb'.select = tb.select /\ tb'.turned = tb.turned
  BY <1>2, <1>3 DEF Kept, KeptText
<1>7. BlinkAgrees'
  BY <1>1, <1>4 DEF BlinkAgrees, SameBlink
<1> QED
  BY <1>3, <1>4, <1>5, <1>6, <1>7, TextChanged

-----------------------------------------------------------------------------
(* A box as large as its text asks to be laid out. *)
LEMMA LayoutAsked ==
  ASSUME NEW w \in Worlds, NEW b \in Boxes
  PROVE  LET v == InvalidateLayout(w, b)
         IN  /\ v \in Worlds /\ v.asked = (w.asked \/ b.adapt) /\ SamePointer(w, v) /\ SameBlink(w, v)
             /\ v.rect = w.rect /\ v.measured = w.measured /\ v.within = w.within /\ v.heard = w.heard
             /\ v.untold = w.untold /\ v.unasked = w.unasked
<1> DEFINE ask == w.asked \/ b.adapt
           v == InvalidateLayout(w, b)
<1>1. ask \in BOOLEAN /\ v = [w EXCEPT !.asked = ask]
  BY DEF InvalidateLayout
<1> HIDE DEF ask, v
<1>2. v \in Worlds
  BY <1>1 DEF Worlds
<1>3. /\ v.asked = ask /\ SamePointer(w, v) /\ SameBlink(w, v)
      /\ v.rect = w.rect /\ v.measured = w.measured /\ v.within = w.within /\ v.heard = w.heard
      /\ v.untold = w.untold /\ v.unasked = w.unasked
  BY <1>1 DEF Worlds, SamePointer, SameBlink
<1> QED
  BY <1>2, <1>3 DEF ask, v

(* What another kind of box disturbs *)
LEMMA KindChanged ==
  ASSUME TextBoxesAssumption, TextBoxIInv, NEW b, NEW w \in Worlds, Kind(b, w), BoxFits(b),
         b.lines = tb.lines, b.height = tb.height, b.width = tb.width, b.select = tb.select, b.to = tb.to,
         b.virtual_width = tb.virtual_width, b.turned \/ (~tb.turned /\ b.shown = tb.shown),
         SamePointer(world, w), SameBlink(world, w), w.rect = world.rect, w.measured = world.measured,
         w.within = world.within, w.heard = world.heard, w.untold = world.untold,
         \/ w.unasked
         \/ b.adapt => w.asked
         \/ b.adapt = tb.adapt /\ b.wrapping = tb.wrapping /\ w.asked = world.asked /\ w.unasked = world.unasked
  PROVE  TextBoxIInv'
<1>1. tb' = b /\ world' = w /\ aside' = (aside \/ tb'.scroll # tb.scroll)
  BY DEF Kind
<1>2. LaidOutBesideBar'
  BY <1>1 DEF TextBoxIInv, LaidOutBesideBar, visible_rect
<1>3. SizeFollowsText'
  <2>1. world'.heard = tb'.lines \/ world'.untold
    BY <1>1 DEF TextBoxIInv, SizeFollowsText
  <2>2. ASSUME tb'.adapt, ~world'.asked, ~world'.unasked
        PROVE  world'.measured = RowsIn(tb', MeasuredIn(tb', world'.within))
    <3>1. b.adapt = tb.adapt /\ b.wrapping = tb.wrapping /\ w.asked = world.asked /\ w.unasked = world.unasked
      BY <1>1, <2>2
    <3>2. world.measured = RowsIn(tb, MeasuredIn(tb, world.within))
      BY <1>1, <2>2, <3>1 DEF TextBoxIInv, SizeFollowsText
    <3> QED
      BY <1>1, <3>1, <3>2 DEF RowsIn, MeasuredIn
  <2> QED
    BY <2>1, <2>2 DEF SizeFollowsText
<1>4. SelectedNearPointer' /\ BlinkAgrees' /\ aside' \in BOOLEAN
  BY <1>1 DEF TextBoxIInv, SelectedNearPointer, BlinkAgrees, SamePointer, SameBlink
<1> QED
  BY <1>1, <1>2, <1>3, <1>4 DEF TextBoxIInv, SamePointer

(* Lines that wrap or no longer do *)
LEMMA WrappingFits ==
  ASSUME TextBoxesAssumption, NEW b, BoxFits(b), NEW wrapping \in BOOLEAN
  PROVE  LET r == Wrapping(b, wrapping)
         IN  /\ BoxFits(r) /\ r.lines = b.lines /\ r.height = b.height /\ r.width = b.width /\ r.select = b.select
             /\ r.to = b.to /\ r.virtual_width = b.virtual_width /\ r.turned = b.turned /\ r.shown = b.shown
             /\ r.adapt = b.adapt /\ r.wrapping = wrapping
<1> DEFINE d == [b EXCEPT !.wrapping = wrapping]
           r == Wrapping(b, wrapping)
<1>1. b \in Boxes /\ Joined(b) /\ (b.height = 0 => b.scroll = 0 /\ b.value = 0)
  BY DEF BoxFits
<1>2. /\ d \in Boxes /\ d.lines = b.lines /\ d.height = b.height /\ d.width = b.width /\ d.select = b.select
      /\ d.to = b.to /\ d.virtual_width = b.virtual_width /\ d.turned = b.turned /\ d.shown = b.shown
      /\ d.adapt = b.adapt /\ d.wrapping = wrapping /\ Still(b, d)
  BY <1>1 DEF Boxes, Still
<1>3. r = IF wrapping = b.wrapping THEN b ELSE UpdateScrollbars(d)
  BY DEF Wrapping
<1>4. Joined(d) /\ (d.height = 0 => d.scroll = 0 /\ d.value = 0)
  BY <1>1, <1>2 DEF Joined, Still
<1> HIDE DEF d, r
<1>5. CASE wrapping = b.wrapping
  BY <1>3, <1>5 DEF r
<1>6. CASE wrapping # b.wrapping
  <2>1. BoxFits(r) /\ Kept(d, r)
    BY <1>2, <1>3, <1>4, <1>6, UpdatedFits
  <2> QED
    BY <1>2, <2>1 DEF Kept, KeptText, r
<1> QED
  BY <1>5, <1>6

(* Whichever kind it becomes *)
LEMMA KindStep ==
  ASSUME TextBoxesAssumption, TextBoxIInv, NEW on \in BOOLEAN,
         set_multiline(on) \/ set_wrapping(on) \/ set_adapt_to_content_size(on) \/ set_read_only(on)
  PROVE  TextBoxIInv'
<1>1. /\ tb \in Boxes /\ world \in Worlds /\ BoxFits(tb)
  BY DEF TextBoxIInv, BoxFits
<1>2. /\ InvalidateLayout(world, tb) \in Worlds /\ InvalidateLayout(world, tb).asked = (world.asked \/ tb.adapt)
      /\ SamePointer(world, InvalidateLayout(world, tb)) /\ SameBlink(world, InvalidateLayout(world, tb))
      /\ InvalidateLayout(world, tb).rect = world.rect /\ InvalidateLayout(world, tb).measured = world.measured
      /\ InvalidateLayout(world, tb).within = world.within /\ InvalidateLayout(world, tb).heard = world.heard
      /\ InvalidateLayout(world, tb).untold = world.untold /\ InvalidateLayout(world, tb).unasked = world.unasked
  BY <1>1, LayoutAsked
<1>3. SamePointer(world, world) /\ SameBlink(world, world)
  BY DEF SamePointer, SameBlink
<1>4. CASE set_multiline(on)
  <2> DEFINE beside == on /\ ~tb.adapt
             changed == tb.turned \/ beside # tb.shown
             c == [UpdateScrollbarVisibility(tb, on) EXCEPT !.multiline = on]
             b == Wrapping(c, on)
             w == IF b.wrapping # tb.wrapping THEN InvalidateLayout(world, tb) ELSE world
  <2>1. Kind(b, w)
    BY <1>4 DEF set_multiline
  <2>2. c = [tb EXCEPT !.shown = beside, !.turned = changed, !.multiline = on]
    BY <1>1 DEF UpdateScrollbarVisibility, Boxes
  <2>3. beside \in BOOLEAN /\ changed \in BOOLEAN
    BY <1>1 DEF Boxes
  <2> HIDE DEF c
  <2>4. c.turned \/ (~tb.turned /\ c.shown = tb.shown)
    <3>1. c.turned = changed /\ c.shown = beside
      BY <1>1, <2>2 DEF Boxes
    <3> QED
      BY <3>1
  <2> HIDE DEF beside, changed
  <2>5. /\ c \in Boxes /\ c.height = tb.height /\ c.lines = tb.lines /\ c.width = tb.width /\ c.select = tb.select
        /\ c.to = tb.to /\ c.virtual_width = tb.virtual_width /\ c.adapt = tb.adapt /\ c.wrapping = tb.wrapping
        /\ Still(tb, c)
    <3>1. c \in Boxes
      BY <1>1, <2>2, <2>3 DEF Boxes
    <3> QED
      BY <1>1, <2>2, <3>1 DEF Boxes, Still
  <2>6. BoxFits(c)
    <3>1. ContentHeight(c) = ContentHeight(tb)
      BY <2>5 DEF ContentHeight, Rows, RowsIn
    <3> QED
      BY <1>1, <2>5, <3>1 DEF BoxFits, Joined, Still
  <2>7. /\ BoxFits(b) /\ b.lines = c.lines /\ b.height = c.height /\ b.width = c.width /\ b.select = c.select
        /\ b.to = c.to /\ b.virtual_width = c.virtual_width /\ b.turned = c.turned /\ b.shown = c.shown
        /\ b.adapt = c.adapt
    BY <2>6, WrappingFits
  <2> HIDE DEF b
  <2>8. /\ w \in Worlds /\ SamePointer(world, w) /\ SameBlink(world, w) /\ w.rect = world.rect
        /\ w.measured = world.measured /\ w.within = world.within /\ w.heard = world.heard /\ w.untold = world.untold
        /\ \/ b.adapt => w.asked
           \/ b.adapt = tb.adapt /\ b.wrapping = tb.wrapping /\ w.asked = world.asked /\ w.unasked = world.unasked
    BY <1>1, <1>2, <1>3, <2>5, <2>7
  <2> HIDE DEF w
  <2> QED
    BY <2>1, <2>4, <2>5, <2>7, <2>8, KindChanged
<1>5. CASE set_wrapping(on)
  <2> DEFINE b == Wrapping(tb, on)
             w == InvalidateLayout(world, tb)
  <2>1. Kind(b, w)
    BY <1>5 DEF set_wrapping
  <2>2. /\ BoxFits(b) /\ b.lines = tb.lines /\ b.height = tb.height /\ b.width = tb.width /\ b.select = tb.select
        /\ b.to = tb.to /\ b.virtual_width = tb.virtual_width /\ b.turned = tb.turned /\ b.shown = tb.shown
        /\ b.adapt = tb.adapt
    BY <1>1, WrappingFits
  <2> HIDE DEF b
  <2>3. b.adapt => w.asked
    BY <1>2, <2>2
  <2>4. tb.turned \in BOOLEAN
    BY <1>1 DEF Boxes
  <2> QED
    BY <1>2, <2>1, <2>2, <2>3, <2>4, KindChanged
<1>6. CASE set_adapt_to_content_size(on)
  <2> DEFINE beside == tb.multiline /\ ~on
             changed == tb.turned \/ beside # tb.shown
             b == UpdateScrollbarVisibility([tb EXCEPT !.adapt = on], tb.multiline)
             w == [world EXCEPT !.unasked = TRUE]
  <2>1. Kind(b, w)
    BY <1>6 DEF set_adapt_to_content_size
  <2>2. b = [tb EXCEPT !.adapt = on, !.shown = beside, !.turned = changed]
    BY <1>1 DEF UpdateScrollbarVisibility, Boxes
  <2>3. beside \in BOOLEAN /\ changed \in BOOLEAN
    BY <1>1 DEF Boxes
  <2> HIDE DEF b
  <2>4. b.turned \/ (~tb.turned /\ b.shown = tb.shown)
    <3>1. b.turned = changed /\ b.shown = beside
      BY <1>1, <2>2 DEF Boxes
    <3> QED
      BY <3>1
  <2> HIDE DEF beside, changed
  <2>5. /\ b \in Boxes /\ b.height = tb.height /\ b.lines = tb.lines /\ b.width = tb.width /\ b.select = tb.select
        /\ b.to = tb.to /\ b.virtual_width = tb.virtual_width /\ b.wrapping = tb.wrapping /\ Still(tb, b)
    <3>1. b \in Boxes
      BY <1>1, <2>2, <2>3 DEF Boxes
    <3> QED
      BY <1>1, <2>2, <3>1 DEF Boxes, Still
  <2>6. BoxFits(b)
    <3>1. ContentHeight(b) = ContentHeight(tb)
      BY <2>5 DEF ContentHeight, Rows, RowsIn
    <3> QED
      BY <1>1, <2>5, <3>1 DEF BoxFits, Joined, Still
  <2>7. /\ w \in Worlds /\ SamePointer(world, w) /\ SameBlink(world, w) /\ w.rect = world.rect /\ w.unasked
        /\ w.measured = world.measured /\ w.within = world.within /\ w.heard = world.heard /\ w.untold = world.untold
    BY <1>1 DEF Worlds, SamePointer, SameBlink
  <2> HIDE DEF w
  <2> QED
    BY <2>1, <2>4, <2>5, <2>6, <2>7, KindChanged
<1>7. CASE set_read_only(on)
  <2> DEFINE b == [tb EXCEPT !.read_only = on]
  <2>1. Kind(b, world)
    BY <1>7 DEF set_read_only
  <2>2. b \in Boxes /\ Alike(tb, b) /\ Still(tb, b) /\ b.select = tb.select /\ b.to = tb.to
    BY <1>1 DEF Boxes, Alike, Still
  <2> HIDE DEF b
  <2>3. BoxFits(b) /\ tb.turned \in BOOLEAN
    BY <1>1, <2>2, AlikeFits DEF Boxes
  <2> QED
    BY <1>1, <1>3, <2>1, <2>2, <2>3, KindChanged DEF Alike
<1> QED
  BY <1>4, <1>5, <1>6, <1>7

(* A box is measured in its virtual width, if its lines wrap. *)
LEMMA VirtualWidthStep ==
  ASSUME TextBoxesAssumption, TextBoxIInv, NEW width \in Int, set_virtual_width(width)
  PROVE  TextBoxIInv'
<1>1. /\ tb \in Boxes /\ world \in Worlds /\ aside \in BOOLEAN /\ BoxFits(tb)
      /\ tb' = [tb EXCEPT !.virtual_width = width] /\ aside' = aside
      /\ world' = IF tb.wrapping THEN InvalidateLayout(world, tb) ELSE world
  BY DEF TextBoxIInv, BoxFits, set_virtual_width
<1>2. tb' \in Boxes
  BY <1>1 DEF Boxes
<1>3. /\ tb'.multiline = tb.multiline /\ tb'.wrapping = tb.wrapping /\ tb'.adapt = tb.adapt /\ tb'.lines = tb.lines
      /\ tb'.width = tb.width /\ tb'.height = tb.height /\ tb'.shown = tb.shown /\ tb'.select = tb.select /\ tb'.to = tb.to
      /\ Still(tb, tb') /\ tb'.turned = tb.turned
  BY <1>1 DEF Boxes, Still
<1>4. \A i : RowsIn(tb', i) = RowsIn(tb, i)
  BY <1>3 DEF RowsIn
<1>5. BoxFits(tb')
  <2>1. ContentHeight(tb') = ContentHeight(tb)
    BY <1>3, <1>4 DEF ContentHeight, Rows
  <2> QED
    BY <1>1, <1>2, <1>3, <2>1 DEF BoxFits, Still, Joined
<1>6. /\ world' \in Worlds /\ SamePointer(world, world') /\ SameBlink(world, world')
      /\ world'.heard = world.heard /\ world'.rect = world.rect /\ world'.within = world.within
      /\ world'.measured = world.measured /\ world'.untold = world.untold /\ world'.unasked = world.unasked
      /\ world'.asked = IF tb.wrapping THEN world.asked \/ tb.adapt ELSE world.asked
  <2>1. CASE tb.wrapping
    BY <1>1, <2>1, LayoutAsked
  <2>2. CASE ~tb.wrapping
    BY <1>1, <2>2 DEF SamePointer, SameBlink
  <2> QED
    BY <2>1, <2>2
<1>7. SizeFollowsText'
  <2>1. world'.heard = tb'.lines \/ world'.untold
    BY <1>3, <1>6 DEF TextBoxIInv, SizeFollowsText
  <2>2. ASSUME tb'.adapt, ~world'.asked, ~world'.unasked
        PROVE  world'.measured = RowsIn(tb', MeasuredIn(tb', world'.within))
    <3>1. ~tb.wrapping /\ ~world.asked /\ ~world.unasked /\ tb.adapt
      BY <1>3, <1>6, <2>2
    <3>2. world.measured = RowsIn(tb, MeasuredIn(tb, world.within))
      BY <3>1 DEF TextBoxIInv, SizeFollowsText
    <3>3. MeasuredIn(tb, world.within) \in Int /\ MeasuredIn(tb', world.within) \in Int
      BY <1>1, <1>2 DEF MeasuredIn, Boxes, Worlds
    <3>4. RowsIn(tb, MeasuredIn(tb', world.within)) = RowsIn(tb, MeasuredIn(tb, world.within))
      BY <1>1, <3>1, <3>3, RowsOfText
    <3> QED
      BY <1>4, <1>6, <3>2, <3>4
  <2> QED
    BY <2>1, <2>2 DEF SizeFollowsText
<1>8. LaidOutBesideBar'
  BY <1>3, <1>6 DEF TextBoxIInv, LaidOutBesideBar, visible_rect
<1>9. SelectedNearPointer' /\ BlinkAgrees'
  BY <1>1, <1>3, <1>6 DEF TextBoxIInv, SelectedNearPointer, BlinkAgrees, Still, SamePointer, SameBlink
<1> QED
  BY <1>1, <1>3, <1>5, <1>6, <1>7, <1>8, <1>9 DEF TextBoxIInv, SamePointer

(* It is measured again, if that is asked for or it has other room, and given a size. *)
LEMMA RelayoutStep ==
  ASSUME TextBoxesAssumption, HasRoom, TextBoxIInv, NEW rect \in Rects, NEW within \in Int, Relayout(rect, within)
  PROVE  TextBoxIInv'
<1> DEFINE measures == world.asked \/ (world.dependent /\ within # world.within)
           size == OnCalculatePreferredContentSize(tb, within)
           sized == IF measures THEN size.box ELSE tb
           depends == tb.adapt /\ tb.wrapping
           told == [world EXCEPT !.asked = FALSE, !.unasked = FALSE, !.measured = size.rows, !.within = within,
                                 !.dependent = depends]
           seen == IF measures THEN told ELSE world
<1>1. /\ tb \in Boxes /\ world \in Worlds /\ BoxFits(tb) /\ aside' = (tb.select # 0)
      /\ LaidOutBesideBar /\ SizeFollowsText /\ SelectedNearPointer /\ BlinkAgrees
      /\ world' = [seen EXCEPT !.rect = rect]
      /\ tb' = IF rect = world.rect THEN sized ELSE BoxResized(sized, rect)
  BY DEF TextBoxIInv, BoxFits, Relayout
<1>2. BoxFits(size.box) /\ Kept(tb, size.box) /\ size.rows \in Int
      /\ (tb.adapt => size.rows = RowsIn(tb, MeasuredIn(tb, within)))
  BY <1>1, MeasuredFits
<1>3. rect \in [w : Int, h : Int] /\ depends \in BOOLEAN
  BY <1>1 DEF TextBoxesAssumption, Boxes
<1> HIDE DEF size, depends
<1>4. /\ told \in Worlds /\ SamePointer(world, told) /\ SameBlink(world, told) /\ told.heard = world.heard
      /\ told.untold = world.untold /\ told.measured = size.rows /\ told.within = within
  <2>1. told \in Worlds
    BY <1>1, <1>2, <1>3 DEF Worlds
  <2> QED
    BY <1>1, <2>1 DEF Worlds, SamePointer, SameBlink
<1> HIDE DEF told
<1>5. BoxFits(sized) /\ Kept(tb, sized)
  BY <1>1, <1>2 DEF Kept, KeptText
<1>6. /\ seen \in Worlds /\ SamePointer(world, seen) /\ SameBlink(world, seen) /\ seen.heard = world.heard
      /\ seen.untold = world.untold
      /\ tb.adapt => seen = world \/ seen.measured = RowsIn(tb, MeasuredIn(tb, seen.within))
  BY <1>1, <1>2, <1>4 DEF SamePointer, SameBlink
<1> HIDE DEF sized, seen, measures
<1>7. /\ world' \in Worlds /\ SamePointer(seen, world') /\ SameBlink(seen, world') /\ world'.heard = seen.heard
      /\ world'.untold = seen.untold /\ world'.measured = seen.measured /\ world'.within = seen.within
      /\ world'.asked = seen.asked /\ world'.unasked = seen.unasked /\ world'.rect = rect
  <2>1. world' \in Worlds
    BY <1>1, <1>3, <1>6 DEF Worlds
  <2> QED
    BY <1>1, <1>6, <2>1 DEF Worlds, SamePointer, SameBlink
<1>8. /\ BoxFits(tb') /\ KeptText(tb, tb') /\ (tb.height # 0 => tb'.height # 0)
      /\ tb'.height > 0 /\ ~tb'.turned => tb'.width = visible_rect(tb', rect).w
  <2>1. CASE rect = world.rect
    <3>1. tb' = sized
      BY <1>1, <2>1
    <3>2. visible_rect(sized, rect).w = visible_rect(tb, rect).w /\ sized.height = tb.height /\ sized.width = tb.width
          /\ sized.turned = tb.turned
      BY <1>5 DEF Kept, KeptText, visible_rect
    <3> QED
      BY <1>1, <1>5, <2>1, <3>1, <3>2 DEF Kept, LaidOutBesideBar
  <2>2. CASE rect # world.rect
    BY <1>1, <1>5, <2>2, ResizedFits DEF Kept, KeptText
  <2> QED
    BY <2>1, <2>2
<1>9. LaidOutBesideBar'
  BY <1>7, <1>8 DEF LaidOutBesideBar
<1>10. SizeFollowsText'
  <2>1. world'.heard = tb'.lines \/ world'.untold
    BY <1>1, <1>6, <1>7, <1>8 DEF SizeFollowsText, KeptText
  <2>2. \A i : RowsIn(tb', MeasuredIn(tb', i)) = RowsIn(tb, MeasuredIn(tb, i))
    BY <1>8 DEF RowsIn, MeasuredIn, KeptText
  <2>3. ASSUME tb'.adapt, ~world'.asked, ~world'.unasked
        PROVE  world'.measured = RowsIn(tb', MeasuredIn(tb', world'.within))
    <3>1. tb.adapt
      BY <1>8, <2>3 DEF KeptText
    <3>2. CASE seen = world
      BY <1>1, <1>7, <1>8, <2>2, <2>3, <3>1, <3>2 DEF SizeFollowsText
    <3>3. CASE seen # world
      BY <1>6, <1>7, <2>2, <3>1, <3>3
    <3> QED
      BY <3>2, <3>3
  <2> QED
    BY <2>1, <2>3 DEF SizeFollowsText
<1>11. SelectedNearPointer' /\ BlinkAgrees' /\ aside' \in BOOLEAN
  BY <1>1, <1>6, <1>7, <1>8 DEF SelectedNearPointer, BlinkAgrees, SamePointer, SameBlink, KeptText
<1>12. (world'.captured => tb'.height # 0) /\ (tb'.height = 0 => tb'.select = 0)
  BY <1>6, <1>7, <1>8 DEF TextBoxIInv, SamePointer, KeptText
<1> QED
  BY <1>7, <1>8, <1>9, <1>10, <1>11, <1>12 DEF TextBoxIInv

-----------------------------------------------------------------------------
(* A new box is empty, and nobody looks at it. *)
LEMMA TextBoxStarts ==
  ASSUME TextBoxesAssumption, InitTextBox
  PROVE  TextBoxIInv
<1>1. tb \in Boxes /\ world \in Worlds /\ aside \in BOOLEAN
  <2>1. Wide \in Int /\ 0 \in Int /\ 0 \in Nat /\ 1 \in Int /\ FALSE \in BOOLEAN /\ TRUE \in BOOLEAN
    BY DEF TextBoxesAssumption
  <2>2. tb \in Boxes
    BY <2>1, Zenon DEF InitTextBox, Boxes
  <2>3. world \in Worlds
    BY <2>1, Zenon DEF InitTextBox, Worlds
  <2> QED
    BY <2>2, <2>3 DEF InitTextBox
<1>2. BoxFits(tb)
  BY <1>1 DEF InitTextBox, BoxFits, Joined
<1>3. BlinkAgrees /\ LaidOutBesideBar /\ SizeFollowsText /\ SelectedNearPointer
  BY DEF InitTextBox, BlinkAgrees, LaidOutBesideBar, SizeFollowsText, SelectedNearPointer
<1> QED
  BY <1>1, <1>2, <1>3 DEF TextBoxIInv, InitTextBox

(* Whatever is done to it, a text box stays as it should be. *)
LEMMA TextBoxSteps ==
  ASSUME TextBoxesAssumption, HasRoom, TextBoxIInv, [TextBoxNext]_textBoxVars
  PROVE  TextBoxIInv'
<1>1. CASE Blink \/ FocusBox \/ LoseFocus
  BY <1>1, BlinkStep
<1>2. CASE SelScroll
  BY <1>2, SelScrollStep
<1>3. CASE \E y \in Pointers : PointerMove(y) \/ \E touch \in BOOLEAN, clicks \in {1, 2} : PointerDown(y, touch, clicks)
  BY <1>3, PointerMoveStep, PointerDownStep
<1>4. MaxLines \in Nat /\ 0 .. MaxLines - 1 \subseteq Nat /\ 0 .. MaxLines \subseteq Nat
  BY DEF TextBoxesAssumption
<1>5. CASE \E row \in 0 .. MaxLines - 1, cancel_click \in BOOLEAN : PointerUp(row, cancel_click)
  BY <1>4, <1>5, PointerUpStep
<1>6. CASE \E delta \in {-FontHeight, FontHeight} : Wheel(delta)
  <2>1. {-FontHeight, FontHeight} \subseteq Int
    BY DEF TextBoxesAssumption
  <2> QED
    BY <1>6, <2>1, WheelStep
<1>7. CASE \E n \in 0 .. MaxLines, row \in 0 .. MaxLines - 1 : TypeLines(n, row)
  BY <1>4, <1>7, TypeStep
<1>8. CASE \E row \in 0 .. MaxLines - 1 : KeyMove(row)
  BY <1>4, <1>8, KeyMoveStep
<1>9. CASE \E n \in Set : SetText(n)
  BY <1>9, SetTextStep
<1>10. CASE \E on \in BOOLEAN : set_multiline(on) \/ set_wrapping(on) \/ set_adapt_to_content_size(on) \/ set_read_only(on)
  BY <1>10, KindStep
<1>11. CASE \E width \in {Wide - 1, Wide} : set_virtual_width(width)
  <2>1. {Wide - 1, Wide} \subseteq Int
    BY DEF TextBoxesAssumption
  <2> QED
    BY <1>11, <2>1, VirtualWidthStep
<1>12. CASE \E rect \in Rects, within \in {0, Wide - 1} : Relayout(rect, within)
  <2>1. {0, Wide - 1} \subseteq Int
    BY DEF TextBoxesAssumption
  <2> QED
    BY <1>12, <2>1, RelayoutStep
<1>13. CASE UNCHANGED textBoxVars
  BY <1>13 DEF textBoxVars, TextBoxIInv, BlinkAgrees, LaidOutBesideBar, SizeFollowsText, SelectedNearPointer, visible_rect
<1> QED
  BY <1>1, <1>2, <1>3, <1>5, <1>6, <1>7, <1>8, <1>9, <1>10, <1>11, <1>12, <1>13 DEF TextBoxNext

(* Of any text box, with any padding, whatever is typed, set, dragged and called
   in any order, once it is laid out with room: the messages that blink its caret
   agree with its focus, its bar with the view, which goes as far, the text is
   laid out beside the bar, a box as large as its text is measured with it, and
   text is selected up to the pointer, but for the padding (text_box.cc, text_view.cc
   SetScrollPos, SetLayoutSize, MouseMove).  What the code leaves as it is, is
   excepted where the auxiliary fields say so. *)
THEOREM TextBoxNearlySafe ==
  ASSUME TextBoxesAssumption, HasRoom
  PROVE  TextBoxSpec => [](BlinkAgrees /\ BarAgrees /\ LaidOutBesideBar /\ SizeFollowsText /\ SelectedNearPointer)
<1>1. InitTextBox => TextBoxIInv
  BY TextBoxStarts
<1>2. TextBoxIInv /\ [TextBoxNext]_textBoxVars => TextBoxIInv'
  BY TextBoxSteps
<1>3. TextBoxIInv => BlinkAgrees /\ BarAgrees /\ LaidOutBesideBar /\ SizeFollowsText /\ SelectedNearPointer
  BY DEF TextBoxIInv, BoxFits, Joined, BarAgrees
<1> QED
  BY <1>1, <1>2, <1>3, PTL DEF TextBoxSpec

(* Without padding text is selected up to the pointer itself (text_box.cc
   OnMessageReceived takes the pointer's place in the box for one in its padding
   rect). *)
THEOREM TextBoxSafe ==
  ASSUME TextBoxesAssumption, HasRoom, Padding = 0
  PROVE  TextBoxSpec => []TextBoxAgrees
<1>1. InitTextBox => TextBoxIInv
  BY TextBoxStarts
<1>2. TextBoxIInv /\ [TextBoxNext]_textBoxVars => TextBoxIInv'
  BY TextBoxSteps
<1>3. TextBoxIInv => TextBoxAgrees
  <2> SUFFICES ASSUME TextBoxIInv
               PROVE  TextBoxAgrees
    OBVIOUS
  <2>1. BarAgrees
    BY DEF TextBoxIInv, BoxFits, Joined, BarAgrees
  <2>2. SelectedToPointer
    BY DEF TextBoxIInv, BoxFits, Boxes, Worlds, SelectedNearPointer, SelectedToPointer
  <2> QED
    BY <2>1, <2>2 DEF TextBoxIInv, TextBoxAgrees
<1> QED
  BY <1>1, <1>2, <1>3, PTL DEF TextBoxSpec
=============================================================================
