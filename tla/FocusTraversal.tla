--------------------------- MODULE FocusTraversal ---------------------------
(***************************************************************************)
(* Moving the keyboard focus through the element tree (GetNextDeep,        *)
(* GetPrevDeep, GetLastLeaf, MoveFocus and set_focus_recursive of          *)
(* src/el/element.cc).                                                     *)
(*                                                                         *)
(* Elements are numbered in document order, the root is 1, so that a tree  *)
(* is given by the parent of each element: any tree is chosen at first.    *)
(***************************************************************************)
EXTENDS Integers, FiniteSets, FiniteSetsExt

CONSTANTS N,              \* the number of elements
          no_element,
          Unfocused       \* whether there may be no focused element

(* Assumed of the constants where they get their values *)
FocusAssumption == N \in Nat \ {0} /\ no_element \notin 0..N /\ Unfocused \in BOOLEAN

Node == 1..N
Root == 1

VARIABLES parent,                      \* m_parent, no_element for the root
          forms,                       \* the elements that are a Form
          accepts,                     \* those whose set_focus succeeds
          focused_element,
          pc,                          \* "idle", "move", "search" or "done"
          root, origin, current, forward,
          tried,                       \* ghost: set_focus was called on these
          result

treeVars == <<parent, forms, accepts>>
walkVars == <<treeVars, focused_element, pc, root, origin, current, forward, tried, result>>

-----------------------------------------------------------------------------
(* The tree *)

AncestorsOf(e, up) ==
  LET from[a \in Node] == {a} \cup (IF up[a] = no_element THEN {} ELSE from[up[a]])
  IN  from[e]

(* Numbered in document order: an element follows the one before it as its
   child, or as the next child of that one or of one of its ancestors. *)
Tree(up) ==
  /\ up[Root] = no_element
  /\ \A e \in Node \ {Root} : up[e] \in 1..(e - 1)
  /\ \A e \in Node \ {Root} : up[e] \in AncestorsOf(e - 1, up)

IsAncestorOf(a, e) == e # no_element /\ a \in AncestorsOf(e, parent)

Children(e) == {c \in Node : parent[c] = e}
Earliest(set) == IF set = {} THEN no_element ELSE Min(set)
Latest(set) == IF set = {} THEN no_element ELSE Max(set)
first_child(e) == Earliest(Children(e))
last_child(e) == Latest(Children(e))
GetNext(e) == IF e = Root THEN no_element ELSE Earliest({s \in Children(parent[e]) : s > e})
GetPrev(e) == IF e = Root THEN no_element ELSE Latest({s \in Children(parent[e]) : s < e})

(* The first child, or the next sibling of the nearest element from e up, and
   below the bound, that has one *)
GetNextDeep(e, bounding_ancestor) ==
  LET climbed == {a \in AncestorsOf(e, parent) :
                    /\ GetNext(a) # no_element
                    /\ bounding_ancestor = no_element \/ ~IsAncestorOf(a, bounding_ancestor)}
  IN  IF Children(e) # {} THEN first_child(e)
      ELSE IF climbed = {} THEN no_element
      ELSE GetNext(Max(climbed))

(* Down from e by the last child, to a leaf *)
LastLeafFrom(e) ==
  CHOOSE leaf \in Node :
    /\ IsAncestorOf(e, leaf) /\ Children(leaf) = {}
    /\ \A a \in AncestorsOf(leaf, parent) :
         IsAncestorOf(e, a) /\ a # e => a = last_child(parent[a])

GetLastLeaf(e) == IF Children(e) = {} THEN no_element ELSE LastLeafFrom(last_child(e))

(* Mutant: does not go down into the previous sibling *)
GetPrevShallow(e) == IF GetPrev(e) = no_element THEN parent[e] ELSE GetPrev(e)

GetPrevDeep(e) == IF GetPrev(e) = no_element THEN parent[e] ELSE LastLeafFrom(GetPrev(e))

parent_form(e) == Latest({a \in AncestorsOf(e, parent) : a \in forms})

-----------------------------------------------------------------------------
InitWalk ==
  /\ parent \in {up \in [Node -> {no_element} \cup Node] : Tree(up)}
  /\ forms \in SUBSET (Node \ {Root})
  /\ accepts \in SUBSET Node
  /\ focused_element \in (Node \ (forms \cup {Root}))
                           \cup (IF Unfocused THEN {no_element} ELSE {})
  /\ pc = "idle"
  /\ root = no_element /\ origin = no_element /\ current = no_element /\ forward = TRUE
  /\ tried = {} /\ result = FALSE

(* Called on the root element: by InvokeKey on Tab, by RemoveChild *)
MoveFocus(fwd) ==
  /\ pc = "idle" /\ pc' = "move"
  /\ forward' = fwd
  /\ \E from \in Node :
       /\ from = IF focused_element = no_element THEN Root ELSE focused_element
       /\ origin' = from /\ current' = from
       /\ root' = IF parent_form(from) = no_element THEN Root ELSE parent_form(from)
  /\ UNCHANGED <<treeVars, focused_element, tried, result>>

(* The next or the previous element, wrapped around the root *)
NextCandidate ==
  LET next == IF forward THEN GetNextDeep(current, no_element) ELSE GetPrevDeep(current)
  IN  IF next = no_element \/ ~IsAncestorOf(root, next)
      THEN IF forward THEN first_child(root) ELSE GetLastLeaf(root)
      ELSE next

Returns(how) == pc' = "done" /\ result' = how

MoveFocusNext ==
  /\ pc = "move"
  /\ current' = NextCandidate
  /\ \/ /\ current' \in {origin, no_element}
        /\ Returns(FALSE)
        /\ UNCHANGED <<focused_element, tried>>
     \/ /\ current' \notin {origin, no_element}
        /\ tried' = tried \cup {current'}
        /\ IF current' \in accepts
           THEN focused_element' = current' /\ Returns(TRUE)
           ELSE UNCHANGED <<focused_element, pc, result>>
  /\ UNCHANGED <<treeVars, root, origin, forward>>

(* set_focus_recursive, of a form *)
SetFocusRecursive(form) ==
  /\ pc = "idle" /\ pc' = "search"
  /\ root' = form
  /\ current' = first_child(form)
  /\ UNCHANGED <<treeVars, focused_element, origin, forward, tried, result>>

SearchNext ==
  /\ pc = "search"
  /\ \/ /\ current = no_element
        /\ Returns(FALSE)
        /\ UNCHANGED <<focused_element, current, tried>>
     \/ /\ current # no_element
        /\ tried' = tried \cup {current}
        /\ IF current \in accepts
           THEN focused_element' = current /\ Returns(TRUE) /\ UNCHANGED current
           ELSE current' = GetNextDeep(current, root) /\ UNCHANGED <<focused_element, pc, result>>
  /\ UNCHANGED <<treeVars, root, origin, forward>>

Done == pc = "done" /\ UNCHANGED walkVars

WalkNext ==
  \/ \E fwd \in BOOLEAN : MoveFocus(fwd)
  \/ \E form \in forms : SetFocusRecursive(form)
  \/ MoveFocusNext \/ SearchNext
  \/ Done

WalkSpec == InitWalk /\ [][WalkNext]_walkVars

(* A loop on one thread goes on. *)
FairWalk == WalkSpec /\ WF_walkVars(MoveFocusNext \/ SearchNext)

-----------------------------------------------------------------------------
(* Properties *)

(* Every variable has its type, the elements are a tree, and a walk that starts
   at a focused element is always at an element. *)
WalkTypeOK ==
  /\ Tree(parent) /\ forms \subseteq Node /\ accepts \subseteq Node
  /\ focused_element \in Node \cup {no_element}
  /\ pc \in {"idle", "move", "search", "done"}
  /\ {root, origin, current} \subseteq Node \cup {no_element}
  /\ origin # no_element /\ focused_element # no_element => current # no_element
  /\ forward \in BOOLEAN /\ result \in BOOLEAN /\ tried \subseteq Node

Inside(e) == {d \in Node : e # no_element /\ IsAncestorOf(e, d)}

(* Both traversals only try elements of the form, or of the root element when
   the focus is in no form, and give up only after every one of them, but for
   the element they came from and the form itself, has refused. *)
TriesAllInside ==
  /\ tried \subseteq Inside(root)
  /\ pc = "done" /\ ~result => Inside(root) \ {origin, root} \subseteq tried

(* The distance from the origin, in document order around the root *)
Distance(e) ==
  LET size == Cardinality(Inside(root))
  IN  IF forward THEN (e + size - origin) % size ELSE (origin + size - e) % size

(* The focus goes to the nearest element that accepts it: in document order
   around the root from the element that had it, or the first of the form. *)
NearestAccepts ==
  pc = "done" /\ result =>
    \A e \in (accepts \cap Inside(root)) \ {origin, root} :
      IF origin = no_element THEN focused_element <= e
      ELSE Distance(focused_element) <= Distance(e)

(* No element is asked twice: each step of a traversal asks an element it has
   not asked before, or is its last.  So a traversal ends, whatever refuses. *)
AsksOnce ==
  [][MoveFocusNext \/ SearchNext => pc' = "done" \/ tried' # tried]_walkVars

(* Both traversals stay inside the form, try all of it but nothing twice, and end
   at the nearest. *)
TraversalAgrees == [](WalkTypeOK /\ TriesAllInside /\ NearestAccepts) /\ AsksOnce

(* A traversal comes to an end: "Break if we reached the origin again (we're
   not finding anything else)" (element.cc 815). *)
TraversalEnds == pc \in {"move", "search"} ~> pc = "done"
=============================================================================
