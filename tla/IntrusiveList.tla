--------------------------- MODULE IntrusiveList ----------------------------
(***************************************************************************)
(* The intrusive doubly linked list every manager of the toolkit keeps its *)
(* objects in (children, messages, animations, listeners, popups), with    *)
(* the "safe" iterators that survive removals made while they walk         *)
(* (src/el/util/intrusive_list.{h,cc}).  The state is the pointers of      *)
(* the three structs, each a function from object to object.               *)
(*                                                                         *)
(* An iterator object that is not constructed, is destroyed, or was        *)
(* cleared by the destructor of its list has list_ = NULL; a list whose    *)
(* destructor ran is indistinguishable from a newly constructed one.       *)
(***************************************************************************)
EXTENDS Naturals, Sequences, FiniteSets

CONSTANTS Entry,    \* the linkable objects (IntrusiveListEntry)
          List,     \* the list objects (IntrusiveList)
          Iter,     \* the iterator objects (IntrusiveListIterator)
          NULL      \* nullptr

ASSUME NullAssumption == NULL \notin Entry \cup List \cup Iter

VARIABLES prev, next, linklist,                \* of each entry
          first, last, first_iterator,         \* of each list
          list_, current_entry_, iterate_forward_,
          prev_iterator_, next_iterator_       \* of each iterator

entryVars == <<prev, next, linklist, first, last>>
chainVars == <<list_, first_iterator, prev_iterator_, next_iterator_>>
vars == <<entryVars, chainVars, current_entry_, iterate_forward_>>

-----------------------------------------------------------------------------
(* p->field = v, guarded by "if (p)" *)
Assign(field, p, v) == IF p = NULL THEN field ELSE [field EXCEPT ![p] = v]

(* The nodes a loop "for (p = start; p; p = step[p])" visits: the least set
   that holds start and is closed under step. *)
Reach(start, step, Node) ==
  {n \in Node : \A S \in SUBSET Node :
     /\ start # NULL => start \in S
     /\ \A m \in S : step[m] # NULL => step[m] \in S
     => n \in S}

-----------------------------------------------------------------------------
Init ==
  /\ prev = [e \in Entry |-> NULL]
  /\ next = [e \in Entry |-> NULL]
  /\ linklist = [e \in Entry |-> NULL]
  /\ first = [l \in List |-> NULL]
  /\ last = [l \in List |-> NULL]
  /\ first_iterator = [l \in List |-> NULL]
  /\ list_ = [i \in Iter |-> NULL]
  /\ current_entry_ = [i \in Iter |-> NULL]
  /\ iterate_forward_ = [i \in Iter |-> TRUE]
  /\ prev_iterator_ = [i \in Iter |-> NULL]
  /\ next_iterator_ = [i \in Iter |-> NULL]

-----------------------------------------------------------------------------
(* Adding.  AddFirst and AddLast assert that the entry is in no list;
   AddBefore and AddAfter rely on the same without asserting it. *)

Added(l, e) ==
  /\ linklist[e] = NULL
  /\ linklist' = [linklist EXCEPT ![e] = l]
  /\ UNCHANGED <<chainVars, current_entry_, iterate_forward_>>

AddFirst(l, e) ==
  /\ Added(l, e)
  /\ next' = [next EXCEPT ![e] = first[l]]
  /\ prev' = Assign(prev, first[l], e)
  /\ first' = [first EXCEPT ![l] = e]
  /\ last' = IF last[l] = NULL THEN [last EXCEPT ![l] = e] ELSE last

AddLast(l, e) ==
  /\ Added(l, e)
  /\ prev' = [prev EXCEPT ![e] = last[l]]
  /\ next' = Assign(next, last[l], e)
  /\ last' = [last EXCEPT ![l] = e]
  /\ first' = IF first[l] = NULL THEN [first EXCEPT ![l] = e] ELSE first

AddBefore(l, e, reference) ==
  /\ linklist[reference] = l
  /\ Added(l, e)
  /\ prev' = [prev EXCEPT ![e] = prev[reference], ![reference] = e]
  /\ next' = Assign([next EXCEPT ![e] = reference], prev[reference], e)
  /\ first' = IF prev[reference] = NULL THEN [first EXCEPT ![l] = e] ELSE first
  /\ UNCHANGED last

AddAfter(l, e, reference) ==
  /\ linklist[reference] = l
  /\ Added(l, e)
  /\ next' = [next EXCEPT ![e] = next[reference], ![reference] = e]
  /\ prev' = Assign([prev EXCEPT ![e] = reference], next[reference], e)
  /\ last' = IF next[reference] = NULL THEN [last EXCEPT ![l] = e] ELSE last
  /\ UNCHANGED first

-----------------------------------------------------------------------------
(* Removing *)

(* Mutant: the direction of the iterator ignored *)
StepForward(it, e) == next[e]

(* The entry after an iterator's current one, in its direction *)
Step(it, e) == IF iterate_forward_[it] THEN next[e] ELSE prev[e]

(* Mutant: only the newest iterator is looked at *)
ChainHead(l) == {first_iterator[l]} \ {NULL}

(* The iterators Remove and RemoveAll find by walking the list's chain *)
Chain(l) == Reach(first_iterator[l], next_iterator_, Iter)

Remove(l, e) ==
  /\ linklist[e] = l
  /\ current_entry_' =
       [it \in Iter |-> IF it \in Chain(l) /\ current_entry_[it] = e
                          THEN Step(it, e) ELSE current_entry_[it]]
  /\ prev' = [Assign(prev, next[e], prev[e]) EXCEPT ![e] = NULL]
  /\ next' = [Assign(next, prev[e], next[e]) EXCEPT ![e] = NULL]
  /\ first' = IF first[l] = e THEN [first EXCEPT ![l] = next[e]] ELSE first
  /\ last' = IF last[l] = e THEN [last EXCEPT ![l] = prev[e]] ELSE last
  /\ linklist' = [linklist EXCEPT ![e] = NULL]
  /\ UNCHANGED <<chainVars, iterate_forward_>>

(* RemoveAll's loops, shared with the destructor of the list *)
ClearEntries(l) ==
  LET links == Reach(first[l], next, Entry)
  IN  /\ current_entry_' =
           [it \in Iter |-> IF it \in Chain(l) THEN NULL ELSE current_entry_[it]]
      /\ prev' = [e \in Entry |-> IF e \in links THEN NULL ELSE prev[e]]
      /\ next' = [e \in Entry |-> IF e \in links THEN NULL ELSE next[e]]
      /\ linklist' = [e \in Entry |-> IF e \in links THEN NULL ELSE linklist[e]]
      /\ first' = [first EXCEPT ![l] = NULL]
      /\ last' = [last EXCEPT ![l] = NULL]
      /\ UNCHANGED iterate_forward_

RemoveAll(l) == ClearEntries(l) /\ UNCHANGED chainVars

(* ~IntrusiveList: RemoveAll, then UnregisterAndClear of every iterator left *)
DestroyList(l) ==
  /\ ClearEntries(l)
  /\ list_' = [it \in Iter |-> IF it \in Chain(l) THEN NULL ELSE list_[it]]
  /\ prev_iterator_' =
       [it \in Iter |-> IF it \in Chain(l) THEN NULL ELSE prev_iterator_[it]]
  /\ next_iterator_' =
       [it \in Iter |-> IF it \in Chain(l) THEN NULL ELSE next_iterator_[it]]
  /\ first_iterator' = [first_iterator EXCEPT ![l] = NULL]

-----------------------------------------------------------------------------
(* Iterators *)

(* Register: push the iterator on the front of its list's chain *)
Register(it, l) ==
  /\ list_' = [list_ EXCEPT ![it] = l]
  /\ prev_iterator_' =
       Assign([prev_iterator_ EXCEPT ![it] = NULL], first_iterator[l], it)
  /\ next_iterator_' = [next_iterator_ EXCEPT ![it] = first_iterator[l]]
  /\ first_iterator' = [first_iterator EXCEPT ![l] = it]

(* Unregister's three writes, on the three pointers it may change *)
UnlinkedPrev(it) == Assign(prev_iterator_, next_iterator_[it], prev_iterator_[it])
UnlinkedNext(it) == Assign(next_iterator_, prev_iterator_[it], next_iterator_[it])
UnlinkedFirst(it) ==
  [l \in List |-> IF l = list_[it] /\ first_iterator[l] = it
                    THEN next_iterator_[it] ELSE first_iterator[l]]

(* A new iterator on l, at the first or last entry or at a given one *)
Iterate(it, l, start, forward) ==
  /\ list_[it] = NULL
  /\ \/ start = IF forward THEN first[l] ELSE last[l]
     \/ start \in Entry /\ linklist[start] = l
  /\ Register(it, l)
  /\ current_entry_' = [current_entry_ EXCEPT ![it] = start]
  /\ iterate_forward_' = [iterate_forward_ EXCEPT ![it] = forward]
  /\ UNCHANGED entryVars

(* operator= and the copy constructor (an assignment to an iterator that is
   registered nowhere).  Both dereference the source's list when they
   register, so the source has one. *)
Copy(it, source) ==
  LET l == list_[source] IN
  /\ it # source /\ l # NULL
  /\ IF list_[it] \in {NULL, l}
       THEN IF list_[it] = l THEN UNCHANGED chainVars ELSE Register(it, l)
       ELSE /\ list_' = [list_ EXCEPT ![it] = l]
            /\ prev_iterator_' = Assign([UnlinkedPrev(it) EXCEPT ![it] = NULL],
                                        first_iterator[l], it)
            /\ next_iterator_' = [UnlinkedNext(it) EXCEPT ![it] = first_iterator[l]]
            /\ first_iterator' = [UnlinkedFirst(it) EXCEPT ![l] = it]
  /\ current_entry_' = [current_entry_ EXCEPT ![it] = current_entry_[source]]
  /\ iterate_forward_' = [iterate_forward_ EXCEPT ![it] = iterate_forward_[source]]
  /\ UNCHANGED entryVars

(* ~IntrusiveListIterator *)
DestroyIter(it) ==
  /\ list_[it] # NULL
  /\ prev_iterator_' = [UnlinkedPrev(it) EXCEPT ![it] = NULL]
  /\ next_iterator_' = [UnlinkedNext(it) EXCEPT ![it] = NULL]
  /\ first_iterator' = UnlinkedFirst(it)
  /\ list_' = [list_ EXCEPT ![it] = NULL]
  /\ current_entry_' = [current_entry_ EXCEPT ![it] = NULL]
  /\ UNCHANGED <<entryVars, iterate_forward_>>

(* Mutant: back to the first entry in either direction *)
ResetToFirst(it) ==
  /\ current_entry_' = [current_entry_ EXCEPT ![it] =
                         IF list_[it] = NULL THEN NULL ELSE first[list_[it]]]
  /\ UNCHANGED <<entryVars, chainVars, iterate_forward_>>

Reset(it) ==
  /\ current_entry_' =
       [current_entry_ EXCEPT ![it] =
          IF list_[it] = NULL THEN NULL
          ELSE IF iterate_forward_[it] THEN first[list_[it]] ELSE last[list_[it]]]
  /\ UNCHANGED <<entryVars, chainVars, iterate_forward_>>

GetAndStep(it) ==
  /\ current_entry_[it] # NULL
  /\ current_entry_' = [current_entry_ EXCEPT ![it] = Step(it, current_entry_[it])]
  /\ UNCHANGED <<entryVars, chainVars, iterate_forward_>>

-----------------------------------------------------------------------------
(* What the owner of a list does to it, and what a walker does *)
ListOp ==
  \E l \in List :
    \/ \E e \in Entry : AddFirst(l, e) \/ AddLast(l, e) \/ Remove(l, e)
    \/ \E e, reference \in Entry : AddBefore(l, e, reference) \/ AddAfter(l, e, reference)
    \/ RemoveAll(l)

IterOp ==
  \E it \in Iter :
    \/ \E l \in List, start \in Entry \cup {NULL}, forward \in BOOLEAN :
         Iterate(it, l, start, forward)
    \/ \E source \in Iter : Copy(it, source)
    \/ DestroyIter(it)
    \/ Reset(it)
    \/ GetAndStep(it)

Next == ListOp \/ IterOp \/ \E l \in List : DestroyList(l)

Spec == Init /\ [][Next]_vars

-----------------------------------------------------------------------------
(* Properties *)

(* Every field holds a pointer to an object of the right kind or nullptr. *)
TypeOK ==
  /\ prev \in [Entry -> Entry \cup {NULL}]
  /\ next \in [Entry -> Entry \cup {NULL}]
  /\ linklist \in [Entry -> List \cup {NULL}]
  /\ first \in [List -> Entry \cup {NULL}]
  /\ last \in [List -> Entry \cup {NULL}]
  /\ first_iterator \in [List -> Iter \cup {NULL}]
  /\ list_ \in [Iter -> List \cup {NULL}]
  /\ current_entry_ \in [Iter -> Entry \cup {NULL}]
  /\ iterate_forward_ \in [Iter -> BOOLEAN]
  /\ prev_iterator_ \in [Iter -> Iter \cup {NULL}]
  /\ next_iterator_ \in [Iter -> Iter \cup {NULL}]

(* A doubly linked structure read in one direction: next and prev are inverse
   of each other, links stay within one owner, the heads are the nodes nothing
   precedes, and a walk from a head meets every node of its owner. *)
Linked(Node, head, back, forth, owner) ==
  /\ \A n \in Node : owner[n] = NULL => back[n] = NULL /\ forth[n] = NULL
  /\ \A n \in Node : forth[n] # NULL =>
       owner[forth[n]] = owner[n] /\ back[forth[n]] = n
  /\ \A n \in Node : back[n] # NULL =>
       owner[back[n]] = owner[n] /\ forth[back[n]] = n
  /\ \A l \in List : head[l] # NULL => owner[head[l]] = l /\ back[head[l]] = NULL
  /\ \A n \in Node : owner[n] # NULL /\ back[n] = NULL => head[owner[n]] = n
  /\ \A l \in List : Reach(head[l], forth, Node) = {n \in Node : owner[n] = l}

(* Whatever order entries are added and removed in, walking a list forward
   from first and backward from last meets exactly the entries whose linklist
   field says they are in it (ContainsLink is that field, CountLinks and every
   loop of the toolkit are the walk). *)
EntriesLinked ==
  /\ Linked(Entry, first, prev, next, linklist)
  /\ Linked(Entry, last, next, prev, linklist)

(* The chain of a list holds exactly the live iterators on it, so Remove and
   RemoveAll reach all of them and none that was destroyed. *)
IteratorsLinked ==
  Linked(Iter, first_iterator, prev_iterator_, next_iterator_, list_)

(* "Safe iteration": an iterator never points at an entry that is not in its
   list (intrusive_list.h 39-42), so GetAndStep never follows the links of a
   removed, possibly deleted, entry. *)
IteratorsOnList ==
  \A it \in Iter : current_entry_[it] # NULL =>
    list_[it] # NULL /\ linklist[current_entry_[it]] = list_[it]

(* All pointers have their types, and those of entries and iterators agree. *)
PointersAgree == TypeOK /\ EntriesLinked /\ IteratorsLinked /\ IteratorsOnList

(* The links an iterator follows *)
Onward(it) == IF iterate_forward_[it] THEN next ELSE prev

(* The entries an iterator has still to return *)
Ahead(it) == Reach(current_entry_[it], Onward(it), Entry)

(* A change to a list never makes an iterator in flight skip an entry that
   stays in the list, nor return one again that it has already passed: only
   the entries added and removed come and go in what it has ahead. *)
NoSkipNoRevisit ==
  [][ListOp => \A it \in Iter :
       LET stay == {e \in Entry : linklist[e] # NULL /\ linklist'[e] # NULL}
       IN  Ahead(it)' \cap stay = Ahead(it) \cap stay]_vars

-----------------------------------------------------------------------------
(* The pointers implement the sequences of IterableList: a list is the
   sequence a walk over next meets from first, an iteration the walk from the
   current entry in the iterator's direction. *)

(* The sequence of nodes a walk over step meets from start *)
Walk(start, step) ==
  LET at[i \in 0..Cardinality(Entry)] ==
        IF i = 0 THEN start
        ELSE IF at[i - 1] = NULL THEN NULL ELSE step[at[i - 1]]
      length == Cardinality({i \in 0..Cardinality(Entry) : at[i] # NULL})
  IN  [i \in 1..length |-> at[i - 1]]

order == [l \in List |-> Walk(first[l], next)]

todo == [it \in Iter |-> Walk(current_entry_[it], Onward(it))]

Abstract == INSTANCE IterableList WITH target <- list_, forward <- iterate_forward_

(* Every behaviour of the pointer code is one of the abstract list: an
   iteration returns, in order, exactly the entries that were ahead of it and
   were not removed, plus those added ahead of it while it was not over. *)
RefinesIterableList == Abstract!Spec
=============================================================================
