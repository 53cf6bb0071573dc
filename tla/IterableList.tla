---------------------------- MODULE IterableList ----------------------------
(***************************************************************************)
(* What the intrusive list promises its users: lists are sequences of      *)
(* distinct entries, and an iteration in progress is the sequence of the   *)
(* entries it has still to return.  Every change made to a list while it   *)
(* is iterated keeps that sequence the part of the list, read in the       *)
(* iterator's direction, from the entry it would return next; when that    *)
(* entry is removed, from the one after it.                                *)
(***************************************************************************)
EXTENDS Naturals, Sequences
S == INSTANCE SequencesExt

CONSTANTS Entry, List, Iter, NULL

VARIABLES order,      \* [List -> Seq(Entry)], front to back
          target,     \* [Iter -> List \cup {NULL}], the list being iterated
          forward,    \* [Iter -> BOOLEAN]
          todo        \* [Iter -> Seq(Entry)], what the iteration still returns

vars == <<order, target, forward, todo>>

Init ==
  /\ order = [l \in List |-> <<>>]
  /\ target = [it \in Iter |-> NULL]
  /\ forward = [it \in Iter |-> TRUE]
  /\ todo = [it \in Iter |-> <<>>]

Directed(seq, fwd) == IF fwd THEN seq ELSE S!Reverse(seq)

IndexOf(seq, e) == CHOOSE i \in 1..Len(seq) : seq[i] = e

(* The rest of seq from its member e on *)
From(seq, e) == SubSeq(seq, IndexOf(seq, e), Len(seq))

(* seq without e, if it is there *)
Dropped(seq, e) ==
  IF S!Contains(seq, e) THEN S!RemoveAt(seq, IndexOf(seq, e)) ELSE seq

(* An entry that is in no list enters one, at any place the caller chooses.
   An iteration that has entries left returns it if it lies ahead; one that
   has run out stays finished. *)
Add(l, e) ==
  /\ \A k \in List : ~S!Contains(order[k], e)
  /\ \E i \in 1..Len(order[l]) + 1 :
       /\ order' = [order EXCEPT ![l] = S!InsertAt(@, i, e)]
       /\ todo' = [it \in Iter |->
            IF target[it] = l /\ todo[it] # <<>>
              THEN From(Directed(order'[l], forward[it]), Head(todo[it]))
              ELSE todo[it]]
  /\ UNCHANGED <<target, forward>>

(* Every iteration of a list goes on without the removed entry. *)
Remove(l, e) ==
  /\ S!Contains(order[l], e)
  /\ order' = [order EXCEPT ![l] = Dropped(@, e)]
  /\ todo' = [it \in Iter |-> Dropped(todo[it], e)]
  /\ UNCHANGED <<target, forward>>

Clear(l) ==
  /\ order' = [order EXCEPT ![l] = <<>>]
  /\ todo' = [it \in Iter |-> IF target[it] = l THEN <<>> ELSE todo[it]]
  /\ UNCHANGED forward

(* The list empties; when it is destroyed its iterators lose it too. *)
RemoveAll(l) == Clear(l) /\ UNCHANGED target

Destroy(l) ==
  /\ Clear(l)
  /\ target' = [it \in Iter |-> IF target[it] = l THEN NULL ELSE target[it]]

(* An iterator takes up an iteration: a whole list, the rest of a list from
   an entry, or what another iterator has left *)
Begin(it, l, fwd, rest) ==
  /\ target' = [target EXCEPT ![it] = l]
  /\ forward' = [forward EXCEPT ![it] = fwd]
  /\ todo' = [todo EXCEPT ![it] = rest]
  /\ UNCHANGED order

Iterate(it, l, fwd) ==
  /\ target[it] = NULL
  /\ LET whole == Directed(order[l], fwd)
     IN  \/ Begin(it, l, fwd, whole)
         \/ \E e \in Entry :
              S!Contains(whole, e) /\ Begin(it, l, fwd, From(whole, e))

Copy(it, source) ==
  /\ target[source] # NULL
  /\ Begin(it, target[source], forward[source], todo[source])

End(it) ==
  /\ target' = [target EXCEPT ![it] = NULL]
  /\ todo' = [todo EXCEPT ![it] = <<>>]
  /\ UNCHANGED <<order, forward>>

Reset(it) ==
  /\ target[it] # NULL
  /\ Begin(it, target[it], forward[it], Directed(order[target[it]], forward[it]))

GetAndStep(it) ==
  /\ todo[it] # <<>>
  /\ todo' = [todo EXCEPT ![it] = Tail(@)]
  /\ UNCHANGED <<order, target, forward>>

Next ==
  \/ \E l \in List : \/ \E e \in Entry : Add(l, e) \/ Remove(l, e)
                     \/ RemoveAll(l)
                     \/ Destroy(l)
  \/ \E it \in Iter : \/ \E l \in List, fwd \in BOOLEAN : Iterate(it, l, fwd)
                      \/ \E source \in Iter : Copy(it, source)
                      \/ End(it)
                      \/ Reset(it)
                      \/ GetAndStep(it)

Spec == Init /\ [][Next]_vars
=============================================================================
