------------------------------- MODULE Lists --------------------------------
(***************************************************************************)
(* The intrusive list (src/el/util/intrusive_list.h) as the modules see it *)
(* that are about its users: a sequence of distinct entries, without its   *)
(* links.  IterableList says what is lost that way, and IntrusiveList      *)
(* implements it.  The argument none is the null pointer.                  *)
(***************************************************************************)
EXTENDS Integers, Sequences, SequencesExt

(* Remove, of each entry in gone that is in the list.  (A recursive function
   in place of SelectSeq, which the provers know nothing of.) *)
Without(list, gone) ==
  LET left[i \in 0..Len(list)] ==
        IF i = 0 THEN <<>>
        ELSE IF list[i] \in gone THEN left[i - 1] ELSE Append(left[i - 1], list[i])
  IN  left[Len(list)]

(* GetFirst *)
FirstOf(list, none) == IF list = <<>> THEN none ELSE Head(list)

(* GetNext of an entry that is in the list *)
After(list, e, none) ==
  LET at == CHOOSE i \in 1..Len(list) : list[i] = e
  IN  IF at = Len(list) THEN none ELSE list[at + 1]

(* Where a safe iterator that stands at e is once the entries in gone are out
   of its list: at the first one left from where it stood *)
Stepped(list, e, gone, none) ==
  LET at == CHOOSE i \in 1..Len(list) : list[i] = e
  IN  FirstOf(Without(SubSeq(list, at, Len(list)), gone), none)

(* a is ahead of b in the list *)
Before(list, a, b) == \E i, j \in 1..Len(list) : i < j /\ list[i] = a /\ list[j] = b
=============================================================================
