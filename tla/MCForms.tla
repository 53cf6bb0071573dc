------------------------------ MODULE MCForms -------------------------------
(***************************************************************************)
(* Instances for TLC: a form with two fields and two with one.  One form   *)
(* cannot be activated; or one form that can be is modal.                  *)
(*                                                                         *)
(* And beside them the walk through the tree that looks for a field: every *)
(* tree of five elements, every choice of forms, of elements that accept   *)
(* the focus and of the one that has it.  Five are enough for a form with  *)
(* a subtree of depth two between two neighbours.                          *)
(***************************************************************************)
EXTENDS Forms, FocusTraversal, TLC

CONSTANTS f1, f2, f3, x1, x2, x3, x4

VARIABLE part          \* "forms" or "walk"

MCForm == {f1, f2, f3}
MCField == {x1, x2, x3, x4}
MCFields == f1 :> <<x1, x2>> @@ f2 :> <<x3>> @@ f3 :> <<x4>>
MCCanActivate == {f1, f2}
MCAllActivate == {f1, f2, f3}
MCNoModal == {}
MCModal == {f2}

ASSUME WalkAssumption == FocusAssumption

MCInit ==
  /\ part \in {"forms", "walk"} /\ Init /\ InitWalk
  /\ part = "forms" => accepts = {} /\ forms = {} /\ focused_element = 5 /\ parent[4] = 3 /\ parent[5] = 3

MCNext ==
  \/ part = "forms" /\ Next /\ UNCHANGED <<part, walkVars>>
  \/ part = "walk" /\ WalkNext /\ UNCHANGED <<part, vars>>

MCSpec == MCInit /\ [][MCNext]_<<part, vars, walkVars>>
=============================================================================
