-------------------------- MODULE MCElementEvents ---------------------------
(***************************************************************************)
(* An instance for TLC: a root that holds a check box, and above it a      *)
(* scrollable panel with a button that repeats its click.  The pointer is  *)
(* over all of them, or over none: what it hits depends on what the        *)
(* program deletes, hides, disables or raises.                             *)
(***************************************************************************)
EXTENDS ElementEvents
CONSTANTS root, panel, button, check, over, outside

MCTree == [e \in Element |-> IF e = root THEN <<check, panel>>
                             ELSE IF e = panel THEN <<button>> ELSE <<>>]
MCCovers == [p \in Position |-> IF p = over THEN Element ELSE {}]
=============================================================================
