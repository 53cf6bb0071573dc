------------------------- MODULE MCAnimationManager -------------------------
(***************************************************************************)
(* Instances for TLC: three interchangeable animations, so that a callback *)
(* finds running ones on both sides of its own; two where liveness or the  *)
(* restart of an animation by itself is asked about.                       *)
(***************************************************************************)
EXTENDS AnimationManager, TLC

CONSTANTS a1, a2, a3

MCAnimation == {a1, a2, a3}
MCTwoAnimations == {a1, a2}
MCDurations == {1}
MCTwoDurations == {1, 2}
MCFirstUpdate == {"kFirstUpdate"}
Symmetry == Permutations(MCAnimation)
=============================================================================
