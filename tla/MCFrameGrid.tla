---------------------------- MODULE MCFrameGrid ----------------------------
(* FrameGrid on small instances. *)
EXTENDS FrameGrid, TLC

CONSTANTS a, b

Symmetry == Permutations({a, b})
=============================================================================
