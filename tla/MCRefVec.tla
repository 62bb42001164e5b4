------------------------------ MODULE MCRefVec ------------------------------
(* The reference vector on small instances; values are interchangeable. *)
EXTENDS RefVec

CONSTANTS a, b

Symmetry == Permutations({a, b})
=============================================================================
