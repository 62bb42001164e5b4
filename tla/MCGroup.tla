------------------------------ MODULE MCGroup ------------------------------
(* Group on small instances.  MaxGen is large enough for a depth to be     *)
(* marked, cut and marked again, which is what makes a stale token.        *)
EXTENDS Group, TLC

CONSTANTS w1, w2, t1, a, b

Symmetry == Permutations({a, b})
=============================================================================
