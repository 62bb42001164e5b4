---------------------------- MODULE MCTieredVec ----------------------------
EXTENDS TieredVec

CONSTANTS a, b

Limit(kind, keep) == [kind |-> kind, keep |-> keep]

(* TierPolicy::smt, restore_optimized and adaptive, and one policy for     *)
(* the remaining limits.                                                   *)
AllPolicies == {[trail |-> Unbounded, hot |-> Unbounded],
                [trail |-> Limit("frames", 0), hot |-> Limit("frames", 0)],
                [trail |-> Limit("adaptive", 0), hot |-> Limit("adaptive", 0)],
                [trail |-> Limit("entries", 1), hot |-> Limit("bytes", 3)]}

Symmetry == Permutations({a, b})
=============================================================================
