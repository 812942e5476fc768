---------------------------- MODULE MCAvatarCache ----------------------------
(* AvatarCache for TLC: an account that moves between two provider URLs,    *)
(* and one of an origin that is not allowed.                                *)
EXTENDS AvatarCache, TLC

CONSTANTS v1, v2, v3, allowed, foreign

OneForeign == [v \in Versions |-> IF v = v3 THEN foreign ELSE allowed]

Symmetry == Permutations(Workers) \cup Permutations(Types) \cup Permutations({v1, v2})
=============================================================================
