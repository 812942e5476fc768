--------------------------- MODULE MCRateLimiter ----------------------------
(* RateLimiter for TLC: two keys with different limits, two concurrent      *)
(* handlers, a map that is over its capacity as soon as both keys are in it. *)
EXTENDS RateLimiter, TLC

CONSTANTS k1, k2

TwoLimits == k1 :> 1 @@ k2 :> 2

Symmetry == Permutations(Callers)
=============================================================================
