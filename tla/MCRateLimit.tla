----------------------------- MODULE MCRateLimit -----------------------------
(***************************************************************************)
(* Small instances of RateLimit: one limiter with its own store, or two    *)
(* limiters that share one, as README.md:413-442 sets them up.             *)
(***************************************************************************)
EXTENDS RateLimit, TLC

CONSTANTS Limit, Limiters   \* every limiter has the same limit

MCLimits == [i \in 1..Limiters |-> Limit]

Symmetry == Permutations(Workers)
==============================================================================
