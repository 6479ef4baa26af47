--------------------------- MODULE MCRateLimiter ---------------------------
(* Small instances of RateLimiter. *)
EXTENDS RateLimiter, TLC

\* Both limits, and each of them alone.
SomeLimits == {[hourly |-> 2, daily |-> 3], [hourly |-> 1, daily |-> 0],
               [hourly |-> 0, daily |-> 2]}

ClientSymmetry == Permutations(Clients)
=============================================================================
