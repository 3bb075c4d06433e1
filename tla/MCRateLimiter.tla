----------------------------- MODULE MCRateLimiter -----------------------------
(* Instances of RateLimiter for TLC. *)
EXTENDS RateLimiter, TLC

CONSTANTS p1, p2

TwoPaths == {p1, p2}
Two == [p \in Path |-> 2]

Symmetric == Permutations(Request)
================================================================================
