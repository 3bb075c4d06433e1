---------------------------- MODULE MCProfileCache ----------------------------
(* Instances of ProfileCache for TLC. *)
EXTENDS ProfileCache, TLC

CONSTANTS n1, n2, all, one

\* Two names; a query that selects both and one that selects the first.
Names == {n1, n2}
Queries == {all, one}
Matches == (all :> {n1, n2}) @@ (one :> {n1})

\* A file with a header only, of one chunk, and of two.
Files == {<<>>, <<{n1, n2}>>, <<{n1}, {n1, n2}>>}

AnyLocation == Location

Symmetric == Permutations(Request)
===============================================================================
