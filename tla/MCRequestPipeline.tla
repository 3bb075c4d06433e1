--------------------------- MODULE MCRequestPipeline ---------------------------
(* Instances of RequestPipeline for TLC. *)
EXTENDS RequestPipeline, TLC

CONSTANTS u1, u2, t1, t2

Users == {u1, u2}
Tokens == {t1, t2}
SubjectOf == (t1 :> u1) @@ (t2 :> u2)
RoleOf == [t \in Tokens |-> "ADMIN"]
Limits == [auth |-> 1, api |-> 1]

Plainly(route, scheme, bearer, cookie, csrf, defect) ==
    [route |-> route, version |-> "1", scheme |-> scheme, bearer |-> bearer,
     cookie |-> cookie, csrf |-> csrf, defect |-> defect]

\* Bearer, cookie with and without the CSRF token, a Bearer token of one user
\* beside the cookie of another, an unreadable Bearer token beside a cookie,
\* another scheme beside a cookie, two public routes, no version, bad input.
Wires ==
    {Plainly("create", "Bearer", t1, NONE, FALSE, "none"),
     Plainly("create", "absent", GARBAGE, t1, TRUE, "none"),
     Plainly("create", "absent", GARBAGE, t1, FALSE, "none"),
     Plainly("create", "Bearer", t1, t2, FALSE, "none"),
     Plainly("create", "Bearer", GARBAGE, t1, TRUE, "none"),
     Plainly("create", "other", GARBAGE, t1, FALSE, "none"),
     Plainly("create", "Bearer", t1, NONE, FALSE, "missing"),
     Plainly("findAll", "absent", GARBAGE, t2, FALSE, "none"),
     Plainly("whoami", "Bearer", t2, NONE, FALSE, "none"),
     Plainly("githubCallback", "absent", GARBAGE, NONE, FALSE, "none"),
     [Plainly("findAll", "Bearer", t2, NONE, FALSE, "none") EXCEPT !.version = "absent"]}

Symmetric == Permutations(Request)
================================================================================
