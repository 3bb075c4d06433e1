---------------------------- MODULE MCAuthSessions ----------------------------
(* Instances of AuthSessions for TLC. *)
EXTENDS AuthSessions, TLC

\* Requests are interchangeable, and so are users, when every row may age.
\* Only for runs without liveness properties.
Symmetric == Permutations(Request) \cup Permutations(User)

\* Every row may age.
EveryRow == Request

AnyKind == {"refresh", "access"}
===============================================================================
