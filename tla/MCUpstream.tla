------------------------------ MODULE MCUpstream ------------------------------
(* Instances of Upstream for TLC. *)
EXTENDS Upstream, TLC

CONSTANTS n1, n2, v1, v2

Names == {n1, n2}
Values == {v1, v2}
\* The second name is one like "agify".
MentionsOf == (n1 :> {}) @@ (n2 :> {"Agify"})
Says(q, v) == [quality |-> q, value |-> v]
BodiesOf ==
    ("Genderize" :> {Says("usable", v1), Says("usable", v2), Says("unusable", v1),
                     Says("shapeless", v1), Says("empty", v1)})
    @@ ("Agify" :> {Says("usable", v1), Says("unusable", v1), Says("shapeless", v1)})
    @@ ("Nationalize" :> {Says("usable", v1), Says("unusable", v1), Says("nowhere", v1)})
================================================================================
