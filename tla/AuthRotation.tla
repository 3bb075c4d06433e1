------------------------------ MODULE AuthRotation ------------------------------
(***************************************************************************)
(* What refresh-token rotation promises, with nothing of how it is done:   *)
(* a login begins a family of tokens, a refresh hands out a new one in the *)
(* place of the last, and a logout or a reuse ends the family for good.    *)
(* AuthSessions, with one request at a time, implements this.              *)
(***************************************************************************)
CONSTANTS Family, Token

VARIABLES
    current,     \* the tokens of a family that a refresh would rotate
    handed,      \* the tokens clients have been given, each with its family
    used,        \* those a client exchanged for another
    ended        \* families over by logout or reuse

vars == <<current, handed, used, ended>>

Init ==
    /\ current = [f \in Family |-> {}]
    /\ handed = {} /\ used = {} /\ ended = {}

\* No token works from here but one never handed out before - and even that one
\* not when its time is over before the answer is out.
Hand(f, t) ==
    /\ \A g \in Family : <<g, t>> \notin handed
    /\ \E working \in SUBSET {t} : current' = [current EXCEPT ![f] = working]
    /\ handed' = handed \cup {<<f, t>>}
    /\ UNCHANGED ended

Login(f, t) ==
    /\ \A s \in Token : <<f, s>> \notin handed
    /\ Hand(f, t)
    /\ UNCHANGED used

Refresh(f, old, t) ==
    /\ f \notin ended
    /\ <<f, old>> \in handed \ used
    /\ used' = used \cup {<<f, old>>}
    /\ Hand(f, t)

\* Logout or reuse: no token of the family works, and none ever will.
End(f) ==
    /\ \E t \in Token : <<f, t>> \in handed
    /\ current' = [current EXCEPT ![f] = {}]
    /\ ended' = ended \cup {f}
    /\ UNCHANGED <<handed, used>>

\* Tokens run out, or are withdrawn together, without ending their families.
Lose ==
    /\ current' \in [Family -> SUBSET Token]
    /\ \A f \in Family : current'[f] \in {current[f], {}}
    /\ UNCHANGED <<handed, used, ended>>

Next ==
    \/ Lose
    \/ \E f \in Family : End(f) \/ \E t \in Token :
           Login(f, t) \/ \E old \in Token : Refresh(f, old, t)

Spec == Init /\ [][Next]_vars
=================================================================================
