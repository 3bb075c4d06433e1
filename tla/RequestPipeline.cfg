\* Two requests of two users, one change of a user's settings, tokens lapse.
SPECIFICATION Spec
CONSTANTS
    Request = {r1, r2}
    u1 = u1
    u2 = u2
    t1 = t1
    t2 = t2
    User <- Users
    Token <- Tokens
    Subject <- SubjectOf
    SignedRole <- RoleOf
    Wire <- Wires
    Limit <- Limits
    MaxChanges = 1
    ANONYMOUS = ANONYMOUS
    GARBAGE = GARBAGE
    NONE = NONE
SYMMETRY Symmetric
INVARIANTS TypeOK DecisionIsCurrent ActorWithinLimit CookieWriteIsConfirmed LoggedStatusIsAnswered
CHECK_DEADLOCK FALSE
