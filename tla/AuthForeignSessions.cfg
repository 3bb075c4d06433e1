\* Three requests of two users, no failure, either token of a pair.
SPECIFICATION Spec
CONSTANTS
    Request = {r1, r2, r3}
    User = {u1, u2}
    PENDING = PENDING
    NONE = NONE
    MaxFaults = 0
    Aging = {}
    TokenKinds <- AnyKind
PROPERTIES ReuseEndsOwnSessions
CHECK_DEADLOCK FALSE
