\* Four requests of two users in any interleaving, one failure or crash.
SPECIFICATION Spec
CONSTANTS
    Request = {r1, r2, r3, r4}
    User = {u1, u2}
    PENDING = PENDING
    NONE = NONE
    MaxFaults = 1
    Aging <- EveryRow
    TokenKinds <- AnyKind
SYMMETRY Symmetric
INVARIANTS SpentTokenNeverRotates RefreshConsumesToken
PROPERTIES DeadFamilyStaysDead RevokedOnBehalfOfOwner RefusedByCollision
CHECK_DEADLOCK FALSE
