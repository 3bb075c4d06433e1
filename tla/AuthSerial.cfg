\* One request at a time, failures and a crash at any statement.
SPECIFICATION SerialSpec
CONSTANTS
    Request = {r1, r2, r3, r4}
    User = {u1}
    PENDING = PENDING
    NONE = NONE
    MaxFaults = 1
    Aging <- EveryRow
    TokenKinds <- AnyKind
SYMMETRY Symmetric
INVARIANTS RefusalIsExplained
PROPERTIES ImplementsRotation
CHECK_DEADLOCK FALSE
