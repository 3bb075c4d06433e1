\* Two callbacks, two attempts, two accounts, one fault.
SPECIFICATION Spec
CONSTANTS
    GithubId = {g1, g2}
    Attempt = {a1, a2}
    Callback = {c1, c2}
    Creation = {}
    Code = {k1, k2}
    ANY = ANY
    FRONTEND = FRONTEND
    LISTENER = LISTENER
    CUSTOM = CUSTOM
    MALFORMED = MALFORMED
    NONE = NONE
    Asked <- Queries
    MaxSeeds = 0
    MaxFaults = 1
SYMMETRY Symmetric
INVARIANTS TypeOK SessionIsForItsAttempt DeliveredAsAsked FirstCallbackLogsIn
CHECK_DEADLOCK FALSE
