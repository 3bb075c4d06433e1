\* A login, two creations and a row of the seed of the same two accounts, one fault.
SPECIFICATION Spec
CONSTANTS
    GithubId = {g1, g2}
    Attempt = {a1}
    Callback = {c1}
    Creation = {n1, n2}
    Code = {k1}
    ANY = ANY
    FRONTEND = FRONTEND
    LISTENER = LISTENER
    CUSTOM = CUSTOM
    MALFORMED = MALFORMED
    NONE = NONE
    Asked <- OneQuery
    MaxSeeds = 1
    MaxFaults = 1
SYMMETRY Symmetric
INVARIANTS CreationsAgree
PROPERTIES RoleSurvives
CHECK_DEADLOCK FALSE
