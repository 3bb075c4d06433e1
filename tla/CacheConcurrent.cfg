\* Three requests in any interleaving, one failure or crash.
SPECIFICATION Spec
CONSTANTS
    Request = {r1, r2, r3}
    n1 = n1
    n2 = n2
    all = all
    one = one
    Name <- Names
    Query <- Queries
    Match <- Matches
    File <- Files
    MaxFaults = 1
    Failing <- AnyLocation
    MayCrash = TRUE
    SEED = SEED
    NONE = NONE
    MISS = MISS
SYMMETRY Symmetric
INVARIANTS StaleIsExplained PageAddsUp ImportedRowsAllPresent CreateErrorIsExplained
CHECK_DEADLOCK FALSE
