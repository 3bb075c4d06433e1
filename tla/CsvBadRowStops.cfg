\* SOLUTION.md: "The upload never stops for a single bad row."
SPECIFICATION Spec
CONSTANTS
    Upload = {u1}
    Names <- SomeNames
    Existing <- Stays
    Countries <- SomeCountries
    Files <- ManyFiles
    CHUNK_SIZE = 2
    MaxTime = 2
    MaxFaults = 1
    NONE = NONE
INVARIANTS NeverStopsForABadRow
CHECK_DEADLOCK FALSE
