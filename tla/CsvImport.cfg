\* Two uploads of the same or of different files, in one or two milliseconds, one fault.
SPECIFICATION Spec
CONSTANTS
    Upload = {u1, u2}
    Names <- SomeNames
    Existing <- Stays
    Countries <- SomeCountries
    Files <- ManyFiles
    CHUNK_SIZE = 2
    MaxTime = 2
    MaxFaults = 1
    NONE = NONE
INVARIANTS TypeOK CountsAddUp ImportIsWhole TempFileGone FailureIsExplained ExportedLineIsReadBack
CHECK_DEADLOCK FALSE
