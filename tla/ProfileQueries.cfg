\* Four rows, two clients, a change of the rows meanwhile.
SPECIFICATION Spec
CONSTANTS
    Id = {1, 2, 3, 4}
    Row <- Rows
    Client = {c1, c2}
    ListQuery <- Lists
    SearchText <- Texts
    SearchPaging <- Paging
    Upper <- Capitals
    Terms <- TermsOf
    GenderIn <- Genus
    Alpha2 <- Codes
    TermLength <- Lengths
    ExportLimit = 3
    MaxChanges = 1
    NONE = NONE
SYMMETRY Symmetric
INVARIANTS TypeOK ListIsWhatWasAsked SearchIsWhatWasSaid WalkIsExact ExportIsComplete
CHECK_DEADLOCK FALSE
