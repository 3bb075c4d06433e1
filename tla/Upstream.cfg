\* Two requests for one name or for two, one failure of the stores.
SPECIFICATION Spec
CONSTANTS
    Request = {r1, r2}
    n1 = n1
    n2 = n2
    v1 = v1
    v2 = v2
    Name <- Names
    Value <- Values
    Mentions <- MentionsOf
    Bodies <- BodiesOf
    MaxFaults = 1
    NONE = NONE
INVARIANTS TypeOK StoredIsBacked BlameIsRight OutageIsGatewayError
PROPERTIES EveryRequestSettles
CHECK_DEADLOCK FALSE
