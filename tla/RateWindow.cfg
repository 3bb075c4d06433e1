\* Four requests to two paths, delays shorter than the window.
SPECIFICATION Spec
CONSTANTS
    Request = {r1, r2, r3, r4}
    Client = {c1}
    p1 = p1
    p2 = p2
    Path <- TwoPaths
    Limit <- Two
    Ttl = 3
    Grace = 1
    MaxDelay = 1
    MaxTime = 7
SYMMETRY Symmetric
INVARIANTS AdmittedAtMostLimit DeniedIsExplained
CHECK_DEADLOCK FALSE
