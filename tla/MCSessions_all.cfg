SPECIFICATION Spec
CONSTANTS
    a = a
    b = b
    c = c
    d = d
    r1 = r1
    r2 = r2
    None = None
    Tokens = {a, b, c}
    Requests = {r1, r2}
    AccessTTL = 1
    Grace = 1
    Operations = {"login", "refresh", "logoutAll", "delete"}
    MaxGeneration = 1
    MaxTime = 1
SYMMETRY Symmetry
INVARIANTS TypeOK OneTokenPerSession OnlyOvertakenSurvive
PROPERTIES RevocationEmpties
CHECK_DEADLOCK FALSE
