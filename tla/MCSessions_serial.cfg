SPECIFICATION Spec
CONSTANTS
    a = a
    b = b
    c = c
    d = d
    r1 = r1
    r2 = r2
    None = None
    Tokens = {a, b, c}
    Requests = {r1}
    AccessTTL = 2
    Grace = 1
    Operations = {"login", "refresh", "logout", "logoutAll", "delete"}
    MaxGeneration = 2
    MaxTime = 2
SYMMETRY Symmetry
INVARIANTS SignedOutUnlessReused ClosedIsClosed
CHECK_DEADLOCK FALSE
