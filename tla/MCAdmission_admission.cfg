SPECIFICATION Spec
CONSTANTS
    r1 = r1
    r2 = r2
    Requests = {r1, r2}
    Endpoints = {"register", "close"}
    Limit <- MCLimit
    MaxHashes = 1
    MaxConns = 1
INVARIANTS NothingLeaks ClosedWhenDrained
PROPERTIES RefusedByAWindow EveryRequestEnds StopEnds
