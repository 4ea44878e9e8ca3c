SPECIFICATION Spec
CONSTANTS
    t1 = t1
    t2 = t2
    t3 = t3
    r1 = r1
    r2 = r2
    None = None
    Tasks = {t1, t2}
    Requests = {r1, r2}
    Quadrants = {"IMPORTANT_URGENT"}
    TaskXP <- MCTaskXP
    ActiveLimit = 3
    Catalogue <- MCCatalogue
    Operations = {"create", "subtask", "complete", "reopen", "delete"}
    MaxGrants = 2
    MaxXP = 1000
SYMMETRY Symmetry
INVARIANTS NoNegativeXP
CHECK_DEADLOCK FALSE
