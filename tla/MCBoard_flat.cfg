SPECIFICATION Spec
CONSTANTS
    t1 = t1
    t2 = t2
    t3 = t3
    r1 = r1
    r2 = r2
    None = None
    Tasks = {t1, t2, t3}
    Requests = {r1, r2}
    Quadrants = {"IMPORTANT_URGENT", "NOT_IMPORTANT_NOT_URGENT"}
    TaskXP <- MCTaskXP
    ActiveLimit = 2
    Catalogue <- MCCatalogue
    Operations = {"create", "move", "complete", "reopen", "delete"}
    MaxGrants = 2
    MaxXP = 1000
SYMMETRY Symmetry
INVARIANTS PaidOnce
PROPERTIES CreationWithinQuota BehavesAtomically
CHECK_DEADLOCK FALSE
