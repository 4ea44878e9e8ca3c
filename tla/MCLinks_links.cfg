SPECIFICATION Spec
CONSTANTS
    t1 = t1
    t2 = t2
    t3 = t3
    l1 = l1
    l2 = l2
    l3 = l3
    r1 = r1
    r2 = r2
    None = None
    Tasks = {t1, t2, t3}
    Ids = {l1, l2}
    Requests = {r1, r2}
    Types = {"RELATED", "BLOCKS"}
    DirectedTypes = {"BLOCKS"}
    LinkLimit = 1
SYMMETRY Symmetry
INVARIANTS TypeOK NoPairTwice LinkQuota DoublesOnlyWhenPutBack DanglesOnlyWhenOutrun
