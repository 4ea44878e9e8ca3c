SPECIFICATION Spec
CONSTANTS
    Tasks = {1, 2, 3}
    Quadrants = {q1}
    Requests = {r1, r2}
    Gap = 2
    Ceiling = 5
SYMMETRY Symmetry
INVARIANTS
    PositionsBounded
PROPERTIES
    LandsAsAsked
    OthersKeepTheirOrder
CHECK_DEADLOCK FALSE
