SPECIFICATION Spec
CONSTANTS
    Users = {1, 2}
    Me = 1
    Zones = {0, 1}
    DayLength = 1
    HeatmapDays = 2
    Default = 1
    MaxPage = 2
    Windows = {1}
    MaxTime = 1
    MaxRows = 3
    MaxMoves = 1
INVARIANTS
    HistoryIsWhole
    FiguresAgree
    RankingIsWhole
    RanksAgree
