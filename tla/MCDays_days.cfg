SPECIFICATION Spec
CONSTANTS
    Visits = {v1, v2}
    Changes = {c1}
    Zones = {0, 1}
    DayLength = 2
    MaxTime = 3
INVARIANTS
    StreakIsARun
    RetiredByAChange
PROPERTIES
    VisitIsCounted
    SettingsSettle
