\* A fetch between another writer's commit and this one's.
SPECIFICATION Spec
CONSTANTS
    Handles = {h1, h2}
    Keys = {k1}
    Values = {v1}
    Absent = Absent
    Tomb = Tomb
    Free = Free
    Stale = Stale
    MaxIdx = 0
    MaxLen = 3
    FinaliseLen = 3
    Calls = {"fetch"}
    Strict = TRUE
PROPERTY AckedOnlyGrows
