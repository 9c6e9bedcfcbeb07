\* Two disciplined writers that add, commit and finalise, and may die.
SPECIFICATION Spec
CONSTANTS
    Handles = {h1, h2}
    Keys = {k1}
    Values = {v1, v2}
    Absent = Absent
    Tomb = Tomb
    Free = Free
    Stale = Stale
    MaxIdx = 1
    MaxLen = 3
    FinaliseLen = 3
    Calls = {"finalise", "crash"}
    Strict = TRUE
SYMMETRY Symmetry
INVARIANTS DirShape WriterAppends MemoryIsDisk
PROPERTIES AckedOnlyGrows ImplementsKVStore
