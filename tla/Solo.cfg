\* One handle at a time, every call, in any order and without discipline:
\* commits and aborts after the lock was released, closes and crashes in the
\* middle of a transaction.
SPECIFICATION Spec
CONSTANTS
    Handles = {h1}
    Keys = {k1}
    Values = {v1}
    Absent = Absent
    Tomb = Tomb
    Free = Free
    Stale = Stale
    MaxIdx = 2
    MaxLen = 2
    FinaliseLen = 2
    Calls = {"remove", "fetch", "finalise", "abort", "crash"}
    Strict = FALSE
SYMMETRY Symmetry
INVARIANTS MemoryIsDisk SoleHandleFailures
PROPERTY ImplementsKVStore
