\* Two handles that make every call in any order, without any discipline.
SPECIFICATION Spec
CONSTANTS
    Handles = {h1, h2}
    Keys = {k1}
    Values = {v1}
    Absent = Absent
    Tomb = Tomb
    Free = Free
    Stale = Stale
    MaxIdx = 1
    MaxLen = 1
    FinaliseLen = 1
    Calls = {"remove", "fetch", "finalise", "abort", "crash"}
    Strict = FALSE
SYMMETRY Symmetry
INVARIANTS TypeOK OneActiveFile
\* A stale commit can name a finalised file in .zsdb; when the last handle is
\* then closed, no zsdb_open succeeds any more and nothing can happen.
CHECK_DEADLOCK FALSE
