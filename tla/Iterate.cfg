\* Three packed files and the two trees, every operation on them.
SPECIFICATION Spec
CONSTANTS
    Keys = {1, 2, 3, 4}
    v = v
    Values = {v}
    Absent = Absent
    Tomb = Tomb
    NPacked = 3
    Sources <- MCSources
    MaxWrites = 1
INVARIANTS CursorsQueued IterationIsMerge WritesMissNothing CrashPastEnd FetchFindsNewest
PROPERTY Ends
\* The operation has ended.
CHECK_DEADLOCK FALSE
