\* As Repack, but a lone finalised file is packed too, as zsdb_repack does.
SPECIFICATION Spec
CONSTANTS
    Keys = {1, 2, 3}
    a = a
    b = b
    Values = {a, b}
    Absent = Absent
    Tomb = Tomb
    MaxIdx = 3
    Batches <- MCBatches
    Lone = TRUE
    MayDie = TRUE
INVARIANT EveryFileCovered
\* The bound on indices is reached, or the packer is dead.
CHECK_DEADLOCK FALSE
