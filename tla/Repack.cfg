\* Four finalised files, a packer that may be killed and an opener.
SPECIFICATION Spec
CONSTANTS
    Keys = {1, 2, 3}
    a = a
    b = b
    Values = {a, b}
    Absent = Absent
    Tomb = Tomb
    MaxIdx = 3
    Batches <- MCBatches
    Lone = FALSE
    MayDie = TRUE
INVARIANTS EveryFileCovered RestKeepsView RangesApart OpenedWhole
PROPERTY PackedDown
\* The bound on indices is reached, or the packer is dead.
CHECK_DEADLOCK FALSE
