\* A writer and a packer, which take away each other's lock file.
SPECIFICATION Spec
CONSTANTS
    Writers = {w1}
    Packers = {q1}
    None = None
    MaxIdx = 2
    MaxOff = 1
    MaxIno = 5
    MayDie = TRUE
INVARIANTS TypeOK WriterKeepsFile NeverAhead
\* .zsdb may be left empty or behind: then nobody can open the directory.
CHECK_DEADLOCK FALSE
