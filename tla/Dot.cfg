\* Two writers, which open, add and close as they like and may be killed at any step.
SPECIFICATION Spec
CONSTANTS
    Writers = {w1, w2}
    Packers = {}
    None = None
    MaxIdx = 2
    MaxOff = 3
    MaxIno = 6
    MayDie = TRUE
SYMMETRY Symmetry
INVARIANTS DotComplete OpenableAtRest WriterAtEnd
PROPERTY DotAdvances
\* All may be dead, or the bounds reached.
CHECK_DEADLOCK FALSE
