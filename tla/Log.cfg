\* Up to three records, among them long keys and long values; the active file is
\* opened again at most once.
SPECIFICATION Spec
CONSTANTS
    MaxShortKey = 1
    MaxShortVal = 14
    KeyLens = {1, 2}
    ValLens = {1, 15}
    MaxRecs = 3
    MaxReopens = 1
INVARIANTS CommittedFirst QuietOpens PackedWhole
\* A file that is complete, or cannot be opened again.
CHECK_DEADLOCK FALSE
