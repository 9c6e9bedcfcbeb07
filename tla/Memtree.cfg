\* Nodes of at most two and at most four records, and nine keys: trees of up
\* to three levels.
SPECIFICATION Spec
CONSTANTS
    Keys = {1, 2, 3, 4, 5, 6, 7, 8, 9}
    Orders = {2, 4}
    MaxNodes = 10
    Unused = Unused
INVARIANTS TreeHolds Shapely CursorsVisitAll
\* After a removal that leaves a wrong record the model stops.
CHECK_DEADLOCK FALSE
