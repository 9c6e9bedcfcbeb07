---------------------------- MODULE MCIterator ----------------------------
(* Model checking of Iterator. *)
EXTENDS Iterator, TLC

CONSTANT v
C(s) == [k \in Keys |-> IF s[k] = 0 THEN Absent ELSE IF s[k] = 1 THEN v ELSE Tomb]

InPacked == {NoCells, C(<<1, 0, 1, 1>>), C(<<0, 1, 2, 1>>), C(<<2, 1, 0, 0>>)}
InTrees == {NoCells, C(<<2, 0, 1, 0>>)}
MCSources == {f \in [Source -> InPacked \cup InTrees] :
                 /\ \A c \in PackedSrc : f[c] \in InPacked
                 /\ f[2] # C(<<1, 0, 1, 1>>)
                 /\ NPacked = 3 => f[3] \in {NoCells, C(<<1, 0, 1, 1>>)}
                 /\ f[Fin] \in InTrees /\ f[Act] \in InTrees}
=============================================================================
