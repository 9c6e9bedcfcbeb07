----------------------------- MODULE MCRepack -----------------------------
(* Model checking of Repack. *)
EXTENDS Repack, TLC

CONSTANTS a, b
C(x, y, z) == (1 :> x @@ 2 :> y @@ 3 :> z)

\* Old and new values, and a tombstone between two records.
MCBatches == {C(a, Absent, b), C(b, Tomb, a)}
=============================================================================
