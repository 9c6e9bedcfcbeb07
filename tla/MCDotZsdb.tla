----------------------------- MODULE MCDotZsdb -----------------------------
(* Model checking of DotZsdb. *)
EXTENDS DotZsdb, TLC

Symmetry == Permutations(Writers)
=============================================================================
