----------------------------- MODULE MCFileLock -----------------------------
(* Model checking of FileLock. *)
EXTENDS FileLock, TLC

Symmetry == Permutations(Procs)
=============================================================================
