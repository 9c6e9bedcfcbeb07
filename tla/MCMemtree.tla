----------------------------- MODULE MCMemtree ------------------------------
(* Model checking of Memtree. *)
EXTENDS Memtree, TLC
=============================================================================
