----------------------------- MODULE MCZeroskip -----------------------------
(* Model checking of Zeroskip: small sets, symmetric where the model is. *)
EXTENDS Zeroskip, TLC

Symmetry == Permutations(Handles) \cup Permutations(Values)
=============================================================================
