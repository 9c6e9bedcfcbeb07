---------------------------- MODULE MCCommitLog ----------------------------
(* Model checking of CommitLog. *)
EXTENDS CommitLog, TLC
=============================================================================
