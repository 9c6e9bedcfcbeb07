----------------------------- MODULE WriteLock -----------------------------
(***************************************************************************)
(* The write lock as the database handles see it, and as module Zeroskip   *)
(* has it in its variable wlock: free, held by one process, or left behind *)
(* for ever by a process that died.                                        *)
(***************************************************************************)
CONSTANTS Procs, Free, Stale

VARIABLE owner

Acquire(p) == owner = Free /\ owner' = p
Release(p) == owner = p /\ owner' = Free
Die(p) == owner = p /\ owner' = Stale

Init == owner = Free
Next == \E p \in Procs : Acquire(p) \/ Release(p) \/ Die(p)
Spec == Init /\ [][Next]_owner
============================================================================
