------------------------------ MODULE KVStore ------------------------------
(***************************************************************************)
(* What a zeroskip directory promises to the programs that share it: a map *)
(* of committed cells and the cells of the one transaction in progress.    *)
(* Nothing is said here of files, offsets, locks, handles or caches; module*)
(* Zeroskip is shown to implement this one under a refinement mapping.     *)
(***************************************************************************)
EXTENDS Cells

VARIABLES committed,  \* the map every later open must see
          pending     \* what the current transaction has written over it

kvvars == <<committed, pending>>

Init == committed = NoCells /\ pending = NoCells

Put(k, c) == /\ pending' = [pending EXCEPT ![k] = c]
             /\ UNCHANGED committed

Commit == /\ committed' = Overlay(pending, committed)
          /\ pending' = NoCells

Discard == pending' = NoCells /\ UNCHANGED committed

\* The transaction so far is committed and a new one starts with k: what
\* zsdb_add does when it finds the active file full.
CommitThenPut(k, c) == /\ committed' = Overlay(pending, committed)
                       /\ pending' = [NoCells EXCEPT ![k] = c]

Put1 == \E k \in Keys, c \in Values \cup {Tomb} : Put(k, c)
Split == \E k \in Keys, c \in Values \cup {Tomb} : CommitThenPut(k, c)

Next == Put1 \/ Commit \/ Discard \/ Split
Spec == Init /\ [][Next]_kvvars
============================================================================
