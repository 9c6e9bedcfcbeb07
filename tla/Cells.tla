------------------------------- MODULE Cells -------------------------------
(***************************************************************************)
(* What a map from keys to values holds for a key in zeroskip: a value, a  *)
(* tombstone, or nothing.  Shared by the store's promise (KVStore) and by  *)
(* the models of the code.                                                 *)
(***************************************************************************)
CONSTANTS Keys,     \* the keys clients use
          Values,   \* the values clients store
          Absent,   \* "no record for this key"
          Tomb      \* "the last record for this key deletes it"

ASSUME KeysAssumption == Keys # {}
ASSUME CellAssumption == Absent \notin Values /\ Tomb \notin Values /\ Absent # Tomb

Cell == Values \cup {Absent, Tomb}
NoCells == [k \in Keys |-> Absent]

\* The map top where it has a record, and bottom elsewhere.
Overlay(top, bottom) ==
    [k \in Keys |-> IF top[k] # Absent THEN top[k] ELSE bottom[k]]
============================================================================
