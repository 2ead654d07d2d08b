------------------------------ MODULE MongrelCore ------------------------------
(***************************************************************************)
(* The storage engine below the Kit (crate mongreldb_core, not in this      *)
(* repository), as the Kit uses it: a transaction stages puts and deletes   *)
(* over the tables it saw when it began; its commit installs all of them,   *)
(* or fails when a row it wrote was committed by another transaction since  *)
(* (docs/transactions.md, "Concurrency model"; crates/mongreldb-kit/tests/  *)
(* guards.rs and integration.rs exercise both).                            *)
(*                                                                         *)
(* What a transaction staged is a function from keys to Untouched, NoRow (a *)
(* tombstone) or a value.  A staged delete names the engine row id of a     *)
(* committed version, so it can never take back a put of the same           *)
(* transaction: the core transaction cannot read its own staging.           *)
(***************************************************************************)
CONSTANTS
  NoRow,      \* no row is stored under the key
  Untouched   \* the transaction staged nothing for the key

\* Stage the puts (a function on some of the keys) and the deletes.
StageWrites(staged, puts, deletes) ==
  [k \in DOMAIN staged |->
     IF k \in DOMAIN puts THEN puts[k]
     ELSE IF k \in deletes /\ staged[k] = Untouched THEN NoRow
     ELSE staged[k]]

WriteSet(staged) == {k \in DOMAIN staged : staged[k] # Untouched}

\* The tables once the staged writes are installed.
Install(store, staged) ==
  [k \in DOMAIN store |-> IF staged[k] = Untouched THEN store[k] ELSE staged[k]]
=============================================================================
