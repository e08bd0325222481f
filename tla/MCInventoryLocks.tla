-------------------------- MODULE MCInventoryLocks --------------------------
(* Instances of InventoryLocks for TLC. *)
EXTENDS InventoryLocks
=============================================================================
