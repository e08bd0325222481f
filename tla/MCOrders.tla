------------------------------ MODULE MCOrders ------------------------------
(* Instances of Orders for TLC. *)
EXTENDS Orders, TLC

CallSymmetry == Permutations(Calls)
=============================================================================
