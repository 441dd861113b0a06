--------------------------- MODULE MCInventoryTxn ---------------------------
(* Instances of InventoryTxn for TLC. *)
EXTENDS InventoryTxn, TLC

Symmetric == Permutations(Procs) \cup Permutations(RequestIds)
=============================================================================
