--------------------------- MODULE MCStockLedger ---------------------------
(* Instances of StockLedger for TLC. *)
EXTENDS StockLedger, TLC

Symmetric == Permutations(Materials) \cup Permutations(RequestIds)
=============================================================================
