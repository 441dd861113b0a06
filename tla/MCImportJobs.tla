---------------------------- MODULE MCImportJobs ----------------------------
(* Instances of ImportJobs for TLC. *)
EXTENDS ImportJobs, TLC

Symmetric == Permutations(Jobs) \cup Permutations(Types)
=============================================================================
