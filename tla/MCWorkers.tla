----------------------------- MODULE MCWorkers -----------------------------
(* An instance of Workers for TLC: two requests, two exports, and links that *)
(* last one tick, three, or for ever.                                       *)
EXTENDS Workers
=============================================================================
