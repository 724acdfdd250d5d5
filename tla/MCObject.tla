----------------------------- MODULE MCObject -----------------------------
(* Instances of ObjectTable for TLC.                                       *)
EXTENDS ObjectTable

Entries == Permutations(Index)
===========================================================================
