----------------------------- MODULE MCPlanes -----------------------------
(* Instances of ObjectPlanes for TLC.                                      *)
EXTENDS ObjectPlanes

NamesAlike == Permutations(Names)
===========================================================================
