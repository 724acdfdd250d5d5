---------------------------- MODULE MCCallOut ----------------------------
(* Instances of CallOut for TLC.                                           *)
EXTENDS CallOut

Whole == {NoMsec}
Halves == {NoMsec, 0, 1}

Handles == Permutations(Callouts)
===========================================================================
