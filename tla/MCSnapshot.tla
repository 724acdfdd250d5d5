---------------------------- MODULE MCSnapshot ----------------------------
(* Instances of CallOutSnapshot for TLC.                                   *)
EXTENDS CallOutSnapshot

Whole == {NoMsec}
Halves == {NoMsec, 0, 1}

Handles == Permutations(Callouts)
===========================================================================
