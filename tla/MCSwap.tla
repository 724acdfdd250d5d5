------------------------------ MODULE MCSwap ------------------------------
(* Swap on a small instance.                                               *)
EXTENDS Swap, TLC
CONSTANTS o1, o2

Objects == {o1, o2}
Symmetry == Permutations(Objects)
===========================================================================
