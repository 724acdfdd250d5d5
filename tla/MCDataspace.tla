---------------------------- MODULE MCDataspace ----------------------------
(* Instances of Dataspace for TLC.                                         *)
EXTENDS Dataspace

(* Nil, an array that has itself, and an array that has another.          *)
ThreeLists == {<< 0, 0 >>, << 1, 1 >>, << 2, 0 >>}

TwoLists == {<< 1, 1 >>, << 2, 0 >>}
OneList == {<< 2, 0 >>}

ObjectSets == Permutations(Objects)

===========================================================================
