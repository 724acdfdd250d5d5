------------------------------ MODULE MCComm ------------------------------
(* Instances of Comm for TLC: comm.cfg has one user and all that can be    *)
(* done with it, turns.cfg two users that take turns.                      *)
EXTENDS Comm
===========================================================================
