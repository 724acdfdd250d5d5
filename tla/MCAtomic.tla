----------------------------- MODULE MCAtomic -----------------------------
(* Instances of AtomicCallOut for TLC: two objects, of which one has a     *)
(* second handle; and a full table of handles.                             *)
EXTENDS AtomicCallOut

CONSTANTS a, b

FirstMore == { <<a, 1>>, <<a, 2>>, <<b, 1>> }

Pairs == Objects \X Handles
===========================================================================
