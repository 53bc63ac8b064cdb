------------------------------ MODULE MCMemory ------------------------------
(* Instances of Memory for TLC. *)
EXTENDS Memory

Amounts == {1, 3}
Programs == {1}
=============================================================================
