----------------------------- MODULE MCConsole ------------------------------
(* Instances of Console for TLC. *)
EXTENDS Console, TLC

ConsoleSymmetry == Permutations(Reader)
=============================================================================
