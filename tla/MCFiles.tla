------------------------------ MODULE MCFiles ------------------------------
(* Open files with a few slots, files and descriptors. *)
EXTENDS Files, TLC

FilesSymmetry == Permutations(Inode) \cup Permutations(Pipe)
=============================================================================
