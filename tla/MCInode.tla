------------------------------ MODULE MCInode ------------------------------
(* Inodes with a few processes and names. *)
EXTENDS Inode, TLC

InodeSymmetry == Permutations(Proc) \cup Permutations(Name)
=============================================================================
