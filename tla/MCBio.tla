------------------------------- MODULE MCBio -------------------------------
(* The buffer cache with fewer buffers than its uses and pins can take. *)
EXTENDS Bio, TLC

BioSymmetry == Permutations(Use) \cup Permutations(Block)
=============================================================================
