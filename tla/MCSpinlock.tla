----------------------------- MODULE MCSpinlock -----------------------------
(* A small instance of Spinlock for TLC, with the locks that the kernel nests *)
(* deepest: kwait() holds wait_lock, takes a p->lock and frees pages.         *)
EXTENDS Spinlock, TLC

CONSTANTS wait_lock, kmem

Name(l) == CASE l \in Thread -> "proc" [] l = wait_lock -> "wait_lock" [] l = kmem -> "kmem"

MCNests == {n \in Lock \X Lock : <<Name(n[1]), Name(n[2])>> \in KernelNests}

ASSUME KernelOrder

Symmetry == Permutations(Cpu) \cup Permutations(Thread)
=============================================================================
