------------------------------- MODULE LockAbs -------------------------------
(***************************************************************************)
(* What a spinlock promises, and what the other modules take a spinlock to *)
(* be: the CPU that holds it, or nobody.  A lock goes from nobody to one   *)
(* CPU, and back only by that CPU.                                         *)
(***************************************************************************)
CONSTANTS Cpu, Lock, None

VARIABLE owner

Init == owner = [l \in Lock |-> None]

\* No other lock than l changes hands.
Only(l) == owner' = [owner EXCEPT ![l] = owner'[l]]

Acquire(c, l) == owner[l] = None /\ owner'[l] = c /\ Only(l)

Release(c, l) == owner[l] = c /\ owner'[l] = None /\ Only(l)

Next == \E c \in Cpu, l \in Lock : Acquire(c, l) \/ Release(c, l)

Spec == Init /\ [][Next]_owner
=============================================================================
