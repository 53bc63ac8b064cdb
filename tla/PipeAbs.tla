------------------------------- MODULE PipeAbs -------------------------------
(* What a pipe promises: a bounded first-in first-out queue of bytes. *)
EXTENDS Naturals, Sequences

CONSTANTS Byte, Size

VARIABLE q

Init == q = <<>>

Put(b) == Len(q) < Size /\ q' = Append(q, b)

Get == q # <<>> /\ q' = Tail(q)

Next == (\E b \in Byte : Put(b)) \/ Get

Spec == Init /\ [][Next]_q
=============================================================================
