------------------------------- MODULE LogAbs -------------------------------
(* What the logging layer promises: the disk after a crash is the disk as it *)
(* was at some moment when no file system call was half done.                *)
CONSTANTS Op, Block, Val

VARIABLES active,   \* the file system calls that are executing
          cur,      \* what they read
          durable   \* what a crash leaves

vars == <<active, cur, durable>>

Init == active = {} /\ durable \in [Block -> Val] /\ cur = durable

Begin(o) == active' = active \cup {o} /\ UNCHANGED <<cur, durable>>

Write(o) == /\ o \in active
            /\ \E b \in Block, v \in Val : cur' = [cur EXCEPT ![b] = v]
            /\ UNCHANGED <<active, durable>>

End(o) == o \in active /\ active' = active \ {o} /\ UNCHANGED <<cur, durable>>

Commit == active = {} /\ durable' = cur /\ UNCHANGED <<active, cur>>

Crash == active' = {} /\ cur' = durable /\ UNCHANGED durable

Next == (\E o \in Op : Begin(o) \/ Write(o) \/ End(o)) \/ Commit \/ Crash

Spec == Init /\ [][Next]_vars
=============================================================================
