------------------------------- MODULE BioAbs -------------------------------
(***************************************************************************)
(* What the buffer cache promises its users: one copy of every disk block, *)
(* used once at a time.  A use gets a block, reads it, changes it if it    *)
(* wants to, and puts it back.                                             *)
(***************************************************************************)
CONSTANTS Use, Block, Val, None

VARIABLES
    content,  \* what is in each block
    user      \* the use that has each block, or None

vars == <<content, user>>

Init == /\ content \in [Block -> Val]
        /\ user = [k \in Block |-> None]

Get(p, k) == /\ user[k] = None
             /\ user' = [user EXCEPT ![k] = p]
             /\ UNCHANGED content

Set(p, k) == /\ user[k] = p
             /\ \E v \in Val : content' = [content EXCEPT ![k] = v]
             /\ UNCHANGED user

Put(p, k) == /\ user[k] = p
             /\ user' = [user EXCEPT ![k] = None]
             /\ UNCHANGED content

Next == \E p \in Use, k \in Block : Get(p, k) \/ Set(p, k) \/ Put(p, k)

Spec == Init /\ [][Next]_vars
=============================================================================
