------------------------------ MODULE SleepLock ------------------------------
(***************************************************************************)
(* A sleep lock (kernel/sleeplock.c): the long-term lock of buffers and    *)
(* inodes.  A process that finds it taken sleeps instead of spinning.      *)
(*                                                                         *)
(* The inner spinlock lk->lk is its holder (Spinlock shows that a spinlock *)
(* is one).  sleep(lk, &lk->lk) gives the spinlock up and puts the process *)
(* to sleep in one step, which is what Proc shows of sleep and wakeup.     *)
(* kkill also wakes a sleeper; acquiresleep never looks at killed, so the  *)
(* woken process just tests again.                                         *)
(***************************************************************************)
EXTENDS TLAPS

CONSTANTS Proc, None

VARIABLES
    lk,      \* who holds the inner spinlock lk->lk, or None
    locked,  \* lk->locked
    pid,     \* lk->pid: the process whose pid it is, or None for 0
    pc       \* where each process is

vars == <<lk, locked, pid, pc>>

Init ==
    /\ lk = None
    /\ locked = FALSE
    /\ pid = None
    /\ pc = [p \in Proc |-> "idle"]

Goto(p, l) == pc' = [pc EXCEPT ![p] = l]

(* The call of acquiresleep or, by the process that got the lock, of       *)
(* releasesleep: brelse and iunlock panic for any other.                   *)
Call(p) ==
    /\ \/ pc[p] = "idle" /\ Goto(p, "acquire")
       \/ pc[p] = "held" /\ Goto(p, "release")
    /\ UNCHANGED <<lk, locked, pid>>

(* acquire(&lk->lk) of acquiresleep, and again inside sleep on wakeup. *)
Spin(p) ==
    /\ pc[p] = "acquire"
    /\ lk = None
    /\ lk' = p
    /\ Goto(p, "test")
    /\ UNCHANGED <<locked, pid>>

(* while (lk->locked) sleep(lk, &lk->lk) *)
Sleep(p) ==
    /\ pc[p] = "test"
    /\ locked
    /\ lk' = None
    /\ Goto(p, "sleeping")
    /\ UNCHANGED <<locked, pid>>

Take(p) ==
    /\ pc[p] = "test"
    /\ ~locked
    /\ locked' = TRUE
    /\ pid' = p
    /\ lk' = None
    /\ Goto(p, "held")

(* wakeup(lk): every sleeper goes on to take the inner spinlock again. *)
Woken == [q \in Proc |-> IF pc[q] = "sleeping" THEN "acquire" ELSE pc[q]]

(* releasesleep: its accesses are all under the inner spinlock. *)
releasesleep(p) ==
    /\ pc[p] = "release"
    /\ lk = None
    /\ locked' = FALSE
    /\ pid' = None
    /\ pc' = [Woken EXCEPT ![p] = "idle"]
    /\ UNCHANGED lk

(* holdingsleep, its result for p *)
holdingsleep(p) == locked /\ pid = p

(* kkill makes a sleeping process runnable. *)
Kill(p) ==
    /\ pc[p] = "sleeping"
    /\ Goto(p, "acquire")
    /\ UNCHANGED <<lk, locked, pid>>

Next == \E p \in Proc : \/ Call(p)
                        \/ Spin(p)
                        \/ Sleep(p)
                        \/ Take(p)
                        \/ releasesleep(p)
                        \/ Kill(p)

Spec == Init /\ [][Next]_vars

-----------------------------------------------------------------------------
(* sleeplock.c holdingsleep: it says yes to the process that acquired the  *)
(* lock and has not released it, and to no other, whatever the others do   *)
(* at the same time.  brelse, bwrite, iunlock and iupdate rest on it.      *)
HolderKnown ==
    \A p \in Proc : holdingsleep(p) <=> pc[p] \in {"held", "release"}

AbsOwner == [l \in {"lk"} |-> IF locked THEN pid ELSE None]

Abs == INSTANCE LockAbs WITH
    Cpu <- Proc, Lock <- {"lk"},
    owner <- AbsOwner

(* sleeplock.c: a sleep lock is a lock.  It goes from nobody to one        *)
(* process and back by that process only, although the processes sleep on  *)
(* it, are woken together and are woken by kill.                           *)
ImplementsLock == Abs!Spec

(* sleeplock.c releasesleep: nobody sleeps for a lock that is free.  The    *)
(* wakeup is not lost to a process that has tested locked and is about to   *)
(* sleep, nor does a kill take its place.                                   *)
NoLostWakeup == \A p \in Proc : pc[p] = "sleeping" => locked

-----------------------------------------------------------------------------
Labels == {"idle", "acquire", "test", "sleeping", "held", "release"}

(* The inductive invariant: the inner spinlock is held just by a process    *)
(* that is at its test, and the three facts about the lock.                 *)
IInv ==
    /\ lk \in Proc \union {None} /\ locked \in BOOLEAN /\ pid \in Proc \union {None}
    /\ pc \in [Proc -> Labels]
    /\ \A p \in Proc : lk = p <=> pc[p] = "test"
    /\ locked => pid \in Proc
    /\ HolderKnown
    /\ NoLostWakeup

(* The sleep lock starts free, and every operation keeps the invariant.     *)
THEOREM InvariantSafe == ASSUME None \notin Proc PROVE Spec => []IInv
<1>1. Init => IInv
  BY ZenonT(300) DEF Init, IInv, Labels, HolderKnown, holdingsleep, NoLostWakeup
<1>2. IInv /\ [Next]_vars => IInv'
  <2> SUFFICES ASSUME IInv, [Next]_vars PROVE IInv'
    OBVIOUS
  <2> USE DEF IInv, Labels, HolderKnown, holdingsleep, NoLostWakeup, Goto
  <2>1. CASE UNCHANGED vars
    BY <2>1 DEF vars
  <2>2. ASSUME NEW p \in Proc, Call(p) PROVE IInv'
    BY <2>2 DEF Call
  <2>3. ASSUME NEW p \in Proc, Spin(p) PROVE IInv'
    BY <2>3 DEF Spin
  <2>4. ASSUME NEW p \in Proc, Sleep(p) PROVE IInv'
    BY <2>4 DEF Sleep
  <2>5. ASSUME NEW p \in Proc, Take(p) PROVE IInv'
    BY <2>5 DEF Take
  <2>6. ASSUME NEW p \in Proc, releasesleep(p) PROVE IInv'
    BY ZenonT(300), <2>6 DEF releasesleep, Woken
  <2>7. ASSUME NEW p \in Proc, Kill(p) PROVE IInv'
    BY <2>7 DEF Kill
  <2>8. QED
    BY <2>1, <2>2, <2>3, <2>4, <2>5, <2>6, <2>7 DEF Next
<1>3. QED
  BY <1>1, <1>2, PTL DEF Spec

(* holdingsleep is right about every process, for any number of them.       *)
THEOREM HolderSafe == ASSUME None \notin Proc PROVE Spec => []HolderKnown
BY InvariantSafe, PTL DEF IInv

(* No process sleeps for a sleep lock that is free.                         *)
THEOREM SleeperSafe == ASSUME None \notin Proc PROVE Spec => []NoLostWakeup
BY InvariantSafe, PTL DEF IInv

(* acquiresleep and releasesleep implement the lock of LockAbs: taking and  *)
(* releasing map to its two actions, everything else to a stutter.          *)
THEOREM Refinement == ASSUME None \notin Proc PROVE Spec => ImplementsLock
<1>1. Init => Abs!Init
  BY DEF Init, Abs!Init, AbsOwner
<1>2. IInv /\ [Next]_vars => [Abs!Next]_AbsOwner
  <2> SUFFICES ASSUME IInv, [Next]_vars PROVE [Abs!Next]_AbsOwner
    OBVIOUS
  <2> USE DEF IInv, HolderKnown, holdingsleep, AbsOwner
  <2>1. CASE UNCHANGED <<locked, pid>>
    BY <2>1
  <2>2. ASSUME NEW p \in Proc, Take(p) PROVE Abs!Acquire(p, "lk")
    BY <2>2 DEF Take, Abs!Acquire, Abs!Only, AbsOwner
  <2>3. ASSUME NEW p \in Proc, releasesleep(p) PROVE Abs!Release(p, "lk")
    BY <2>3 DEF releasesleep, Abs!Release, Abs!Only, AbsOwner
  <2>4. QED
    BY <2>1, <2>2, <2>3 DEF Next, vars, Call, Spin, Sleep, Kill, Abs!Next
<1>3. QED
  BY InvariantSafe, <1>1, <1>2, PTL DEF Spec, Abs!Spec, ImplementsLock
=============================================================================
