---------------------------- MODULE ProcProofs ------------------------------
(*****************************************************************************)
(* The process table for any number of slots and CPUs, any bound on pids and *)
(* any arguments of kill() but 1: type correctness; what the step of one     *)
(* thread leaves as it was of the invariant of ProcInv, one lemma per        *)
(* conjunct; that the boot state satisfies the invariant and every step      *)
(* preserves it; and what follows from it.                                   *)
(*****************************************************************************)
EXTENDS ProcInv, TLAPS

\* The leaves are for Zenon, but for those that name the SMT solver.
USE ZenonT(120)

\* Arithmetic of slot numbers, the loops over proc[] included.
LEMMA SlotFacts ==
  /\ 1 \in Slots
  /\ initproc \in Slots
  /\ initproc \in 0..NPROC
  /\ Null \in 0..NPROC
  /\ Null \notin Slots
  /\ \A i \in Slots : i \in 0..NPROC
  /\ \A i \in 0..NPROC : i # Null => i \in Slots
  /\ \A i \in Slots : NextSlot(i) \in Slots
  /\ \A i \in Slots : i < NPROC => i + 1 \in Slots
BY SMTT(300), ProcAssumption DEF Slots, Null, initproc, NextSlot

\* Slot numbers are integers between 1 and NPROC.
LEMMA SlotBounds ==
  NPROC \in Int /\ \A i \in Slots : i \in Int /\ 1 <= i /\ i <= NPROC
BY SMTT(300), ProcAssumption DEF Slots

\* One round of a loop over proc[]: to the next slot, or to the label done after
\* the last slot.
LEMMA AdvanceFacts ==
  ASSUME TypeOK, NEW p \in Slots, NEW done \in Labels, Advance(p, done)
  PROVE  /\ idx' \in [Slots -> Slots]
         /\ pc' \in [Slots -> Labels]
         /\ \A q \in Slots : q # p => idx'[q] = idx[q] /\ pc'[q] = pc[q]
         /\ \/ idx[p] < NPROC /\ pc' = pc /\ idx'[p] = idx[p] + 1
            \/ idx[p] = NPROC /\ pc' = [pc EXCEPT ![p] = done] /\ idx'[p] = 1
<1>0. idx[p] \in Slots
  BY DEF TypeOK
<1>1. NPROC \in Int /\ idx[p] \in Int /\ idx[p] <= NPROC
  BY <1>0, SlotBounds
<1>2. CASE idx[p] < NPROC
  BY <1>0, <1>1, <1>2, SlotFacts DEF Advance, TypeOK
<1>3. CASE ~ (idx[p] < NPROC)
  <2>1. idx[p] = NPROC
    BY SMTT(300), <1>1, <1>3
  <2> QED
    BY SMTT(300), <1>3, <2>1, SlotFacts DEF Advance, Loop, Goto, TypeOK
<1> QED
  BY <1>2, <1>3

-----------------------------------------------------------------------------
(* Type correctness                                                        *)

\* The boot state of procinit() and userinit() has the right types.
LEMMA TypeInit == Init => TypeOK
BY SMTT(300), ProcAssumption, SlotFacts DEF Init, TypeOK, States, Labels, Null

\* So does the state after any step.
LEMMA TypeNext == TypeOK /\ [Next]_vars => TypeOK'
<1> SUFFICES ASSUME TypeOK, [Next]_vars PROVE TypeOK'
  OBVIOUS
<1> USE SlotFacts DEF TypeOK, table, locks, cpus, locals, At, Goto, Free
<1>1. ASSUME NEW c \in Cpu, SchedSkip(c) PROVE TypeOK'
  BY <1>1 DEF SchedSkip
<1>2. ASSUME NEW c \in Cpu, SchedPick(c) PROVE TypeOK'
  BY <1>2 DEF SchedPick, States
<1>3. ASSUME NEW c \in Cpu, NEW p \in Slots, User(c, p) PROVE TypeOK'
  <2>1. CASE Syscall(c, p)
    <3>1. /\ pc' \in [Slots -> Labels] /\ idx' \in [Slots -> Slots]
          /\ kpid' \in [Slots -> Nat]
      <4>1. CASE killed[p] = 1
        BY <2>1, <4>1 DEF Syscall, Labels
      <4>2. CASE Fork(p)
        BY <4>2 DEF Fork, Loop, Labels
      <4>3. CASE Wait(p) \/ Exit(p)
        BY <4>3 DEF Wait, Exit, Labels
      <4>4. CASE Kill(p)
        BY SMTT(300), <4>4, ProcAssumption DEF Kill, Loop, Labels
      <4> QED
        BY <2>1, <4>1, <4>2, <4>3, <4>4 DEF Syscall
    <3> QED
      BY <2>1, <3>1 DEF Syscall
  <2>2. CASE Timer(c, p)
    BY <2>2 DEF Timer, ExitIfKilled, Labels
  <2>3. CASE Fault(c, p)
    BY <2>3 DEF Fault, Labels
  <2> QED
    BY <1>3, <2>1, <2>2, <2>3 DEF User
<1>4. ASSUME NEW c \in Cpu, NEW p \in Slots, Kernel(c, p) PROVE TypeOK'
  <2>1. CASE Sched(c, p)
    <3>1. ASSUME NEW l \in Labels, sched(c, p, l) PROVE TypeOK'
      <4>1. CASE SchedOK(c, p)
        <5>1. /\ pc' \in [Slots -> Labels] /\ plock' \in [Slots -> Cpu \cup {NoCpu}]
              /\ cproc' \in [Cpu -> 0..NPROC]
          BY SMTT(300), <3>1, <4>1 DEF sched
        <5>2. sidx' \in [Cpu -> Slots]
          <6>1. NextSlot(sidx[c]) \in Slots
            OBVIOUS
          <6>2. sidx' = [sidx EXCEPT ![c] = NextSlot(sidx[c])]
            BY <3>1, <4>1 DEF sched
          <6> QED
            BY <6>1, <6>2
        <5> QED
          BY <3>1, <4>1, <5>1, <5>2 DEF sched
      <4>2. CASE ~SchedOK(c, p)
        BY <3>1, <4>2 DEF sched, Labels
      <4> QED
        BY <4>1, <4>2
    <3> QED
      BY <2>1, <3>1 DEF Sched, Labels
  <2>2. CASE Yield(c, p)
    BY <2>2 DEF Yield, Labels, States
  <2>3. CASE Resume(c, p)
    BY <2>3 DEF Resume, Labels
  <2>4. CASE Return(c, p)
    BY <2>4 DEF Return, ExitIfKilled, Labels
  <2>5. CASE AllocProc(c, p)
    <3>1. CASE state[idx[p]] = "UNUSED"
      <4>1. idx[p] \in 0..NPROC
        OBVIOUS
      <4>2. /\ pid' \in [Slots -> Nat] /\ nextpid' \in Nat
            /\ state' \in [Slots -> States]
        BY SMTT(300), <2>5, <3>1 DEF AllocProc, States
      <4>3. /\ plock' \in [Slots -> Cpu \cup {NoCpu}]
            /\ np' \in [Slots -> 0..NPROC] /\ pc' \in [Slots -> Labels]
        BY SMTT(300), <2>5, <3>1, <4>1 DEF AllocProc, Labels
      <4> QED
        BY <2>5, <3>1, <4>2, <4>3 DEF AllocProc
    <3>2. CASE state[idx[p]] # "UNUSED"
      <4>1. "ret" \in Labels /\ Advance(p, "ret")
        BY <2>5, <3>2 DEF AllocProc, Labels
      <4> QED
        BY <2>5, <3>2, <4>1, AdvanceFacts DEF AllocProc
    <3> QED
      BY <3>1, <3>2
  <2>6. CASE ForkFail(c, p)
    BY <2>6 DEF ForkFail, freeproc, Loop, Labels, States
  <2>7. CASE ForkCopy(c, p)
    BY <2>7 DEF ForkCopy, Labels
  <2>8. CASE ForkParent(c, p)
    BY <2>8 DEF ForkParent, Labels
  <2>9. CASE ForkRun(c, p)
    BY <2>9 DEF ForkRun, Loop, Labels, States
  <2>10. CASE ExitStart(c, p)
    BY <2>10 DEF ExitStart, Labels
  <2>11. CASE Reparent(c, p)
    <3>1. parent' \in [Slots -> 0..NPROC]
      BY <2>11 DEF Reparent
    <3>2. pc' \in [Slots -> Labels] /\ idx' \in [Slots -> Slots]
      BY SMTT(300), <2>11 DEF Reparent, Loop, Labels
    <3> QED
      BY <2>11, <3>1, <3>2 DEF Reparent
  <2>12. CASE ExitWakeup(c, p)
    <3>1. ASSUME NEW l \in Labels, NEW ch, wakeup(p, ch, l) PROVE TypeOK'
      <4>1. Advance(p, l) /\ state' \in [Slots -> States]
        BY <3>1 DEF wakeup, States
      <4> QED
        BY <3>1, <4>1, AdvanceFacts DEF wakeup
    <3> QED
      BY <2>12, <3>1 DEF ExitWakeup, Labels
  <2>13. CASE ExitZombie(c, p)
    BY <2>13 DEF ExitZombie, Labels, States
  <2>14. CASE WaitAcquire(c, p)
    BY <2>14 DEF WaitAcquire, Loop, Labels
  <2>15. CASE ScanSkip(c, p)
    <3>1. "scanned" \in Labels /\ Advance(p, "scanned")
      BY <2>15 DEF ScanSkip, Labels
    <3> QED
      BY <2>15, <3>1, AdvanceFacts DEF ScanSkip
  <2>16. CASE ScanReap(c, p)
    BY SMTT(300), <2>16 DEF ScanReap, freeproc, Loop, Labels, States
  <2>17. CASE ScanEnd(c, p)
    BY <2>17 DEF ScanEnd, Labels
  <2>18. CASE SleepAcquire(c, p) \/ SleepRelease(c, p)
    BY SMTT(300), <2>18 DEF SleepAcquire, SleepRelease, Labels
  <2>19. CASE SleepSet(c, p)
    BY <2>19 DEF SleepSet, Labels, States
  <2>20. CASE SleepWake(c, p)
    BY <2>20 DEF SleepWake, Labels
  <2>21. CASE KillScan(c, p)
    <3>1. CASE pid[idx[p]] = kpid[p]
      BY SMTT(300), <2>21, <3>1 DEF KillScan, Loop, Labels, States
    <3>2. CASE pid[idx[p]] # kpid[p]
      <4>1. "ret" \in Labels /\ Advance(p, "ret")
        BY <2>21, <3>2 DEF KillScan, Labels
      <4> QED
        BY SMTT(300), <2>21, <3>2, <4>1, AdvanceFacts DEF KillScan
    <3> QED
      BY <3>1, <3>2
  <2> QED
    BY <1>4, <2>1, <2>2, <2>3, <2>4, <2>5, <2>6, <2>7, <2>8, <2>9, <2>10,
       <2>11, <2>12, <2>13, <2>14, <2>15, <2>16, <2>17, <2>18, <2>19, <2>20, <2>21
       DEF Kernel
<1>5. CASE UNCHANGED vars
  BY <1>5 DEF vars
<1> QED
  BY <1>1, <1>2, <1>3, <1>4, <1>5 DEF Next, Scheduler

\* Every variable keeps its type: slot numbers stay in the table, states and
\* labels are known ones.
THEOREM TypeCorrect == Spec => []TypeOK
BY TypeInit, TypeNext, PTL DEF Spec

-----------------------------------------------------------------------------
(* What the step of one thread leaves alone                                *)

\* Of all places, the step of CPU c changes only that of p, from a to l.
Moves(c, p, a, l) ==
  /\ cproc' = cproc /\ cproc[c] = p
  /\ pc[p] = a /\ pc'[p] = l
  /\ \A q \in Slots : q # p => pc'[q] = pc[q]

\* Of f, a function on the slots, the step changes at most the value for p.
OnlyAt(f, p) == \A q \in Slots : q # p => f'[q] = f[q]

\* A slot in one of these states is not, or no longer, a process.
NoProcess == {"UNUSED", "USED", "ZOMBIE"}

\* The state of a process whose thread is at l on a CPU.
StateAt(l) == CASE l = "sched_yield" -> "RUNNABLE"
                [] l = "sched_sleep" -> "SLEEPING"
                [] l = "sched_exit"  -> "ZOMBIE"
                [] OTHER             -> "RUNNING"

\* The thread of a slot is on one CPU.
LEMMA OneCpu ==
  ASSUME IInv, NEW c \in Cpu, NEW p \in Slots, cproc[c] = p
  PROVE  /\ p # Null
         /\ \A d \in Cpu : cproc[d] # Null => cproc[d] \in Slots
         /\ \A d \in Cpu : d # c => cproc[d] # p
<1>1. TypeOK /\ CpuInv
  BY DEF IInv
<1>2. p # Null
  BY SlotFacts
<1>3. \A d \in Cpu : cproc[d] # Null => cproc[d] \in Slots
  BY <1>1, SlotFacts DEF TypeOK
<1>4. \A d \in Cpu : d # c => cproc[d] # p
  BY <1>1, <1>2 DEF CpuInv
<1> QED
  BY <1>2, <1>3, <1>4

\* A thread on a CPU is in the state its place says.
LEMMA StateOfPlace ==
  ASSUME IInv, NEW c \in Cpu, NEW p \in Slots, cproc[c] = p
  PROVE  state[p] = StateAt(pc[p])
<1>1. RunInv /\ p # Null
  BY SlotFacts DEF IInv
<1> QED
  BY <1>1 DEF RunInv, StateAt

\* Nobody changes which thread a CPU runs but scheduler() and sched().
LEMMA CpuFrame ==
  ASSUME IInv, NEW c, NEW p, NEW a, NEW l, Moves(c, p, a, l)
  PROVE  CpuInv'
<1>1. CpuInv /\ cproc' = cproc
  BY DEF IInv, Moves
<1> QED
  BY <1>1 DEF CpuInv

\* A step that takes no p->lock and drops none.
LEMMA PLockFrame ==
  ASSUME IInv, NEW c \in Cpu, NEW p \in Slots, NEW a, NEW l, Moves(c, p, a, l),
         plock' = plock, OnlyAt(np, p),
         (a \in HoldsP) <=> (l \in HoldsP), a # "fork_copy", l # "fork_copy"
  PROVE  PLockInv'
<1>1. PLockInv /\ cproc[c] = p
  BY DEF IInv, Moves
<1>2. \A d \in Cpu : cproc[d] # Null => cproc[d] \in Slots
  BY <1>1, OneCpu
<1>3. \A q \in Slots : (pc'[q] \in HoldsP) <=> (pc[q] \in HoldsP)
  BY DEF Moves
<1>4. \A q \in Slots : (pc'[q] = "fork_copy") <=> (pc[q] = "fork_copy")
  BY DEF Moves
<1>5. \A q \in Slots : pc[q] = "fork_copy" => np'[q] = np[q]
  BY DEF Moves, OnlyAt
<1>6. cproc' = cproc
  BY DEF Moves
<1> QED
  BY SMTT(300), <1>1, <1>2, <1>3, <1>4, <1>5, <1>6 DEF PLockInv

\* A thread that takes its own p->lock.
LEMMA PLockTake ==
  ASSUME IInv, NEW c \in Cpu, NEW p \in Slots, NEW a, NEW l, Moves(c, p, a, l),
         plock[p] = NoCpu, plock' = [plock EXCEPT ![p] = c], OnlyAt(np, p),
         l \in HoldsP, a # "fork_copy", l # "fork_copy"
  PROVE  PLockInv'
<1>1. PLockInv /\ cproc[c] = p /\ cproc' = cproc
  BY DEF IInv, Moves
<1>2. /\ \A d \in Cpu : cproc[d] # Null => cproc[d] \in Slots
      /\ \A d \in Cpu : d # c => cproc[d] # p
      /\ p # Null
  BY <1>1, OneCpu
<1>3. plock'[p] = c /\ \A q \in Slots : q # p => plock'[q] = plock[q]
  BY DEF IInv, TypeOK
<1>4. \A d \in Cpu : plock[p] # d
  BY ProcAssumption
<1>5. pc'[p] \in HoldsP /\ \A q \in Slots : q # p => pc'[q] = pc[q]
  BY DEF Moves
<1>6. \A q \in Slots : (pc'[q] = "fork_copy") <=> (pc[q] = "fork_copy")
  BY DEF Moves
<1>7. \A q \in Slots : pc[q] = "fork_copy" => np'[q] = np[q]
  BY DEF Moves, OnlyAt
<1>8. ASSUME NEW d \in Cpu
      PROVE  plock'[p] = d <=>
               /\ cproc[d] # Null
               /\ \/ p = cproc[d] /\ pc'[p] \in HoldsP
                  \/ p = np'[cproc[d]] /\ pc'[cproc[d]] = "fork_copy"
  <2>1. ASSUME cproc[d] # Null, p = np'[cproc[d]], pc'[cproc[d]] = "fork_copy"
        PROVE  FALSE
    <3>1. p = np[cproc[d]] /\ pc[cproc[d]] = "fork_copy"
      BY <1>2, <1>6, <1>7, <2>1
    <3> QED
      BY <1>1, <1>4, <2>1, <3>1 DEF PLockInv
  <2> QED
    BY <1>1, <1>2, <1>3, <1>5, <2>1
<1>9. ASSUME NEW q \in Slots, NEW d \in Cpu, q # p
      PROVE  plock'[q] = d <=>
               /\ cproc[d] # Null
               /\ \/ q = cproc[d] /\ pc'[q] \in HoldsP
                  \/ q = np'[cproc[d]] /\ pc'[cproc[d]] = "fork_copy"
  BY SMTT(300), <1>1, <1>2, <1>3, <1>5, <1>6, <1>7, <1>9 DEF PLockInv
<1> QED
  BY SMTT(300), <1>1, <1>8, <1>9 DEF PLockInv

\* A thread that drops its own p->lock.
LEMMA PLockDrop ==
  ASSUME IInv, NEW c \in Cpu, NEW p \in Slots, NEW a, NEW l, Moves(c, p, a, l),
         plock' = [plock EXCEPT ![p] = NoCpu], OnlyAt(np, p),
         a \in HoldsP, l \notin HoldsP, a # "fork_copy", l # "fork_copy"
  PROVE  PLockInv'
<1>1. PLockInv /\ cproc[c] = p /\ cproc' = cproc
  BY DEF IInv, Moves
<1>2. /\ \A d \in Cpu : cproc[d] # Null => cproc[d] \in Slots
      /\ \A d \in Cpu : d # c => cproc[d] # p
      /\ p # Null
  BY <1>1, OneCpu
<1>3. plock'[p] = NoCpu /\ \A q \in Slots : q # p => plock'[q] = plock[q]
  BY DEF IInv, TypeOK
<1>4. plock[p] = c
  BY <1>1, <1>2 DEF Moves, PLockInv
<1>5. pc'[p] \notin HoldsP /\ \A q \in Slots : q # p => pc'[q] = pc[q]
  BY DEF Moves
<1>6. \A q \in Slots : (pc'[q] = "fork_copy") <=> (pc[q] = "fork_copy")
  BY DEF Moves
<1>7. \A q \in Slots : pc[q] = "fork_copy" => np'[q] = np[q]
  BY DEF Moves, OnlyAt
<1>8. ASSUME NEW d \in Cpu
      PROVE  /\ plock'[p] # d
             /\ ~(p = cproc[d] /\ pc'[p] \in HoldsP)
             /\ ~(cproc[d] # Null /\ p = np'[cproc[d]] /\ pc'[cproc[d]] = "fork_copy")
  <2>1. ASSUME cproc[d] # Null, p = np'[cproc[d]], pc'[cproc[d]] = "fork_copy"
        PROVE  FALSE
    <3>1. cproc[d] \in Slots /\ p = np[cproc[d]] /\ pc[cproc[d]] = "fork_copy"
      BY <1>2, <1>6, <1>7, <2>1
    <3>2. plock[p] = d
      BY <1>1, <2>1, <3>1 DEF PLockInv
    <3>3. cproc[d] = p /\ pc[p] = a
      BY <1>1, <1>4, <3>2 DEF Moves
    <3> QED
      BY <3>1, <3>3
  <2>2. plock'[p] # d
    BY <1>3, ProcAssumption
  <2> QED
    BY <1>5, <2>1, <2>2
<1>9. ASSUME NEW q \in Slots, NEW d \in Cpu, q # p
      PROVE  plock'[q] = d <=>
               /\ cproc[d] # Null
               /\ \/ q = cproc[d] /\ pc'[q] \in HoldsP
                  \/ q = np'[cproc[d]] /\ pc'[cproc[d]] = "fork_copy"
  BY SMTT(300), <1>1, <1>2, <1>3, <1>5, <1>6, <1>7, <1>9 DEF PLockInv
<1> QED
  BY SMTT(300), <1>1, <1>8, <1>9 DEF PLockInv

\* A step that neither takes nor drops wait_lock.
LEMMA WaitFrame ==
  ASSUME IInv, NEW c \in Cpu, NEW p \in Slots, NEW a, NEW l, Moves(c, p, a, l),
         wait_lock' = wait_lock, (a \in HoldsWait) <=> (l \in HoldsWait)
  PROVE  WaitLockInv'
<1>1. WaitLockInv /\ cproc[c] = p /\ cproc' = cproc
  BY DEF IInv, Moves
<1>2. \A d \in Cpu : cproc[d] # Null => cproc[d] \in Slots
  BY <1>1, OneCpu
<1>3. \A q \in Slots : (pc'[q] \in HoldsWait) <=> (pc[q] \in HoldsWait)
  BY DEF Moves
<1> QED
  BY <1>1, <1>2, <1>3 DEF WaitLockInv

\* A thread that takes wait_lock.
LEMMA WaitTake ==
  ASSUME IInv, NEW c \in Cpu, NEW p \in Slots, NEW a, NEW l, Moves(c, p, a, l),
         wait_lock = NoCpu, wait_lock' = c, l \in HoldsWait
  PROVE  WaitLockInv'
<1>1. WaitLockInv /\ cproc[c] = p /\ cproc' = cproc
  BY DEF IInv, Moves
<1>2. /\ \A d \in Cpu : cproc[d] # Null => cproc[d] \in Slots
      /\ \A d \in Cpu : d # c => cproc[d] # p
      /\ p # Null
  BY <1>1, OneCpu
<1>3. pc'[p] \in HoldsWait /\ \A q \in Slots : q # p => pc'[q] = pc[q]
  BY DEF Moves
<1>4. \A d \in Cpu : wait_lock # d
  BY ProcAssumption
<1> QED
  BY <1>1, <1>2, <1>3, <1>4 DEF WaitLockInv

\* wait_lock keeps everybody else out of kexit() and kwait().
LEMMA OneWaiter ==
  ASSUME IInv, NEW c \in Cpu, NEW p \in Slots, cproc[c] = p, pc[p] \in HoldsWait
  PROVE  \A d \in Cpu : cproc[d] # Null /\ pc[cproc[d]] \in HoldsWait => d = c
<1>1. WaitLockInv /\ p # Null
  BY SlotFacts DEF IInv
<1>2. wait_lock = c
  BY <1>1 DEF WaitLockInv
<1> QED
  BY <1>1, <1>2 DEF WaitLockInv

\* A thread that drops wait_lock.
LEMMA WaitDrop ==
  ASSUME IInv, NEW c \in Cpu, NEW p \in Slots, NEW a, NEW l, Moves(c, p, a, l),
         wait_lock' = NoCpu, a \in HoldsWait, l \notin HoldsWait
  PROVE  WaitLockInv'
<1>1. cproc[c] = p /\ cproc' = cproc
  BY DEF Moves
<1>2. /\ \A d \in Cpu : cproc[d] # Null => cproc[d] \in Slots
      /\ \A d \in Cpu : d # c => cproc[d] # p
      /\ p # Null
  BY <1>1, OneCpu
<1>3. /\ pc[p] \in HoldsWait /\ pc'[p] \notin HoldsWait
      /\ \A q \in Slots : q # p => pc'[q] = pc[q]
  BY DEF Moves
<1>4. \A d \in Cpu : cproc[d] # Null /\ pc[cproc[d]] \in HoldsWait => d = c
  BY <1>1, <1>3, OneWaiter
<1>5. \A d \in Cpu : wait_lock' # d
  BY ProcAssumption
<1> QED
  BY <1>1, <1>2, <1>3, <1>4, <1>5 DEF WaitLockInv

\* A step that changes no state of a thread on another CPU.
LEMMA RunFrame ==
  ASSUME IInv, NEW c \in Cpu, NEW p \in Slots, NEW a, NEW l, Moves(c, p, a, l),
         l # "dead", state'[p] = StateAt(l),
         \A d \in Cpu : d # c /\ cproc[d] # Null => state'[cproc[d]] = state[cproc[d]]
  PROVE  RunInv'
<1>1. RunInv /\ cproc[c] = p /\ cproc' = cproc
  BY DEF IInv, Moves
<1>2. /\ \A d \in Cpu : cproc[d] # Null => cproc[d] \in Slots
      /\ \A d \in Cpu : d # c => cproc[d] # p
  BY <1>1, OneCpu
<1>3. pc'[p] = l /\ \A q \in Slots : q # p => pc'[q] = pc[q]
  BY DEF Moves
<1>4. /\ l = "sched_yield" => state'[p] = "RUNNABLE"
      /\ l = "sched_sleep" => state'[p] = "SLEEPING"
      /\ l = "sched_exit"  => state'[p] = "ZOMBIE"
      /\ l \notin {"sched_yield", "sched_sleep", "sched_exit"} => state'[p] = "RUNNING"
  BY DEF StateAt
<1>5. ASSUME NEW d \in Cpu, cproc[d] # Null, d # c
      PROVE  pc'[cproc[d]] = pc[cproc[d]] /\ state'[cproc[d]] = state[cproc[d]]
  BY <1>2, <1>3, <1>5
<1> QED
  BY <1>1, <1>3, <1>4, <1>5 DEF RunInv

\* A step that makes no slot runnable but those that sleep.
LEMMA RestFrame ==
  ASSUME IInv, NEW c \in Cpu, NEW p \in Slots, NEW a, NEW l, Moves(c, p, a, l),
         \A q \in Slots : q # p => \/ state'[q] = state[q]
                                   \/ state'[q] \in NoProcess
                                   \/ state[q] = "SLEEPING" /\ state'[q] = "RUNNABLE"
  PROVE  RestInv'
<1>1. RestInv /\ cproc[c] = p /\ cproc' = cproc
  BY DEF IInv, Moves
<1>2. \A q \in Slots : OnCpu(q)' <=> OnCpu(q)
  BY <1>1 DEF OnCpu
<1>3. OnCpu(p) /\ \A q \in Slots : q # p => pc'[q] = pc[q]
  BY <1>1 DEF OnCpu, Moves
<1> SUFFICES ASSUME NEW q \in Slots, ~OnCpu(q)
             PROVE  /\ state'[q] # "RUNNING"
                    /\ state'[q] = "RUNNABLE" => pc'[q] \in {"forkret", "yielded", "slept"}
                    /\ state'[q] = "SLEEPING" => pc'[q] = "slept"
  BY <1>2 DEF RestInv
<1>4. /\ q # p /\ pc'[q] = pc[q]
      /\ \/ state'[q] = state[q]
         \/ state'[q] \in NoProcess
         \/ state[q] = "SLEEPING" /\ state'[q] = "RUNNABLE"
  BY <1>3
<1>5. /\ state[q] # "RUNNING"
      /\ state[q] = "RUNNABLE" => pc[q] \in {"forkret", "yielded", "slept"}
      /\ state[q] = "SLEEPING" => pc[q] = "slept"
  BY <1>1 DEF RestInv
<1> QED
  BY <1>4, <1>5 DEF NoProcess

\* A step outside kfork() that leaves the slots under preparation alone.
LEMMA ForkFrame ==
  ASSUME IInv, NEW c \in Cpu, NEW p \in Slots, NEW a, NEW l, Moves(c, p, a, l),
         a \notin ForkLabels, l \notin ForkLabels, OnlyAt(np, p),
         \A q \in Slots : state[q] = "USED" /\ parent[q] # p
                            => state'[q] = "USED" /\ parent'[q] = parent[q]
  PROVE  ForkInv'
<1>1. ForkInv /\ cproc[c] = p /\ cproc' = cproc
  BY DEF IInv, Moves
<1>2. /\ \A d \in Cpu : cproc[d] # Null => cproc[d] \in Slots
      /\ \A d \in Cpu : d # c => cproc[d] # p
      /\ p # Null
  BY <1>1, OneCpu
<1>3. pc[p] = a /\ pc'[p] = l /\ \A q \in Slots : q # p => pc'[q] = pc[q]
  BY DEF Moves
<1>4. state[p] # "USED"
  BY <1>1, StateOfPlace DEF StateAt
<1>5. ASSUME NEW e \in Cpu, cproc[e] # Null, pc'[cproc[e]] \in ForkLabels
      PROVE  /\ cproc[e] # p /\ pc[cproc[e]] \in ForkLabels
             /\ pc'[cproc[e]] = pc[cproc[e]] /\ np'[cproc[e]] = np[cproc[e]]
  BY <1>2, <1>3, <1>5 DEF OnlyAt
<1> SUFFICES ASSUME NEW e \in Cpu, cproc[e] # Null, pc'[cproc[e]] \in ForkLabels
             PROVE  /\ np'[cproc[e]] \in Slots
                    /\ state'[np'[cproc[e]]] = "USED"
                    /\ pc'[cproc[e]] # "fork_copy" => pc'[np'[cproc[e]]] = "forkret"
                    /\ parent'[np'[cproc[e]]] =
                         IF pc'[cproc[e]] = "fork_run" THEN cproc[e] ELSE Null
                    /\ \A d \in Cpu :
                         /\ cproc[d] # Null /\ pc'[cproc[d]] \in ForkLabels
                         /\ np'[cproc[d]] = np'[cproc[e]]
                         => d = e
  BY <1>1 DEF ForkInv
<1>6. /\ cproc[e] # p /\ pc[cproc[e]] \in ForkLabels
      /\ pc'[cproc[e]] = pc[cproc[e]] /\ np'[cproc[e]] = np[cproc[e]]
  BY <1>5
<1>7. PICK q \in Slots : q = np[cproc[e]]
  BY <1>1, <1>6 DEF ForkInv
<1>8. /\ state[q] = "USED"
      /\ pc[cproc[e]] # "fork_copy" => pc[q] = "forkret"
      /\ parent[q] = IF pc[cproc[e]] = "fork_run" THEN cproc[e] ELSE Null
  BY <1>1, <1>6, <1>7 DEF ForkInv
<1>9. q # p /\ parent[q] # p
  BY <1>2, <1>4, <1>6, <1>8
<1>10. state'[q] = "USED" /\ parent'[q] = parent[q] /\ pc'[q] = pc[q]
  BY <1>3, <1>8, <1>9
<1>11. ASSUME NEW d \in Cpu, cproc[d] # Null, pc'[cproc[d]] \in ForkLabels,
              np'[cproc[d]] = np'[cproc[e]]
       PROVE  d = e
  <2>1. pc[cproc[d]] \in ForkLabels /\ np[cproc[d]] = np[cproc[e]]
    BY <1>5, <1>6, <1>11
  <2> QED
    BY <1>1, <1>6, <1>11, <2>1 DEF ForkInv
<1> QED
  BY <1>6, <1>7, <1>8, <1>10, <1>11

\* A step that changes no parent and makes or ends no process.
LEMMA FamilyFrame ==
  ASSUME IInv, NEW c \in Cpu, NEW p \in Slots, NEW a, NEW l, Moves(c, p, a, l),
         parent' = parent,
         \A q \in Slots : \/ state'[q] = state[q]
                          \/ state[q] \notin NoProcess /\ state'[q] \notin NoProcess,
         l \in {"wakeup_parent", "zombie"} => a \in {"wakeup_parent", "zombie"}
  PROVE  FamilyInv'
<1>1. FamilyInv /\ cproc[c] = p /\ cproc' = cproc
  BY DEF IInv, Moves
<1>2. \A d \in Cpu : cproc[d] # Null => cproc[d] \in Slots
  BY <1>1, OneCpu
<1>3. \A q \in Slots : pc'[q] \in {"wakeup_parent", "zombie"}
                         => pc[q] \in {"wakeup_parent", "zombie"}
  BY DEF Moves
<1>4. \A q \in Slots : parent[q] # Null => parent[q] \in Slots
  BY SlotFacts DEF IInv, TypeOK
<1>5. \A q \in Slots : /\ state'[q] = "UNUSED" <=> state[q] = "UNUSED"
                       /\ state'[q] = "USED" <=> state[q] = "USED"
                       /\ state'[q] = "ZOMBIE" <=> state[q] = "ZOMBIE"
  BY DEF NoProcess
<1>6. \A q \in Slots :
        /\ state'[q] = "UNUSED" => parent[q] = Null
        /\ q # initproc /\ state'[q] \notin {"UNUSED", "USED"} => parent[q] # Null
  BY <1>1, <1>5 DEF FamilyInv
<1>7. \A q \in Slots : parent[q] # Null =>
        parent[q] # q /\ state'[parent[q]] \notin {"UNUSED", "USED", "ZOMBIE"}
  BY <1>1, <1>4, <1>5 DEF FamilyInv
<1>8. \A d \in Cpu : cproc[d] # Null /\ pc'[cproc[d]] \in {"wakeup_parent", "zombie"}
                       => \A q \in Slots : parent[q] # cproc[d]
  BY <1>1, <1>2, <1>3 DEF FamilyInv
<1> QED
  BY <1>1, <1>6, <1>7, <1>8 DEF FamilyInv

\* A step that does not take init into kexit(), beyond its panic.
LEMMA InitFrame ==
  ASSUME IInv, NEW c \in Cpu, NEW p \in Slots, NEW a, NEW l, Moves(c, p, a, l),
         \/ state'[initproc] = state[initproc]
         \/ state'[initproc] \notin NoProcess,
         p = initproc => l \notin ExitLabels
  PROVE  InitInv'
<1>1. InitInv /\ initproc \in Slots
  BY SlotFacts DEF IInv
<1>2. pc'[initproc] \notin ExitLabels
  BY <1>1 DEF Moves, InitInv
<1> QED
  BY <1>1, <1>2 DEF InitInv, NoProcess

\* A thread beyond the first test of kexit() is not init's, and has a parent.
LEMMA HasParent ==
  ASSUME IInv, NEW d \in Cpu, cproc[d] # Null,
         pc[cproc[d]] \in {"reparent", "wakeup_init", "wakeup_parent", "zombie"}
  PROVE  cproc[d] \in Slots \ {initproc} /\ parent[cproc[d]] \in Slots
<1>1. PICK q \in Slots : q = cproc[d]
  BY SlotFacts DEF IInv, TypeOK
<1>2. q # initproc
  BY <1>1 DEF IInv, InitInv, ExitLabels
<1>3. state[q] = "RUNNING"
  BY <1>1, StateOfPlace DEF StateAt
<1>4. parent[q] # Null
  BY <1>2, <1>3 DEF IInv, FamilyInv
<1>5. parent[q] \in Slots
  BY <1>4, SlotFacts DEF IInv, TypeOK
<1> QED
  BY <1>1, <1>2, <1>5

\* A step outside wakeup() that puts nobody to bed and makes no zombie.
LEMMA WakeupFrame ==
  ASSUME IInv, NEW c \in Cpu, NEW p \in Slots, NEW a, NEW l, Moves(c, p, a, l),
         a # "wakeup_init", OnlyAt(idx, p),
         \A q \in Slots : state'[q] = "ZOMBIE"
                            => state[q] = "ZOMBIE" /\ parent'[q] = parent[q],
         \A q \in Slots : Bedding(q)' => Bedding(q)
  PROVE  WakeupInv'
<1>1. WakeupInv /\ cproc[c] = p /\ cproc' = cproc
  BY DEF IInv, Moves
<1>2. \A d \in Cpu : cproc[d] # Null => cproc[d] \in Slots
  BY <1>1, OneCpu
<1>3. \A q \in Slots : pc[q] = "wakeup_init" => pc'[q] = pc[q] /\ idx'[q] = idx[q]
  BY DEF Moves, OnlyAt
<1>4. \A q \in Slots : parent[q] # Null => parent[q] \in Slots
  BY SlotFacts DEF IInv, TypeOK
<1>5. ASSUME NEW q \in Slots, state'[q] = "ZOMBIE", parent'[q] # Null,
             Bedding(parent[q])'
      PROVE  /\ parent[q] = initproc
             /\ \E d \in Cpu : /\ cproc[d] # Null
                               /\ pc'[cproc[d]] = "wakeup_init"
                               /\ idx'[cproc[d]] = 1
  <2>1. state[q] = "ZOMBIE" /\ parent[q] # Null /\ parent'[q] = parent[q]
    BY <1>5
  <2>2. PICK x \in Slots : x = parent[q] /\ x = parent'[q]
    BY <1>4, <2>1
  <2>3. Bedding(x)'
    BY <1>5, <2>2
  <2>4. Bedding(parent[q])
    BY <2>2, <2>3
  <2>5. parent[q] = initproc
    BY <1>1, <2>1, <2>4 DEF WakeupInv
  <2>6. PICK d \in Cpu : /\ cproc[d] # Null
                         /\ pc[cproc[d]] = "wakeup_init"
                         /\ idx[cproc[d]] = 1
    BY <1>1, <2>1, <2>4 DEF WakeupInv
  <2>7. cproc[d] \in Slots
    BY <1>2, <2>6
  <2>8. pc'[cproc[d]] = "wakeup_init" /\ idx'[cproc[d]] = 1
    BY <1>3, <2>6, <2>7
  <2> QED
    BY <2>5, <2>6, <2>8
<1>6. \A q \in Slots : state'[q] = "ZOMBIE" => parent'[q] = parent[q]
  OBVIOUS
<1> QED
  BY <1>1, <1>5, <1>6 DEF WakeupInv

\* A step outside wakeup(parent) that puts nobody to bed.
LEMMA PassedFrame ==
  ASSUME IInv, NEW c \in Cpu, NEW p \in Slots, NEW a, NEW l, Moves(c, p, a, l),
         l \notin {"zombie", "wakeup_parent"}, OnlyAt(idx, p),
         \A d \in Cpu : d # c /\ cproc[d] # Null /\ pc[cproc[d]] \in HoldsWait =>
           /\ parent'[cproc[d]] = parent[cproc[d]]
           /\ \A q \in Slots : Bedding(q)' => Bedding(q)
  PROVE  PassedInv'
<1>1. PassedInv /\ cproc[c] = p /\ cproc' = cproc
  BY DEF IInv, Moves
<1>2. /\ \A d \in Cpu : cproc[d] # Null => cproc[d] \in Slots
      /\ \A d \in Cpu : d # c => cproc[d] # p
  BY <1>1, OneCpu
<1>3. pc'[p] = l /\ \A q \in Slots : q # p => pc'[q] = pc[q] /\ idx'[q] = idx[q]
  BY DEF Moves, OnlyAt
<1> SUFFICES ASSUME NEW d \in Cpu, cproc[d] # Null,
                    pc'[cproc[d]] \in {"zombie", "wakeup_parent"}
             PROVE  \/ /\ pc'[cproc[d]] # "zombie"
                       /\ idx'[cproc[d]] <= parent'[cproc[d]]
                    \/ ~Bedding(parent[cproc[d]])'
  BY <1>1 DEF PassedInv
<1>4. d # c /\ cproc[d] \in Slots /\ cproc[d] # p
  BY <1>1, <1>2, <1>3
<1>5. /\ pc'[cproc[d]] = pc[cproc[d]] /\ idx'[cproc[d]] = idx[cproc[d]]
      /\ pc[cproc[d]] \in {"zombie", "wakeup_parent"}
  BY <1>3, <1>4
<1>6. pc[cproc[d]] \in HoldsWait
  BY <1>5 DEF HoldsWait
<1>7. /\ parent'[cproc[d]] = parent[cproc[d]]
      /\ \A q \in Slots : Bedding(q)' => Bedding(q)
  BY <1>4, <1>6
<1>8. PICK x \in Slots : x = parent[cproc[d]]
  BY <1>5, HasParent
<1>9. Bedding(parent[cproc[d]])' => Bedding(x)'
  BY <1>1, <1>7, <1>8
<1> QED
  BY <1>1, <1>5, <1>7, <1>8, <1>9 DEF PassedInv

\* A step outside the scan of kwait() that makes no zombie.
LEMMA ScanFrame ==
  ASSUME IInv, NEW c \in Cpu, NEW p \in Slots, NEW a, NEW l, Moves(c, p, a, l),
         l # "scan", OnlyAt(idx, p),
         l \in {"scanned", "sleep", "sleep_rel"} => a \in {"scanned", "sleep", "sleep_rel"},
         \A q \in Slots : state'[q] = "ZOMBIE"
                            => state[q] = "ZOMBIE" /\ parent'[q] = parent[q]
  PROVE  ScanInv'
<1>1. ScanInv /\ cproc[c] = p /\ cproc' = cproc
  BY DEF IInv, Moves
<1>2. \A d \in Cpu : cproc[d] # Null => cproc[d] \in Slots
  BY <1>1, OneCpu
<1>3. \A q \in Slots : pc'[q] \in {"scanned", "sleep", "sleep_rel"}
                         => pc[q] \in {"scanned", "sleep", "sleep_rel"}
  BY DEF Moves
<1>4. \A q \in Slots : pc'[q] = "scan" => pc[q] = "scan" /\ idx'[q] = idx[q]
  BY DEF Moves, OnlyAt
<1> QED
  BY SMTT(300), <1>1, <1>2, <1>3, <1>4 DEF ScanInv

\* A step that does not panic.
LEMMA PanicFrame ==
  ASSUME IInv, NEW c \in Cpu, NEW p \in Slots, NEW a, NEW l, Moves(c, p, a, l),
         l # "panic"
  PROVE  NoPanic'
<1>1. NoPanic
  BY DEF IInv
<1> QED
  BY <1>1 DEF NoPanic, Moves

\* A step outside kfork() that changes no state.
LEMMA PlainFrame ==
  ASSUME IInv, NEW c \in Cpu, NEW p \in Slots, NEW a, NEW l, Moves(c, p, a, l),
         state' = state, OnlyAt(np, p), StateAt(l) = StateAt(a),
         a \notin ForkLabels, l \notin ForkLabels, l # "dead", l # "panic",
         \A q \in Slots : parent[q] # p => parent'[q] = parent[q]
  PROVE  CpuInv' /\ RunInv' /\ RestInv' /\ ForkInv' /\ NoPanic'
<1>1. cproc[c] = p /\ pc[p] = a
  BY DEF Moves
<1>2. state'[p] = StateAt(l)
  BY <1>1, StateOfPlace
<1>3. CpuInv' /\ NoPanic'
  BY CpuFrame, PanicFrame
<1>4. RunInv'
  BY <1>2, RunFrame
<1>5. RestInv'
  BY RestFrame
<1>6. ForkInv'
  BY ForkFrame
<1> QED
  BY <1>3, <1>4, <1>5, <1>6

\* A step outside kexit() and kwait() that puts nobody to bed, makes no zombie and
\* changes no parent of a running process or of a zombie.
LEMMA BedFrame ==
  ASSUME IInv, NEW c \in Cpu, NEW p \in Slots, NEW a, NEW l, Moves(c, p, a, l),
         OnlyAt(idx, p), a # "wakeup_init",
         l \notin {"sleep_set", "zombie", "wakeup_parent", "scan"},
         l \in {"scanned", "sleep", "sleep_rel"} => a \in {"scanned", "sleep", "sleep_rel"},
         \A q \in Slots : state[q] = "RUNNING" => parent'[q] = parent[q],
         \A q \in Slots : state'[q] = "ZOMBIE"
                            => state[q] = "ZOMBIE" /\ parent'[q] = parent[q],
         \A q \in Slots : state'[q] = "SLEEPING" /\ chan'[q] = q
                            => state[q] = "SLEEPING" /\ chan[q] = q
  PROVE  WakeupInv' /\ PassedInv' /\ ScanInv'
<1>1. \A q \in Slots : Bedding(q)' => Bedding(q)
  BY DEF Bedding, Moves
<1>2. ASSUME NEW d \in Cpu, d # c, cproc[d] # Null, pc[cproc[d]] \in HoldsWait
      PROVE  parent'[cproc[d]] = parent[cproc[d]]
  <2>1. cproc[c] = p
    BY DEF Moves
  <2>2. PICK q \in Slots : q = cproc[d]
    BY <1>2, <2>1, OneCpu
  <2>3. state[q] = StateAt(pc[q]) /\ pc[q] \in HoldsWait
    BY <1>2, <2>2, StateOfPlace
  <2>4. state[q] = "RUNNING"
    BY <2>3 DEF StateAt, HoldsWait
  <2> QED
    BY <2>2, <2>4
<1>3. WakeupInv'
  BY <1>1, WakeupFrame
<1>4. l \notin {"zombie", "wakeup_parent"}
  OBVIOUS
<1>5. PassedInv'
  BY <1>1, <1>2, <1>4, PassedFrame
<1>6. ScanInv'
  BY ScanFrame
<1> QED
  BY <1>3, <1>5, <1>6

\* Nothing happens to what IInv is about.
LEMMA StutterInv ==
  ASSUME IInv, TypeOK', UNCHANGED <<table, locks, cproc, pc, locals>>
  PROVE  IInv'
<1>1. UNCHANGED <<state, pid, parent, chan, killed, plock, wait_lock, cproc, pc,
                  idx, np, kpid>>
  BY DEF table, locks, locals
<1>2. (CpuInv /\ PLockInv /\ WaitLockInv /\ RunInv)'
  BY SMTT(300), <1>1 DEF IInv, CpuInv, PLockInv, WaitLockInv, RunInv
<1>3. (RestInv /\ ForkInv /\ FamilyInv /\ InitInv)'
  BY SMTT(300), <1>1 DEF IInv, RestInv, OnCpu, ForkInv, FamilyInv, InitInv
<1>4. (WakeupInv /\ PassedInv /\ ScanInv /\ NoPanic)'
  BY <1>1 DEF IInv, WakeupInv, PassedInv, ScanInv, NoPanic, Bedding
<1> QED
  BY <1>2, <1>3, <1>4 DEF IInv

-----------------------------------------------------------------------------
(* The boot state                                                            *)

\* The boot state, in which only init exists, satisfies IInv.
LEMMA InvInit == Init => IInv
<1> SUFFICES ASSUME Init PROVE IInv
  OBVIOUS
<1> USE SlotFacts, ProcAssumption DEF Init
<1>1. TypeOK
  BY TypeInit
<1>2. CpuInv /\ PLockInv /\ WaitLockInv /\ RunInv /\ ForkInv /\ PassedInv /\ ScanInv
  BY DEF CpuInv, PLockInv, WaitLockInv, RunInv, ForkInv, PassedInv, ScanInv
<1>3. RestInv /\ FamilyInv /\ WakeupInv /\ NoPanic
  BY DEF RestInv, FamilyInv, WakeupInv, NoPanic
<1>4. InitInv
  BY SMTT(300) DEF InitInv, ExitLabels
<1> QED
  BY <1>1, <1>2, <1>3, <1>4 DEF IInv

-----------------------------------------------------------------------------
(* usertrap() and the scheduler                                            *)

\* Places where a thread holds no lock, owns no slot and is in none of the loops of
\* kexit() and kwait().
QuietLabels == {"user", "ret", "yield", "fork", "kill", "wait", "exit", "rewait",
                "init_exiting"}

\* A thread that moves between such places preserves IInv: the system calls, the
\* timer, the return to user space, a loop that looks at a slot.
LEMMA QuietStep ==
  ASSUME IInv, TypeOK', NEW c \in Cpu, NEW p \in Slots,
         NEW a \in QuietLabels, NEW l \in QuietLabels, Moves(c, p, a, l),
         UNCHANGED <<state, parent, pid, killed, chan, plock, wait_lock>>,
         OnlyAt(idx, p), OnlyAt(np, p)
  PROVE  IInv'
<1>1. /\ a \notin ForkLabels /\ l \notin ForkLabels
      /\ a \notin HoldsP /\ l \notin HoldsP
      /\ a \notin HoldsWait /\ l \notin HoldsWait
      /\ l \notin ExitLabels
  BY DEF QuietLabels, ForkLabels, HoldsP, HoldsWait, ExitLabels
<1>2. /\ l # "dead" /\ l # "panic" /\ a # "fork_copy" /\ l # "fork_copy" /\ l # "scan"
      /\ l \notin {"wakeup_parent", "zombie"} /\ a # "wakeup_init"
      /\ l \notin {"sleep_set", "zombie", "wakeup_parent", "scan"}
      /\ l \notin {"scanned", "sleep", "sleep_rel"}
  BY DEF QuietLabels
<1>3. StateAt(a) = "RUNNING" /\ StateAt(l) = "RUNNING"
  BY DEF QuietLabels, StateAt
<1>4. CpuInv' /\ RunInv' /\ RestInv' /\ ForkInv' /\ NoPanic'
  BY <1>1, <1>2, <1>3, PlainFrame
<1>5. PLockInv' /\ WaitLockInv'
  BY <1>1, <1>2, PLockFrame, WaitFrame
<1>6. FamilyInv'
  BY <1>2, FamilyFrame
<1>7. InitInv'
  BY <1>1, InitFrame
<1>8. WakeupInv' /\ PassedInv' /\ ScanInv'
  BY <1>2, BedFrame
<1> QED
  BY <1>4, <1>5, <1>6, <1>7, <1>8 DEF IInv

\* The thread of p goes to l.
LEMMA MovesFact ==
  ASSUME TypeOK, NEW c, NEW p \in Slots, NEW l, cproc[c] = p,
         pc' = [pc EXCEPT ![p] = l], cproc' = cproc
  PROVE  Moves(c, p, pc[p], l)
<1>1. pc \in [Slots -> Labels]
  BY DEF TypeOK
<1> QED
  BY <1>1 DEF Moves

\* A system call, seen from usertrap(), preserves IInv.
LEMMA SyscallInv ==
  ASSUME IInv, TypeOK', NEW c \in Cpu, NEW p \in Slots, Syscall(c, p)
  PROVE  IInv'
<1>1. /\ TypeOK
      /\ cproc[c] = p /\ pc[p] = "user"
      /\ UNCHANGED <<state, parent, pid, killed, chan, plock, wait_lock, cproc, np>>
  BY DEF IInv, Syscall, At, table, locks, cpus
<1>2. PICK l \in {"fork", "wait", "exit", "kill"} :
         /\ pc' = [pc EXCEPT ![p] = l]
         /\ idx' = idx \/ idx' = [idx EXCEPT ![p] = 1]
  <2>1. CASE killed[p] = 1
    BY SMTT(300), <1>1, <2>1 DEF Syscall, Goto
  <2>2. CASE killed[p] # 1
    BY <2>2 DEF Syscall, Fork, Wait, Exit, Kill, Loop, Goto
  <2> QED
    BY <2>1, <2>2
<1>3. OnlyAt(idx, p) /\ OnlyAt(np, p)
  BY <1>1, <1>2 DEF TypeOK, OnlyAt
<1>5. "user" \in QuietLabels /\ l \in QuietLabels
  BY DEF QuietLabels
<1>6. pc' = [pc EXCEPT ![p] = l]
  BY <1>2
<1>7. Moves(c, p, "user", l)
  BY <1>1, <1>6, MovesFact
<1> QED
  BY <1>1, <1>3, <1>5, <1>7, QuietStep

\* The timer interrupt and the return to user space preserve IInv.
LEMMA ReturnInv ==
  ASSUME IInv, TypeOK', NEW c \in Cpu, NEW p \in Slots,
         Timer(c, p) \/ Return(c, p)
  PROVE  IInv'
<1>1. TypeOK
  BY DEF IInv
<1>2. /\ UNCHANGED <<state, parent, pid, killed, chan, plock, wait_lock, cproc, idx,
                     np, kpid>>
      /\ cproc[c] = p /\ pc[p] \in {"user", "ret"}
  BY DEF Timer, Return, At, table, locks, cpus, locals
<1>3. PICK l \in {"user", "yield", "exit"} :
         pc' = [pc EXCEPT ![p] = l]
  BY SMTT(300) DEF Timer, Return, ExitIfKilled, Goto
<1>4. l \in QuietLabels /\ pc[p] \in QuietLabels
  BY <1>2 DEF QuietLabels
<1>5. OnlyAt(idx, p) /\ OnlyAt(np, p)
  BY <1>2 DEF OnlyAt
<1>6. Moves(c, p, pc[p], l)
  BY <1>1, <1>2, <1>3, MovesFact
<1> QED
  BY <1>1, <1>2, <1>3, <1>4, <1>5, <1>6, QuietStep

\* allocproc() passing a slot in use, and kkill() passing a slot with another
\* pid, preserve IInv.
LEMMA PassInv ==
  ASSUME IInv, TypeOK', NEW c \in Cpu, NEW p \in Slots,
         \/ AllocProc(c, p) /\ state[idx[p]] # "UNUSED"
         \/ KillScan(c, p) /\ pid[idx[p]] # kpid[p]
  PROVE  IInv'
<1>1. TypeOK /\ "ret" \in Labels
  BY DEF IInv, Labels
<1>2. /\ Advance(p, "ret")
      /\ cproc[c] = p /\ pc[p] \in {"fork", "kill"}
      /\ UNCHANGED <<state, parent, pid, killed, chan, plock, wait_lock, cproc, np>>
  BY DEF AllocProc, KillScan, At, cpus, locks
<1>5. OnlyAt(idx, p) /\ OnlyAt(np, p)
  BY <1>1, <1>2, AdvanceFacts DEF OnlyAt
<1>6. pc' = pc \/ pc' = [pc EXCEPT ![p] = "ret"]
  BY <1>1, <1>2, AdvanceFacts
<1>7. PICK l \in {pc[p], "ret"} : Moves(c, p, pc[p], l)
  <2>1. CASE pc' = pc
    BY <1>2, <2>1 DEF Moves
  <2>2. CASE pc' = [pc EXCEPT ![p] = "ret"]
    BY <1>1, <1>2, <2>2, MovesFact
  <2> QED
    BY <1>6, <2>1, <2>2
<1>8. pc[p] \in QuietLabels /\ l \in QuietLabels
  BY <1>2, <1>7 DEF QuietLabels
<1> QED
  BY <1>2, <1>5, <1>7, <1>8, QuietStep

\* A fatal exception of a user process preserves IInv.
LEMMA FaultInv ==
  ASSUME IInv, TypeOK', NEW c \in Cpu, NEW p \in Slots, Fault(c, p)
  PROVE  IInv'
<1>1. /\ TypeOK
      /\ cproc[c] = p /\ pc[p] = "user" /\ pc' = [pc EXCEPT ![p] = "exit"]
      /\ killed' = [killed EXCEPT ![p] = 1]
      /\ UNCHANGED <<state, pid, parent, chan, plock, wait_lock, cproc, idx, np, kpid>>
  BY DEF IInv, Fault, At, Goto, locks, cpus, locals
<1>2. Moves(c, p, "user", "exit")
  BY <1>1, MovesFact
<1>3. OnlyAt(idx, p) /\ OnlyAt(np, p)
  BY <1>1 DEF OnlyAt
<1>4. "exit" \notin ExitLabels
  BY DEF ExitLabels
<1>5. /\ "user" \notin ForkLabels /\ "exit" \notin ForkLabels
      /\ "user" \notin HoldsP /\ "exit" \notin HoldsP
      /\ "user" \notin HoldsWait /\ "exit" \notin HoldsWait
  BY DEF ForkLabels, HoldsP, HoldsWait
<1>6. StateAt("user") = "RUNNING" /\ StateAt("exit") = "RUNNING"
  BY DEF StateAt
<1>7. CpuInv' /\ RunInv' /\ RestInv' /\ ForkInv' /\ NoPanic'
  BY <1>1, <1>2, <1>3, <1>5, <1>6, PlainFrame
<1>8. PLockInv'
  BY <1>1, <1>2, <1>3, <1>5, PLockFrame
<1>9. WaitLockInv'
  BY <1>1, <1>2, <1>5, WaitFrame
<1>10. FamilyInv'
  BY <1>1, <1>2, FamilyFrame
<1>11. InitInv'
  BY <1>1, <1>2, <1>4, InitFrame
<1>12. WakeupInv' /\ PassedInv' /\ ScanInv'
  BY <1>1, <1>2, <1>3, BedFrame
<1> QED
  BY <1>7, <1>8, <1>9, <1>10, <1>11, <1>12 DEF IInv

-----------------------------------------------------------------------------
(* The context switch                                                      *)

\* A round of scheduler() past a slot that is not runnable preserves IInv.
LEMMA SchedSkipInv ==
  ASSUME IInv, TypeOK', NEW c \in Cpu, SchedSkip(c)
  PROVE  IInv'
<1>1. UNCHANGED <<table, locks, cproc, pc, locals>>
  BY DEF SchedSkip
<1> QED
  BY <1>1, StutterInv

\* The slot that scheduler() picks is on no CPU: whoever is still on the stack of
\* a slot that is RUNNABLE holds its lock.
LEMMA PickFact ==
  ASSUME IInv, NEW c \in Cpu, SchedPick(c)
  PROVE  /\ sidx[c] \in Slots
         /\ ~OnCpu(sidx[c])
         /\ pc[sidx[c]] \in {"forkret", "yielded", "slept"}
<1>1. /\ sidx[c] \in Slots /\ plock[sidx[c]] = NoCpu
      /\ state[sidx[c]] = "RUNNABLE" /\ RestInv /\ PLockInv
  BY DEF IInv, TypeOK, SchedPick, Free
<1>2. ASSUME NEW d \in Cpu, cproc[d] = sidx[c] PROVE FALSE
  <2>1. sidx[c] # Null
    BY <1>1, SlotFacts
  <2>2. StateAt(pc[sidx[c]]) = "RUNNABLE"
    BY <1>1, <1>2, StateOfPlace
  <2>3. pc[sidx[c]] \in HoldsP
    BY <2>2 DEF StateAt, HoldsP
  <2>4. plock[sidx[c]] = d
    BY <1>1, <1>2, <2>1, <2>3 DEF PLockInv
  <2> QED
    BY <1>1, <2>4, ProcAssumption
<1> QED
  BY <1>1, <1>2 DEF RestInv, OnCpu

\* scheduler() switching to the slot it picked preserves IInv.
LEMMA SchedPickInv ==
  ASSUME IInv, TypeOK', NEW c \in Cpu, SchedPick(c)
  PROVE  IInv'
<1>1. PICK p \in Slots : p = sidx[c]
  BY PickFact
<1>2. ~OnCpu(p) /\ pc[p] \in {"forkret", "yielded", "slept"}
  BY <1>1, PickFact
<1>3. /\ cproc[c] = Null /\ plock[p] = NoCpu /\ state[p] = "RUNNABLE"
      /\ state' = [state EXCEPT ![p] = "RUNNING"]
      /\ plock' = [plock EXCEPT ![p] = c]
      /\ cproc' = [cproc EXCEPT ![c] = p]
      /\ UNCHANGED <<pid, parent, chan, killed, wait_lock, pc, idx, np, kpid>>
  BY <1>1 DEF SchedPick, Free, locals
\* What the step changes, value by value.
<1>4. TypeOK /\ p # Null /\ initproc \in Slots
  BY SlotFacts DEF IInv
<1>5. state'[p] = "RUNNING" /\ \A q \in Slots : q # p => state'[q] = state[q]
  BY <1>3, <1>4 DEF TypeOK
<1>6. plock'[p] = c /\ \A q \in Slots : q # p => plock'[q] = plock[q]
  BY <1>3, <1>4 DEF TypeOK
<1>7. cproc'[c] = p /\ \A d \in Cpu : d # c => cproc'[d] = cproc[d] /\ cproc[d] # p
  BY <1>2, <1>3, <1>4 DEF TypeOK, OnCpu
<1>8. \A d \in Cpu : cproc[d] # Null => d # c /\ cproc[d] \in Slots \ {p}
  BY <1>3, <1>4, <1>7, SlotFacts DEF TypeOK
<1>9. \A q \in Slots : state'[q] = state[q] \/ (state[q] = "RUNNABLE" /\ state'[q] = "RUNNING")
  BY <1>3, <1>5
<1>10. /\ pc[p] \in HoldsP /\ pc[p] \notin HoldsWait /\ pc[p] \notin ForkLabels
       /\ pc[p] \notin {"wakeup_parent", "zombie", "dead", "fork_copy", "wakeup_init"}
       /\ pc[p] \notin {"sched_yield", "sched_sleep", "sched_exit"}
       /\ pc[p] \notin {"scan", "scanned", "sleep", "sleep_rel"}
  BY <1>2 DEF HoldsP, HoldsWait, ForkLabels
\* The conjuncts of IInv.
<1>11. CpuInv'
  BY <1>7 DEF IInv, CpuInv
<1>12. PLockInv'
  <2>1. PLockInv
    BY DEF IInv
  <2>2. ASSUME NEW d \in Cpu, cproc[d] # Null, p = np[cproc[d]],
               pc[cproc[d]] = "fork_copy"
        PROVE  FALSE
    BY <1>3, <2>1, <2>2, ProcAssumption DEF PLockInv
  <2>3. ASSUME NEW d \in Cpu
        PROVE  plock'[p] = d <=>
                 /\ cproc'[d] # Null
                 /\ \/ p = cproc'[d] /\ pc[p] \in HoldsP
                    \/ p = np[cproc'[d]] /\ pc[cproc'[d]] = "fork_copy"
    BY <1>4, <1>6, <1>7, <1>10, <2>2
  <2>4. ASSUME NEW q \in Slots, NEW d \in Cpu, q # p
        PROVE  plock'[q] = d <=>
                 /\ cproc'[d] # Null
                 /\ \/ q = cproc'[d] /\ pc[q] \in HoldsP
                    \/ q = np[cproc'[d]] /\ pc[cproc'[d]] = "fork_copy"
    <3>1. CASE d = c
      BY <1>3, <1>6, <1>7, <1>10, <2>1, <2>4, <3>1 DEF PLockInv
    <3>2. CASE d # c
      BY SMTT(300), <1>6, <1>7, <2>1, <2>4, <3>2 DEF PLockInv
    <3> QED
      BY <3>1, <3>2
  <2> QED
    BY SMTT(300), <1>3, <2>3, <2>4 DEF PLockInv
<1>13. WaitLockInv'
  BY <1>3, <1>7, <1>10 DEF IInv, WaitLockInv
<1>14. RunInv'
  BY SMTT(300), <1>3, <1>5, <1>7, <1>8, <1>10 DEF IInv, RunInv
<1>15. RestInv'
  <2>1. ASSUME NEW q \in Slots, ~OnCpu(q)' PROVE q # p /\ ~OnCpu(q)
    <3>1. q # p
      BY <1>7, <2>1 DEF OnCpu
    <3>2. ASSUME NEW d \in Cpu, cproc[d] = q PROVE FALSE
      <4>1. q # Null
        BY SlotFacts
      <4>2. cproc'[d] = q
        BY <1>7, <1>8, <3>2, <4>1
      <4> QED
        BY <2>1, <4>2 DEF OnCpu
    <3> QED
      BY <3>1, <3>2 DEF OnCpu
  <2> QED
    BY <1>3, <1>5, <2>1 DEF IInv, RestInv
<1>16. ForkInv'
  <2>1. ForkInv /\ \A q \in Slots : state[q] = "USED" => state'[q] = "USED"
    BY <1>9 DEF IInv
  <2>2. ASSUME NEW d \in Cpu, cproc'[d] # Null, pc[cproc'[d]] \in ForkLabels
        PROVE  cproc'[d] = cproc[d]
    BY <1>7, <1>10, <2>2
  <2> QED
    BY SMTT(300), <1>3, <2>1, <2>2 DEF ForkInv
<1>17. FamilyInv'
  <2>1. \A q \in Slots : parent[q] # Null => parent[q] \in Slots
    BY <1>4, SlotFacts DEF TypeOK
  <2>2. \A q \in Slots : /\ state'[q] = "UNUSED" <=> state[q] = "UNUSED"
                         /\ state'[q] = "USED" <=> state[q] = "USED"
                         /\ state'[q] = "ZOMBIE" <=> state[q] = "ZOMBIE"
    BY <1>9
  <2>3. ASSUME NEW d \in Cpu, cproc'[d] # Null,
               pc[cproc'[d]] \in {"wakeup_parent", "zombie"}
        PROVE  \A q \in Slots : parent[q] # cproc'[d]
    BY <1>7, <1>10, <2>3 DEF IInv, FamilyInv
  <2>4. \A q \in Slots :
          /\ state'[q] = "UNUSED" => parent[q] = Null
          /\ q # initproc /\ state'[q] \notin {"UNUSED", "USED"} => parent[q] # Null
    BY <2>2 DEF IInv, FamilyInv
  <2>5. \A q \in Slots : parent[q] # Null =>
          parent[q] # q /\ state'[parent[q]] \notin {"UNUSED", "USED", "ZOMBIE"}
    BY <2>1, <2>2 DEF IInv, FamilyInv
  <2>6. parent[initproc] = Null
    BY DEF IInv, FamilyInv
  <2> QED
    BY <1>3, <2>3, <2>4, <2>5, <2>6 DEF FamilyInv
<1>18. InitInv'
  BY <1>3, <1>4, <1>9 DEF IInv, InitInv
<1>19. \A q \in Slots : Bedding(q)' => Bedding(q)
  BY <1>3, <1>9 DEF Bedding
<1>20. WakeupInv'
  <2>1. \A q \in Slots : state'[q] = "ZOMBIE" => state[q] = "ZOMBIE"
    BY <1>9
  <2>2. ASSUME NEW q \in Slots, state'[q] = "ZOMBIE", parent[q] # Null,
               Bedding(parent[q])'
        PROVE  /\ parent[q] = initproc
               /\ \E d \in Cpu : /\ cproc[d] # Null
                                 /\ pc[cproc[d]] = "wakeup_init"
                                 /\ idx[cproc[d]] = 1
    <3>1. PICK x \in Slots : x = parent[q] /\ x = parent'[q]
      BY <1>3, <1>4, <2>2, SlotFacts DEF TypeOK
    <3>2. Bedding(x)
      BY <1>19, <2>2, <3>1
    <3> QED
      BY <2>1, <2>2, <3>1, <3>2 DEF IInv, WakeupInv
  <2>3. \A d \in Cpu : cproc[d] # Null => cproc'[d] = cproc[d]
    BY <1>7, <1>8
  <2> QED
    BY <1>3, <2>2, <2>3 DEF WakeupInv
<1>21. PassedInv'
  <2> SUFFICES ASSUME NEW d \in Cpu, cproc'[d] # Null,
                      pc[cproc'[d]] \in {"wakeup_parent", "zombie"}
               PROVE  \/ /\ pc[cproc'[d]] # "zombie"
                         /\ idx[cproc'[d]] <= parent[cproc'[d]]
                      \/ ~Bedding(parent[cproc[d]])'
    BY <1>3 DEF PassedInv
  <2>1. cproc'[d] = cproc[d]
    BY <1>7, <1>10
  <2>2. PICK x \in Slots : x = parent[cproc[d]] /\ x = parent'[cproc'[d]]
    BY <1>3, <2>1, HasParent
  <2>3. Bedding(parent[cproc[d]])' => Bedding(x)
    BY <1>19, <2>2
  <2> QED
    BY <2>1, <2>2, <2>3 DEF IInv, PassedInv
<1>22. ScanInv'
  <2>1. \A d \in Cpu : /\ cproc'[d] # Null
                       /\ pc[cproc'[d]] \in {"scan", "scanned", "sleep", "sleep_rel"}
                       => cproc'[d] = cproc[d]
    BY <1>7, <1>10
  <2>2. \A q \in Slots : state'[q] = "ZOMBIE" => state[q] = "ZOMBIE"
    BY <1>9
  <2> QED
    BY <1>3, <2>1, <2>2 DEF IInv, ScanInv
<1>23. NoPanic'
  BY <1>3 DEF IInv, NoPanic
<1> QED
  BY <1>11, <1>12, <1>13, <1>14, <1>15, <1>16, <1>17, <1>18, <1>20, <1>21,
     <1>22,
     <1>23 DEF IInv

\* sched() finds its conditions satisfied and leaves the CPU to scheduler().
LEMMA SchedFact ==
  ASSUME IInv, NEW c \in Cpu, NEW p \in Slots, Sched(c, p)
  PROVE  /\ SchedOK(c, p)
         /\ \/ state[p] = "RUNNABLE" /\ pc' = [pc EXCEPT ![p] = "yielded"]
            \/ state[p] = "SLEEPING" /\ pc' = [pc EXCEPT ![p] = "slept"]
            \/ state[p] = "ZOMBIE"   /\ pc' = [pc EXCEPT ![p] = "dead"]
         /\ cproc[c] = p
         /\ pc[p] \in {"sched_yield", "sched_sleep", "sched_exit"}
         /\ cproc' = [cproc EXCEPT ![c] = Null]
         /\ plock' = [plock EXCEPT ![p] = NoCpu]
         /\ UNCHANGED <<table, wait_lock, locals>>
<1>1. /\ cproc[c] = p /\ p # Null
      /\ \/ pc[p] = "sched_yield" /\ sched(c, p, "yielded")
         \/ pc[p] = "sched_sleep" /\ sched(c, p, "slept")
         \/ pc[p] = "sched_exit"  /\ sched(c, p, "dead")
  BY SlotFacts DEF Sched, At
<1>2. pc[p] \in HoldsP /\ pc[p] \notin HoldsWait /\ pc[p] # "fork_copy"
  BY <1>1 DEF HoldsP, HoldsWait
<1>3. PLockInv /\ WaitLockInv /\ state[p] = StateAt(pc[p])
  BY <1>1, StateOfPlace DEF IInv
<1>4. /\ pc[p] = "sched_yield" => state[p] = "RUNNABLE"
      /\ pc[p] = "sched_sleep" => state[p] = "SLEEPING"
      /\ pc[p] = "sched_exit"  => state[p] = "ZOMBIE"
  BY <1>3 DEF StateAt
<1>5. state[p] # "RUNNING"
  BY <1>1, <1>4
<1>6. plock[p] = c /\ \A q \in Slots \ {p} : plock[q] # c
  BY <1>1, <1>2, <1>3 DEF PLockInv
<1>7. wait_lock # c
  BY <1>1, <1>2, <1>3 DEF WaitLockInv
<1>8. SchedOK(c, p)
  BY <1>5, <1>6, <1>7 DEF SchedOK
<1>9. ASSUME NEW r, sched(c, p, r)
      PROVE  /\ pc' = [pc EXCEPT ![p] = r]
             /\ cproc' = [cproc EXCEPT ![c] = Null]
             /\ plock' = [plock EXCEPT ![p] = NoCpu]
             /\ UNCHANGED <<table, wait_lock, locals>>
  BY <1>8, <1>9 DEF sched, Goto
<1> QED
  BY <1>1, <1>4, <1>8, <1>9

\* sched(), called by yield(), sleep() or kexit(), preserves IInv.
LEMMA SchedInv ==
  ASSUME IInv, TypeOK', NEW c \in Cpu, NEW p \in Slots, Sched(c, p)
  PROVE  IInv'
<1>1. PICK r \in {"yielded", "slept", "dead"} :
         /\ pc' = [pc EXCEPT ![p] = r]
         /\ r = "yielded" => state[p] = "RUNNABLE"
         /\ r = "slept"   => state[p] = "SLEEPING"
         /\ r = "dead"    => state[p] = "ZOMBIE"
  BY SchedFact
<1>2. /\ SchedOK(c, p) /\ cproc[c] = p
      /\ pc[p] \in {"sched_yield", "sched_sleep", "sched_exit"}
      /\ cproc' = [cproc EXCEPT ![c] = Null]
      /\ plock' = [plock EXCEPT ![p] = NoCpu]
      /\ UNCHANGED <<table, wait_lock, locals>>
  BY SchedFact
<1>3. UNCHANGED <<state, pid, parent, chan, killed, wait_lock, idx, np, kpid>>
  BY <1>2 DEF table, locals
\* What the step changes, value by value.
<1>4. TypeOK /\ p # Null /\ initproc \in Slots
  BY SlotFacts DEF IInv
<1>5. pc'[p] = r /\ \A q \in Slots : q # p => pc'[q] = pc[q]
  BY <1>1, <1>4 DEF TypeOK
<1>6. plock'[p] = NoCpu /\ \A q \in Slots : q # p => plock'[q] = plock[q]
  BY <1>2, <1>4 DEF TypeOK
<1>7. cproc'[c] = Null /\ \A d \in Cpu : d # c => cproc'[d] = cproc[d]
  BY <1>2, <1>4 DEF TypeOK
<1>8. \A d \in Cpu : d # c => cproc[d] # p
  BY <1>2, OneCpu
<1>9. \A d \in Cpu : cproc'[d] # Null
        => d # c /\ cproc'[d] = cproc[d] /\ cproc[d] \in Slots \ {p}
  BY <1>2, <1>7, <1>8, OneCpu
<1>10. \A d \in Cpu : cproc'[d] # Null => pc'[cproc'[d]] = pc[cproc[d]]
  BY <1>5, <1>9
\* The conjuncts of IInv.
<1>11. CpuInv'
  BY <1>9 DEF IInv, CpuInv
<1>12. PLockInv'
  <2>1. PLockInv
    BY DEF IInv
  <2>2. plock[p] = c /\ \A q \in Slots \ {p} : plock[q] # c
    BY <1>2 DEF SchedOK
  <2>3. ASSUME NEW q \in Slots, q # p
        PROVE  plock'[q] # c /\ cproc'[c] = Null
    BY <1>6, <1>7, <2>2, <2>3
  <2>4. ASSUME NEW d \in Cpu
        PROVE  /\ plock'[p] # d
               /\ ~(cproc'[d] # Null /\ p = cproc'[d])
               /\ ~(cproc'[d] # Null /\ p = np[cproc'[d]] /\ pc'[cproc'[d]] = "fork_copy")
    <3>1. plock'[p] # d
      BY <1>6, ProcAssumption
    <3>2. ASSUME cproc'[d] # Null, p = np[cproc'[d]], pc'[cproc'[d]] = "fork_copy"
          PROVE  FALSE
      <4>1. d # c /\ cproc[d] # Null /\ p = np[cproc[d]] /\ pc[cproc[d]] = "fork_copy"
        BY <1>9, <1>10, <3>2
      <4> QED
        BY <2>1, <2>2, <4>1 DEF PLockInv
    <3> QED
      BY <1>9, <3>1, <3>2
  <2>5. ASSUME NEW q \in Slots, NEW d \in Cpu, q # p, d # c
        PROVE  plock'[q] = d <=>
                 /\ cproc'[d] # Null
                 /\ \/ q = cproc'[d] /\ pc'[q] \in HoldsP
                    \/ q = np[cproc'[d]] /\ pc'[cproc'[d]] = "fork_copy"
    <3>1. plock'[q] = plock[q] /\ cproc'[d] = cproc[d] /\ pc'[q] = pc[q]
      BY <1>5, <1>6, <1>7, <2>5
    <3> QED
      BY SMTT(300), <1>10, <2>1, <3>1 DEF PLockInv
  <2> QED
    BY <1>3, <2>3, <2>4, <2>5 DEF PLockInv
<1>13. WaitLockInv'
  <2>1. wait_lock # c
    BY <1>2 DEF SchedOK
  <2> QED
    BY <1>3, <1>7, <1>9, <1>10, <2>1 DEF IInv, WaitLockInv
<1>14. RunInv'
  BY <1>3, <1>9, <1>10 DEF IInv, RunInv
<1>15. RestInv'
  <2>1. \A q \in Slots : q # p /\ OnCpu(q) => OnCpu(q)'
    BY <1>2, <1>7 DEF OnCpu
  <2>2. ASSUME NEW q \in Slots, q # p, ~OnCpu(q)'
        PROVE  /\ state[q] # "RUNNING"
               /\ state[q] = "RUNNABLE" => pc'[q] \in {"forkret", "yielded", "slept"}
               /\ state[q] = "SLEEPING" => pc'[q] = "slept"
    BY <1>5, <2>1, <2>2 DEF IInv, RestInv
  <2>3. /\ state[p] # "RUNNING"
        /\ state[p] = "RUNNABLE" => pc'[p] \in {"forkret", "yielded", "slept"}
        /\ state[p] = "SLEEPING" => pc'[p] = "slept"
    BY <1>1, <1>5
  <2> QED
    BY <1>3, <2>2, <2>3 DEF RestInv
<1>16. ForkInv'
  <2>1. ForkInv /\ state[p] # "USED"
    BY <1>1 DEF IInv
  <2>2. ASSUME NEW e \in Cpu, cproc'[e] # Null, pc'[cproc'[e]] \in ForkLabels
        PROVE  /\ cproc'[e] = cproc[e] /\ cproc[e] # Null
               /\ pc'[cproc[e]] = pc[cproc[e]] /\ pc[cproc[e]] \in ForkLabels
    BY <1>9, <1>10, <2>2
  <2> SUFFICES ASSUME NEW e \in Cpu, cproc'[e] # Null, pc'[cproc'[e]] \in ForkLabels
               PROVE  /\ np[cproc[e]] \in Slots
                      /\ state[np[cproc[e]]] = "USED"
                      /\ pc'[cproc[e]] # "fork_copy" => pc'[np[cproc[e]]] = "forkret"
                      /\ parent[np[cproc[e]]] =
                           IF pc'[cproc[e]] = "fork_run" THEN cproc[e] ELSE Null
                      /\ \A d \in Cpu :
                           /\ cproc'[d] # Null /\ pc'[cproc'[d]] \in ForkLabels
                           /\ np[cproc'[d]] = np[cproc[e]]
                           => d = e
    BY SMTT(300), <1>3, <2>2 DEF ForkInv
  <2>3. /\ cproc[e] # Null /\ pc'[cproc[e]] = pc[cproc[e]]
        /\ pc[cproc[e]] \in ForkLabels
    BY <2>2
  <2>4. PICK q \in Slots : q = np[cproc[e]]
    BY <2>1, <2>3 DEF ForkInv
  <2>5. /\ state[q] = "USED"
        /\ pc[cproc[e]] # "fork_copy" => pc[q] = "forkret"
        /\ parent[q] = IF pc[cproc[e]] = "fork_run" THEN cproc[e] ELSE Null
    BY <2>1, <2>3, <2>4 DEF ForkInv
  <2>6. pc'[q] = pc[q]
    BY <1>5, <2>1, <2>5
  <2>7. ASSUME NEW d \in Cpu, cproc'[d] # Null, pc'[cproc'[d]] \in ForkLabels,
               np[cproc'[d]] = np[cproc[e]]
        PROVE  d = e
    <3>1. cproc[d] # Null /\ pc[cproc[d]] \in ForkLabels /\ np[cproc[d]] = np[cproc[e]]
      BY <2>2, <2>7
    <3> QED
      BY <2>1, <2>3, <3>1 DEF ForkInv
  <2> QED
    BY <2>3, <2>4, <2>5, <2>6, <2>7
<1>17. FamilyInv'
  BY SMTT(300), <1>3, <1>9, <1>10 DEF IInv, FamilyInv
<1>18. InitInv'
  <2>1. r \notin ExitLabels
    BY DEF ExitLabels
  <2> QED
    BY <1>3, <1>4, <1>5, <2>1 DEF IInv, InitInv
<1>19. \A q \in Slots : Bedding(q)' => Bedding(q)
  BY <1>3, <1>5 DEF Bedding
<1>20. WakeupInv'
  <2>1. ASSUME NEW d \in Cpu, cproc[d] # Null, pc[cproc[d]] = "wakeup_init"
        PROVE  cproc'[d] = cproc[d] /\ pc'[cproc'[d]] = "wakeup_init"
    <3>1. d # c
      BY <1>2, <2>1
    <3> QED
      BY <1>7, <1>10, <2>1, <3>1
  <2>2. ASSUME NEW q \in Slots, state[q] = "ZOMBIE", parent[q] # Null,
               Bedding(parent[q])'
        PROVE  /\ parent[q] = initproc
               /\ \E d \in Cpu : /\ cproc[d] # Null
                                 /\ pc[cproc[d]] = "wakeup_init"
                                 /\ idx[cproc[d]] = 1
    <3>1. PICK x \in Slots : x = parent[q] /\ x = parent'[q]
      BY <1>3, <1>4, <2>2, SlotFacts DEF TypeOK
    <3>2. Bedding(x)
      BY <1>19, <2>2, <3>1
    <3> QED
      BY <2>2, <3>1, <3>2 DEF IInv, WakeupInv
  <2> QED
    BY <1>3, <2>1, <2>2 DEF WakeupInv
<1>21. PassedInv'
  <2> SUFFICES ASSUME NEW d \in Cpu, cproc'[d] # Null,
                      pc'[cproc'[d]] \in {"wakeup_parent", "zombie"}
               PROVE  \/ /\ pc'[cproc'[d]] # "zombie"
                         /\ idx[cproc'[d]] <= parent[cproc'[d]]
                      \/ ~Bedding(parent[cproc[d]])'
    BY <1>3 DEF PassedInv
  <2>1. /\ cproc'[d] = cproc[d] /\ pc'[cproc'[d]] = pc[cproc[d]]
        /\ cproc[d] # Null /\ pc[cproc[d]] \in {"wakeup_parent", "zombie"}
    BY <1>9, <1>10
  <2>2. PICK x \in Slots : x = parent[cproc[d]] /\ x = parent'[cproc'[d]]
    BY <1>3, <2>1, HasParent
  <2>3. Bedding(parent[cproc[d]])' => Bedding(x)
    BY <1>19, <2>2
  <2> QED
    BY <2>1, <2>2, <2>3 DEF IInv, PassedInv
<1>22. ScanInv'
  BY <1>3, <1>9, <1>10 DEF IInv, ScanInv
<1>23. NoPanic'
  BY <1>5 DEF IInv, NoPanic
<1> QED
  BY <1>11, <1>12, <1>13, <1>14, <1>15, <1>16, <1>17, <1>18, <1>20, <1>21,
     <1>22,
     <1>23 DEF IInv

\* yield() taking p->lock and becoming runnable preserves IInv.
LEMMA YieldInv ==
  ASSUME IInv, TypeOK', NEW c \in Cpu, NEW p \in Slots, Yield(c, p)
  PROVE  IInv'
<1>1. /\ TypeOK /\ cproc[c] = p /\ pc[p] = "yield"
      /\ pc' = [pc EXCEPT ![p] = "sched_yield"] /\ plock[p] = NoCpu
      /\ plock' = [plock EXCEPT ![p] = c]
      /\ state' = [state EXCEPT ![p] = "RUNNABLE"]
      /\ UNCHANGED <<pid, parent, chan, killed, wait_lock, cproc, idx, np, kpid>>
  BY DEF IInv, Yield, At, Goto, Free, cpus, locals
<1>2. Moves(c, p, "yield", "sched_yield")
  BY <1>1, MovesFact
<1>3. state'[p] = "RUNNABLE" /\ \A q \in Slots : q # p => state'[q] = state[q]
  BY <1>1 DEF TypeOK
<1>4. OnlyAt(idx, p) /\ OnlyAt(np, p) /\ initproc \in Slots
  BY <1>1, SlotFacts DEF OnlyAt
<1>5. /\ "yield" \notin ForkLabels /\ "sched_yield" \notin ForkLabels
      /\ "sched_yield" \in HoldsP /\ "sched_yield" \notin ExitLabels
      /\ "yield" \notin HoldsWait /\ "sched_yield" \notin HoldsWait
  BY DEF ForkLabels, HoldsP, HoldsWait, ExitLabels
<1>6. state[p] = "RUNNING" /\ StateAt("sched_yield") = "RUNNABLE"
  BY <1>1, StateOfPlace DEF StateAt
<1>7. "RUNNING" \notin NoProcess /\ "RUNNABLE" \notin NoProcess
  BY DEF NoProcess
<1>8. \A d \in Cpu : d # c /\ cproc[d] # Null => cproc[d] \in Slots /\ cproc[d] # p
  BY <1>1, OneCpu
<1>9. CpuInv' /\ NoPanic'
  BY <1>2, CpuFrame, PanicFrame
<1>10. PLockInv'
  BY <1>1, <1>2, <1>4, <1>5, PLockTake
<1>11. WaitLockInv'
  BY <1>1, <1>2, <1>5, WaitFrame
<1>12. RunInv'
  BY <1>2, <1>3, <1>6, <1>8, RunFrame
<1>13. RestInv'
  BY <1>2, <1>3, RestFrame
<1>14. ForkInv'
  BY <1>1, <1>2, <1>3, <1>4, <1>5, <1>6, ForkFrame
<1>15. FamilyInv'
  BY <1>1, <1>2, <1>3, <1>6, <1>7, FamilyFrame
<1>16. InitInv'
  BY <1>1, <1>2, <1>3, <1>4, <1>5, <1>7, InitFrame
<1>17. WakeupInv' /\ PassedInv' /\ ScanInv'
  BY <1>1, <1>2, <1>3, <1>4, BedFrame
<1> QED
  BY <1>9, <1>10, <1>11, <1>12, <1>13, <1>14, <1>15, <1>16, <1>17 DEF IInv

\* forkret() and yield() coming back from swtch() preserve IInv; nobody comes back
\* from kexit().
LEMMA ResumeInv ==
  ASSUME IInv, TypeOK', NEW c \in Cpu, NEW p \in Slots, Resume(c, p)
  PROVE  IInv'
<1>1. TypeOK /\ p # Null /\ cproc[c] = p /\ pc[p] \in {"forkret", "yielded", "dead"}
  BY SlotFacts DEF IInv, Resume
<1>2. pc[p] # "dead"
  BY <1>1 DEF IInv, RunInv
<1>3. pc' = [pc EXCEPT ![p] = "user"] /\ plock' = [plock EXCEPT ![p] = NoCpu]
  BY <1>2 DEF Resume, Goto
<1>4. UNCHANGED <<state, pid, parent, chan, killed, wait_lock, cproc, idx, np, kpid>>
  BY DEF Resume, table, cpus, locals
<1>5. PICK a \in {"forkret", "yielded"} : a = pc[p]
  BY <1>1, <1>2
<1>6. Moves(c, p, a, "user")
  BY <1>1, <1>3, <1>4, <1>5, MovesFact
<1>7. OnlyAt(idx, p) /\ OnlyAt(np, p)
  BY <1>4 DEF OnlyAt
<1>8. /\ a \notin ForkLabels /\ "user" \notin ForkLabels
      /\ a \in HoldsP /\ "user" \notin HoldsP /\ "user" \notin ExitLabels
      /\ a \notin HoldsWait /\ "user" \notin HoldsWait
      /\ a # "wakeup_init" /\ a # "fork_copy"
  BY DEF ForkLabels, HoldsP, HoldsWait, ExitLabels
<1>9. StateAt(a) = "RUNNING" /\ StateAt("user") = "RUNNING"
  BY DEF StateAt
<1>10. CpuInv' /\ RunInv' /\ RestInv' /\ ForkInv' /\ NoPanic'
  BY <1>4, <1>6, <1>7, <1>8, <1>9, PlainFrame
<1>11. PLockInv'
  BY <1>3, <1>6, <1>7, <1>8, PLockDrop
<1>12. WaitLockInv'
  BY <1>4, <1>6, <1>8, WaitFrame
<1>13. FamilyInv'
  BY <1>4, <1>6, FamilyFrame
<1>14. InitInv'
  BY <1>4, <1>6, <1>7, <1>8, InitFrame
<1>15. WakeupInv' /\ PassedInv' /\ ScanInv'
  BY <1>4, <1>6, <1>7, <1>8, BedFrame
<1> QED
  BY <1>10, <1>11, <1>12, <1>13, <1>14, <1>15 DEF IInv

-----------------------------------------------------------------------------
(* kfork()                                                                 *)

\* No CPU runs the thread of a slot that is unused or under preparation.
LEMMA NotYetOnCpu ==
  ASSUME IInv, NEW q \in Slots, state[q] \in {"UNUSED", "USED"}
  PROVE  \A d \in Cpu : cproc[d] # q
<1> SUFFICES ASSUME NEW d \in Cpu, cproc[d] = q PROVE FALSE
  OBVIOUS
<1>1. state[q] = StateAt(pc[q])
  BY StateOfPlace
<1> QED
  BY <1>1 DEF StateAt

\* allocproc() taking an unused slot preserves IInv.
LEMMA AllocFoundInv ==
  ASSUME IInv, TypeOK', NEW c \in Cpu, NEW p \in Slots, AllocProc(c, p),
      state[idx[p]] = "UNUSED"
  PROVE  IInv'
<1>1. PICK q \in Slots : q = idx[p]
  BY DEF IInv, TypeOK
<1>2. /\ TypeOK /\ cproc[c] = p /\ pc[p] = "fork" /\ plock[q] = NoCpu
      /\ state[q] = "UNUSED" /\ plock' = [plock EXCEPT ![q] = c]
      /\ pid' = [pid EXCEPT ![q] = nextpid] /\ state' = [state EXCEPT ![q] = "USED"]
      /\ np' = [np EXCEPT ![p] = q] /\ pc' = [pc EXCEPT ![p] = "fork_copy"]
  BY <1>1 DEF IInv, AllocProc, At, Goto, Free
<1>3. UNCHANGED <<parent, chan, killed, wait_lock, cproc, idx, kpid>>
  BY <1>1 DEF AllocProc, cpus
<1>4. Moves(c, p, "fork", "fork_copy")
  BY <1>2, <1>3, MovesFact
<1>5. state'[q] = "USED" /\ \A x \in Slots : x # q => state'[x] = state[x]
  BY <1>2 DEF TypeOK
<1>6. plock'[q] = c /\ \A x \in Slots : x # q => plock'[x] = plock[x]
  BY <1>2 DEF TypeOK
<1>7. np'[p] = q /\ \A x \in Slots : x # p => np'[x] = np[x]
  BY <1>2 DEF TypeOK
<1>8. \A x \in Slots : x # q => pid'[x] = pid[x]
  BY <1>2 DEF TypeOK
<1>9. /\ p # Null /\ \A d \in Cpu : cproc[d] # Null => cproc[d] \in Slots
      /\ \A d \in Cpu : d # c => cproc[d] # p
  BY <1>2, OneCpu
<1>10. \A d \in Cpu : cproc[d] # q
  BY <1>2, NotYetOnCpu
<1>11. q # p /\ q # initproc /\ initproc \in Slots /\ parent[q] = Null
  BY <1>2, <1>10, SlotFacts DEF IInv, InitInv, FamilyInv
<1>12. /\ "fork" \notin HoldsWait /\ "fork_copy" \notin HoldsWait
       /\ "fork_copy" \notin HoldsP /\ "fork_copy" \notin ExitLabels
       /\ "fork" \notin HoldsP /\ "fork" \notin ForkLabels /\ "fork_copy" \in ForkLabels
  BY DEF HoldsWait, HoldsP, ExitLabels, ForkLabels
<1>13. pc[p] = "fork" /\ pc'[p] = "fork_copy" /\ \A x \in Slots : x # p => pc'[x] = pc[x]
  BY <1>4 DEF Moves
<1>14. state[p] = "RUNNING" /\ StateAt("fork_copy") = "RUNNING"
  BY <1>2, StateOfPlace DEF StateAt
\* The conjuncts of IInv.
<1>15. CpuInv' /\ NoPanic'
  BY <1>4, CpuFrame, PanicFrame
<1>16. PLockInv'
  <2>1. PLockInv
    BY DEF IInv
  <2>2. \A d \in Cpu : d # c /\ cproc[d] # Null
          => /\ pc'[cproc[d]] = pc[cproc[d]] /\ np'[cproc[d]] = np[cproc[d]]
    BY <1>7, <1>9, <1>13
  <2>3. \A d \in Cpu : plock[q] # d
    BY <1>2, ProcAssumption
  <2>4. \A d \in Cpu : cproc[d] # Null /\ pc[cproc[d]] = "fork_copy" => q # np[cproc[d]]
    BY <2>1, <2>3 DEF PLockInv
  <2>5. ASSUME NEW d \in Cpu
        PROVE  plock'[q] = d <=>
                 /\ cproc[d] # Null
                 /\ \/ q = cproc[d] /\ pc'[q] \in HoldsP
                    \/ q = np'[cproc[d]] /\ pc'[cproc[d]] = "fork_copy"
    <3>1. CASE d = c
      BY <1>2, <1>6, <1>7, <1>9, <1>13, <3>1
    <3>2. CASE d # c
      BY <1>6, <1>10, <2>2, <2>4, <3>2
    <3> QED
      BY <3>1, <3>2
  <2>6. ASSUME NEW x \in Slots, NEW d \in Cpu, x # q
        PROVE  plock'[x] = d <=>
                 /\ cproc[d] # Null
                 /\ \/ x = cproc[d] /\ pc'[x] \in HoldsP
                    \/ x = np'[cproc[d]] /\ pc'[cproc[d]] = "fork_copy"
    <3>1. CASE d = c
      <4>1. plock[x] # c
        BY SMTT(300), <1>2, <1>9, <1>12, <2>1 DEF PLockInv
      <4> QED
        BY <1>2, <1>6, <1>7, <1>12, <1>13, <2>6, <3>1, <4>1
    <3>2. CASE d # c
      <4>1. plock[x] = d <=>
              /\ cproc[d] # Null
              /\ \/ x = cproc[d] /\ pc[x] \in HoldsP
                 \/ x = np[cproc[d]] /\ pc[cproc[d]] = "fork_copy"
        BY <2>1 DEF PLockInv
      <4> QED
        BY <1>6, <2>2, <2>6, <3>2, <4>1
    <3> QED
      BY <3>1, <3>2
  <2> QED
    BY SMTT(300), <1>3, <2>5, <2>6 DEF PLockInv
<1>17. WaitLockInv'
  BY <1>3, <1>4, <1>12, WaitFrame
<1>18. RunInv'
  BY <1>4, <1>5, <1>9, <1>10, <1>11, <1>14, RunFrame
<1>19. RestInv'
  <2>1. "USED" \in NoProcess
    BY DEF NoProcess
  <2> QED
    BY <1>4, <1>5, <2>1, RestFrame
<1>20. ForkInv'
  <2>1. ForkInv
    BY DEF IInv
  <2>2. ASSUME NEW e \in Cpu, e # c, cproc[e] # Null, pc'[cproc[e]] \in ForkLabels
        PROVE  /\ pc'[cproc[e]] = pc[cproc[e]] /\ np'[cproc[e]] = np[cproc[e]]
               /\ np[cproc[e]] \in Slots /\ state[np[cproc[e]]] = "USED"
               /\ np[cproc[e]] # q /\ np[cproc[e]] # p
    <3>1. pc'[cproc[e]] = pc[cproc[e]] /\ np'[cproc[e]] = np[cproc[e]]
      BY <1>7, <1>9, <1>13, <2>2
    <3>2. np[cproc[e]] \in Slots /\ state[np[cproc[e]]] = "USED"
      BY <2>1, <2>2, <3>1 DEF ForkInv
    <3> QED
      BY <1>2, <1>14, <3>1, <3>2
  <2>3. ASSUME NEW e \in Cpu, e # c, cproc[e] # Null, pc'[cproc[e]] \in ForkLabels
        PROVE  /\ np'[cproc[e]] \in Slots
               /\ state'[np'[cproc[e]]] = "USED"
               /\ pc'[cproc[e]] # "fork_copy" => pc'[np'[cproc[e]]] = "forkret"
               /\ parent[np'[cproc[e]]] =
                    IF pc'[cproc[e]] = "fork_run" THEN cproc[e] ELSE Null
    <3>1. /\ pc[cproc[e]] # "fork_copy" => pc[np[cproc[e]]] = "forkret"
          /\ parent[np[cproc[e]]] =
               IF pc[cproc[e]] = "fork_run" THEN cproc[e] ELSE Null
      BY <2>1, <2>2, <2>3 DEF ForkInv
    <3>2. /\ pc'[cproc[e]] = pc[cproc[e]] /\ np'[cproc[e]] = np[cproc[e]]
          /\ np[cproc[e]] \in Slots /\ state[np[cproc[e]]] = "USED"
          /\ np[cproc[e]] # q /\ np[cproc[e]] # p
      BY <2>2, <2>3
    <3>3. state'[np[cproc[e]]] = "USED" /\ pc'[np[cproc[e]]] = pc[np[cproc[e]]]
      BY <1>5, <1>13, <3>2
    <3> QED
      BY <3>1, <3>2, <3>3
  <2>4. ASSUME NEW e \in Cpu, NEW d \in Cpu, cproc[e] # Null, cproc[d] # Null,
               pc'[cproc[e]] \in ForkLabels, pc'[cproc[d]] \in ForkLabels,
               np'[cproc[d]] = np'[cproc[e]]
        PROVE  d = e
    <3>1. CASE d = c
      BY SMTT(300), <1>2, <1>7, <2>2, <2>4, <3>1
    <3>2. CASE e = c
      BY SMTT(300), <1>2, <1>7, <2>2, <2>4, <3>2
    <3>3. CASE d # c /\ e # c
      BY SMTT(300), <2>1, <2>2, <2>4, <3>3 DEF ForkInv
    <3> QED
      BY <3>1, <3>2, <3>3
  <2>5. /\ np'[p] \in Slots /\ state'[np'[p]] = "USED" /\ pc'[p] = "fork_copy"
        /\ parent[np'[p]] = IF pc'[p] = "fork_run" THEN p ELSE Null
    BY <1>5, <1>7, <1>11, <1>13
  <2> QED
    BY SMTT(300), <1>2, <1>3, <2>3, <2>4, <2>5 DEF ForkInv
<1>21. FamilyInv'
  <2>1. FamilyInv /\ cproc' = cproc
    BY <1>3 DEF IInv
  <2>2. \A x \in Slots : parent[x] # Null => parent[x] \in Slots
    BY <1>2, SlotFacts DEF TypeOK
  <2>3. \A x \in Slots : parent[x] # Null =>
          /\ parent[x] # x
          /\ state'[parent[x]] \notin {"UNUSED", "USED", "ZOMBIE"}
    BY <1>2, <1>5, <2>1, <2>2 DEF FamilyInv
  <2>4. \A x \in Slots :
          /\ state'[x] = "UNUSED" => parent[x] = Null
          /\ x # initproc /\ state'[x] \notin {"UNUSED", "USED"} => parent[x] # Null
    BY <1>5, <1>11, <2>1 DEF FamilyInv
  <2>5. \A d \in Cpu : cproc[d] # Null /\ pc'[cproc[d]] \in {"wakeup_parent", "zombie"}
          => \A x \in Slots : parent[x] # cproc[d]
    <3>1. \A x \in Slots : pc'[x] \in {"wakeup_parent", "zombie"} => pc'[x] = pc[x]
      BY <1>13
    <3> QED
      BY <1>9, <2>1, <3>1 DEF FamilyInv
  <2> QED
    BY <1>3, <2>1, <2>3, <2>4, <2>5 DEF FamilyInv
<1>22. InitInv'
  BY <1>3, <1>4, <1>5, <1>8, <1>11, <1>12, InitFrame
<1>23. WakeupInv' /\ PassedInv' /\ ScanInv'
  <2>1. OnlyAt(idx, p)
    BY <1>3 DEF OnlyAt
  <2>2. \A x \in Slots : /\ state'[x] = "ZOMBIE" => state[x] = "ZOMBIE"
                         /\ state'[x] = "SLEEPING" => state[x] = "SLEEPING"
    BY <1>5
  <2> QED
    BY <1>3, <1>4, <2>1, <2>2, BedFrame
<1> QED
  BY <1>15, <1>16, <1>17, <1>18, <1>19, <1>20, <1>21, <1>22, <1>23 DEF IInv

\* The slot that kfork() prepares is its own.
LEMMA ForkOwn ==
  ASSUME IInv, NEW c \in Cpu, NEW p \in Slots, cproc[c] = p, pc[p] \in ForkLabels
  PROVE  /\ np[p] \in Slots /\ np[p] # p /\ np[p] # initproc
         /\ state[p] = "RUNNING" /\ state[np[p]] = "USED"
         /\ pc[p] # "fork_copy" => pc[np[p]] = "forkret"
         /\ parent[np[p]] = IF pc[p] = "fork_run" THEN p ELSE Null
         /\ \A d \in Cpu : cproc[d] # np[p]
<1>1. ForkInv /\ InitInv /\ p # Null
  BY SlotFacts DEF IInv
<1>2. /\ np[p] \in Slots /\ state[np[p]] = "USED"
      /\ pc[p] # "fork_copy" => pc[np[p]] = "forkret"
      /\ parent[np[p]] = IF pc[p] = "fork_run" THEN p ELSE Null
  BY <1>1 DEF ForkInv
<1>3. state[p] = "RUNNING"
  BY StateOfPlace DEF StateAt, ForkLabels
<1>4. np[p] # p /\ np[p] # initproc
  BY <1>1, <1>2, <1>3 DEF InitInv
<1>5. \A d \in Cpu : cproc[d] # np[p]
  BY <1>2, NotYetOnCpu
<1> QED
  BY <1>2, <1>3, <1>4, <1>5

\* What ForkInv says about CPU e, for the state after the step.
ForkAfter(e) ==
  /\ np'[cproc[e]] \in Slots
  /\ state'[np'[cproc[e]]] = "USED"
  /\ pc'[cproc[e]] # "fork_copy" => pc'[np'[cproc[e]]] = "forkret"
  /\ parent'[np'[cproc[e]]] = IF pc'[cproc[e]] = "fork_run" THEN cproc[e] ELSE Null

\* A step of kfork() that touches only its own slots leaves the other calls of
\* kfork() alone.
LEMMA ForkOthers ==
  ASSUME IInv, NEW c \in Cpu, NEW p \in Slots, cproc[c] = p, pc[p] \in ForkLabels,
         cproc' = cproc, OnlyAt(np, p),
         \A x \in Slots : x # p /\ x # np[p] => pc'[x] = pc[x],
         \A x \in Slots : x # np[p] => state'[x] = state[x] /\ parent'[x] = parent[x],
         pc'[p] \in ForkLabels => np'[p] = np[p] /\ ForkAfter(c)
  PROVE  ForkInv'
<1>1. ForkInv
  BY DEF IInv
<1>2. /\ np[p] \in Slots /\ np[p] # p /\ state[p] = "RUNNING"
      /\ \A d \in Cpu : cproc[d] # np[p]
  BY ForkOwn
<1>3. /\ p # Null /\ \A d \in Cpu : cproc[d] # Null => cproc[d] \in Slots
      /\ \A d \in Cpu : d # c => cproc[d] # p
  BY OneCpu
<1>4. \A d \in Cpu : d # c /\ cproc[d] # Null
        => pc'[cproc[d]] = pc[cproc[d]] /\ np'[cproc[d]] = np[cproc[d]]
  BY <1>2, <1>3 DEF OnlyAt
<1>5. ASSUME NEW e \in Cpu, e # c, cproc[e] # Null, pc'[cproc[e]] \in ForkLabels
      PROVE  ForkAfter(e) /\ np'[cproc[e]] # np[p]
  <2>1. pc'[cproc[e]] = pc[cproc[e]] /\ np'[cproc[e]] = np[cproc[e]]
    BY <1>4, <1>5
  <2>2. PICK q \in Slots : q = np[cproc[e]]
    BY <1>1, <1>5, <2>1 DEF ForkInv
  <2>3. /\ state[q] = "USED"
        /\ pc[cproc[e]] # "fork_copy" => pc[q] = "forkret"
        /\ parent[q] = IF pc[cproc[e]] = "fork_run" THEN cproc[e] ELSE Null
    BY <1>1, <1>5, <2>1, <2>2 DEF ForkInv
  <2>4. q # np[p] /\ q # p
    BY <1>1, <1>2, <1>3, <1>5, <2>1, <2>2, <2>3 DEF ForkInv
  <2>5. state'[q] = "USED" /\ parent'[q] = parent[q] /\ pc'[q] = pc[q]
    BY <2>3, <2>4
  <2> QED
    BY <2>1, <2>2, <2>3, <2>4, <2>5 DEF ForkAfter
<1>6. ASSUME NEW e \in Cpu, NEW d \in Cpu, cproc[e] # Null, cproc[d] # Null,
             pc'[cproc[e]] \in ForkLabels, pc'[cproc[d]] \in ForkLabels,
             np'[cproc[d]] = np'[cproc[e]]
      PROVE  d = e
  <2>1. CASE d = c
    BY <1>5, <1>6, <2>1
  <2>2. CASE e = c
    BY <1>5, <1>6, <2>2
  <2>3. CASE d # c /\ e # c
    BY SMTT(300), <1>1, <1>4, <1>6, <2>3 DEF ForkInv
  <2> QED
    BY <2>1, <2>2, <2>3
<1>7. ASSUME NEW e \in Cpu, cproc[e] # Null, pc'[cproc[e]] \in ForkLabels
      PROVE  ForkAfter(e)
  BY <1>5, <1>7
<1> QED
  BY <1>6, <1>7 DEF ForkInv, ForkAfter

\* kfork() giving the slot back preserves IInv.
LEMMA ForkFailInv ==
  ASSUME IInv, TypeOK', NEW c \in Cpu, NEW p \in Slots, ForkFail(c, p)
  PROVE  IInv'
<1>1. TypeOK /\ cproc[c] = p /\ pc[p] = "fork_copy" /\ initproc \in Slots
  BY SlotFacts DEF IInv, ForkFail, At
<1>2. "fork_copy" \in ForkLabels
  BY DEF ForkLabels
<1>3. PICK n \in Slots : n = np[p]
  BY <1>1, <1>2, ForkOwn
<1>4. /\ n # p /\ n # initproc /\ state[p] = "RUNNING" /\ state[n] = "USED"
      /\ \A d \in Cpu : cproc[d] # n
  BY SMTT(300), <1>1, <1>2, <1>3, ForkOwn
<1>5. /\ state' = [state EXCEPT ![n] = "UNUSED"] /\ pid' = [pid EXCEPT ![n] = 0]
      /\ parent' = [parent EXCEPT ![n] = Null] /\ chan' = [chan EXCEPT ![n] = Null]
      /\ killed' = [killed EXCEPT ![n] = 0] /\ plock' = [plock EXCEPT ![n] = NoCpu]
      /\ np' = [np EXCEPT ![p] = Null] /\ pc' = [pc EXCEPT ![p] = "ret"]
      /\ idx' = [idx EXCEPT ![p] = 1]
  BY <1>3 DEF ForkFail, freeproc, Loop, Goto
<1>6. UNCHANGED <<wait_lock, cproc, kpid>>
  BY DEF ForkFail, cpus
<1>7. Moves(c, p, "fork_copy", "ret")
  BY <1>1, <1>5, <1>6, MovesFact
<1>8. /\ state'[n] = "UNUSED" /\ parent'[n] = Null
      /\ \A x \in Slots : x # n => /\ state'[x] = state[x] /\ parent'[x] = parent[x]
  BY SMTT(300), <1>1, <1>5 DEF TypeOK
<1>9. \A x \in Slots : x # n => /\ pid'[x] = pid[x] /\ chan'[x] = chan[x]
                                /\ killed'[x] = killed[x]
  BY SMTT(300), <1>1, <1>5 DEF TypeOK
<1>10. plock'[n] = NoCpu /\ \A x \in Slots : x # n => plock'[x] = plock[x]
  BY <1>1, <1>5 DEF TypeOK
<1>11. OnlyAt(np, p) /\ OnlyAt(idx, p)
  BY SMTT(300), <1>1, <1>5 DEF OnlyAt, TypeOK
<1>12. pc'[p] = "ret" /\ \A x \in Slots : x # p => pc'[x] = pc[x]
  BY <1>7 DEF Moves
<1>13. /\ "fork_copy" \notin HoldsWait /\ "ret" \notin HoldsWait
       /\ "fork_copy" \notin HoldsP /\ "ret" \notin HoldsP
       /\ "ret" \notin ExitLabels /\ "ret" \notin ForkLabels
  BY DEF HoldsWait, HoldsP, ExitLabels, ForkLabels
<1>14. StateAt("ret") = "RUNNING"
  BY DEF StateAt
<1>15. /\ p # Null /\ \A d \in Cpu : cproc[d] # Null => cproc[d] \in Slots
       /\ \A d \in Cpu : d # c => cproc[d] # p
  BY <1>1, OneCpu
\* The conjuncts of IInv.
<1>16. CpuInv' /\ NoPanic'
  BY <1>7, CpuFrame, PanicFrame
<1>17. PLockInv'
  <2>1. PLockInv
    BY DEF IInv
  <2>2. plock[n] = c
    BY <1>1, <1>3, <1>15, <2>1 DEF PLockInv
  <2>3. \A d \in Cpu : d # c /\ cproc[d] # Null
          => pc'[cproc[d]] = pc[cproc[d]] /\ np'[cproc[d]] = np[cproc[d]]
    BY <1>11, <1>12, <1>15 DEF OnlyAt
  <2>4. ASSUME NEW d \in Cpu
        PROVE  /\ plock'[n] # d /\ cproc[d] # n
               /\ ~(cproc[d] # Null /\ n = np'[cproc[d]] /\ pc'[cproc[d]] = "fork_copy")
    <3>1. plock'[n] # d
      BY <1>10, ProcAssumption
    <3>2. ASSUME cproc[d] # Null, n = np'[cproc[d]], pc'[cproc[d]] = "fork_copy"
          PROVE  FALSE
      <4>1. d # c
        BY <1>1, <1>12, <3>2
      <4>2. plock[n] = d
        BY <2>1, <2>3, <3>2, <4>1 DEF PLockInv
      <4> QED
        BY <2>2, <4>1, <4>2
    <3> QED
      BY <1>4, <3>1, <3>2
  <2>5. ASSUME NEW x \in Slots, NEW d \in Cpu, x # n
        PROVE  plock'[x] = d <=>
                 /\ cproc[d] # Null
                 /\ \/ x = cproc[d] /\ pc'[x] \in HoldsP
                    \/ x = np'[cproc[d]] /\ pc'[cproc[d]] = "fork_copy"
    <3>0. plock[x] = d <=>
            /\ cproc[d] # Null
            /\ \/ x = cproc[d] /\ pc[x] \in HoldsP
               \/ x = np[cproc[d]] /\ pc[cproc[d]] = "fork_copy"
      BY <2>1 DEF PLockInv
    <3>1. CASE d = c
      BY <1>1, <1>3, <1>10, <1>12, <1>13, <2>5, <3>0, <3>1
    <3>2. CASE d # c
      BY <1>10, <2>3, <2>5, <3>0, <3>2
    <3> QED
      BY <3>1, <3>2
  <2> QED
    BY <1>6, <2>4, <2>5 DEF PLockInv
<1>18. WaitLockInv'
  BY <1>6, <1>7, <1>13, WaitFrame
<1>19. RunInv'
  BY <1>4, <1>7, <1>8, <1>14, <1>15, RunFrame
<1>20. RestInv'
  <2>1. "UNUSED" \in NoProcess
    BY DEF NoProcess
  <2> QED
    BY <1>7, <1>8, <2>1, RestFrame
<1>21. ForkInv'
  BY <1>1, <1>2, <1>3, <1>6, <1>8, <1>11, <1>12, <1>13, ForkOthers
<1>22. FamilyInv'
  <2>1. FamilyInv
    BY DEF IInv
  <2>2. \A x \in Slots : parent[x] # Null => parent[x] \in Slots
    BY <1>1, SlotFacts DEF TypeOK
  <2>3. \A x \in Slots : parent'[x] # Null =>
          /\ parent'[x] # x
          /\ state'[parent'[x]] \notin {"UNUSED", "USED", "ZOMBIE"}
    <3>1. ASSUME NEW x \in Slots, parent'[x] # Null
          PROVE  /\ parent'[x] = parent[x] /\ parent[x] \in Slots /\ parent[x] # x
                 /\ state[parent[x]] \notin {"UNUSED", "USED", "ZOMBIE"}
      BY <1>8, <2>1, <2>2, <3>1 DEF FamilyInv
    <3>2. ASSUME NEW x \in Slots, parent'[x] # Null
          PROVE  state'[parent[x]] = state[parent[x]]
      BY <1>4, <1>8, <3>1, <3>2
    <3> QED
      BY SMTT(300), <3>1, <3>2
  <2>4. \A x \in Slots :
          /\ state'[x] = "UNUSED" => parent'[x] = Null
          /\ x # initproc /\ state'[x] \notin {"UNUSED", "USED"} => parent'[x] # Null
    BY <1>8, <2>1 DEF FamilyInv
  <2>5. ASSUME NEW d \in Cpu, cproc[d] # Null,
               pc'[cproc[d]] \in {"wakeup_parent", "zombie"}, NEW x \in Slots
        PROVE  parent'[x] # cproc[d]
    <3>1. pc[cproc[d]] \in {"wakeup_parent", "zombie"}
      BY <1>1, <1>12, <1>15, <2>5
    <3>2. parent[x] # cproc[d]
      BY <2>1, <2>5, <3>1 DEF FamilyInv
    <3> QED
      BY <1>8, <2>5, <3>2
  <2>6. parent'[initproc] = Null
    BY <1>1, <1>4, <1>8, <2>1 DEF FamilyInv
  <2> QED
    BY <1>6, <2>3, <2>4, <2>5, <2>6 DEF FamilyInv
<1>23. InitInv'
  BY <1>1, <1>4, <1>7, <1>8, <1>9, <1>13, InitFrame
<1>24. WakeupInv' /\ PassedInv' /\ ScanInv'
  <2>1. \A x \in Slots : /\ state'[x] = "ZOMBIE" => state[x] = "ZOMBIE" /\ x # n
                         /\ state'[x] = "SLEEPING" => state[x] = "SLEEPING" /\ x # n
                         /\ state[x] = "RUNNING" => x # n
    BY <1>4, <1>8
  <2> QED
    BY <1>7, <1>8, <1>9, <1>11, <2>1, BedFrame
<1> QED
  BY <1>16, <1>17, <1>18, <1>19, <1>20, <1>21, <1>22, <1>23, <1>24 DEF IInv

\* kfork() entering the child into the family preserves IInv.
LEMMA ForkParentInv ==
  ASSUME IInv, TypeOK', NEW c \in Cpu, NEW p \in Slots, ForkParent(c, p)
  PROVE  IInv'
<1>1. /\ TypeOK /\ cproc[c] = p /\ pc[p] = "fork_parent" /\ initproc \in Slots
      /\ pc' = [pc EXCEPT ![p] = "fork_run"] /\ wait_lock = NoCpu
      /\ parent' = [parent EXCEPT ![np[p]] = p]
      /\ UNCHANGED <<state, pid, chan, killed, plock, wait_lock, cproc, idx, np, kpid>>
  BY SlotFacts DEF IInv, ForkParent, At, Goto, locks, cpus, locals
<1>2. /\ "fork_parent" \in ForkLabels /\ "fork_run" \in ForkLabels
      /\ "fork_parent" \notin HoldsP /\ "fork_run" \notin HoldsP
      /\ "fork_parent" \notin HoldsWait /\ "fork_run" \notin HoldsWait
      /\ "fork_run" \notin ExitLabels
  BY DEF ForkLabels, HoldsP, HoldsWait, ExitLabels
<1>3. PICK n \in Slots : n = np[p]
  BY <1>1, <1>2, ForkOwn
<1>4. /\ n # p /\ n # initproc /\ state[p] = "RUNNING" /\ state[n] = "USED"
      /\ pc[n] = "forkret" /\ \A d \in Cpu : cproc[d] # n
  BY SMTT(300), <1>1, <1>2, <1>3, ForkOwn
<1>5. Moves(c, p, "fork_parent", "fork_run")
  BY <1>1, MovesFact
<1>6. parent'[n] = p /\ \A x \in Slots : x # n => parent'[x] = parent[x]
  BY <1>1, <1>3 DEF TypeOK
<1>7. OnlyAt(np, p) /\ OnlyAt(idx, p)
  BY <1>1 DEF OnlyAt
<1>8. pc'[p] = "fork_run" /\ \A x \in Slots : x # p => pc'[x] = pc[x]
  BY <1>5 DEF Moves
<1>9. StateAt("fork_run") = "RUNNING"
  BY DEF StateAt
<1>10. /\ p # Null /\ \A d \in Cpu : cproc[d] # Null => cproc[d] \in Slots
       /\ \A d \in Cpu : d # c => cproc[d] # p
  BY <1>1, OneCpu
<1>11. CpuInv' /\ NoPanic'
  BY <1>5, CpuFrame, PanicFrame
<1>12. PLockInv' /\ WaitLockInv'
  BY <1>1, <1>2, <1>5, <1>7, PLockFrame, WaitFrame
<1>13. RunInv'
  BY <1>1, <1>4, <1>5, <1>9, RunFrame
<1>14. RestInv'
  BY <1>1, <1>5, RestFrame
<1>15. ForkInv'
  <2>1. ForkAfter(c) /\ np'[p] = np[p]
    BY <1>1, <1>3, <1>4, <1>6, <1>8 DEF ForkAfter
  <2> QED
    BY <1>1, <1>2, <1>3, <1>6, <1>7, <1>8, <2>1, ForkOthers
<1>16. FamilyInv'
  <2>1. FamilyInv /\ \A d \in Cpu : cproc[d] # Null => pc[cproc[d]] \notin HoldsWait
    BY <1>1, ProcAssumption DEF IInv, WaitLockInv
  <2>2. \A x \in Slots : parent'[x] # Null =>
          /\ parent'[x] # x
          /\ state[parent'[x]] \notin {"UNUSED", "USED", "ZOMBIE"}
    BY <1>4, <1>6, <2>1 DEF FamilyInv
  <2>3. \A x \in Slots :
          /\ state[x] = "UNUSED" => parent'[x] = Null
          /\ x # initproc /\ state[x] \notin {"UNUSED", "USED"} => parent'[x] # Null
    BY <1>4, <1>6, <2>1 DEF FamilyInv
  <2>4. \A d \in Cpu : cproc[d] # Null => pc'[cproc[d]] \notin {"wakeup_parent", "zombie"}
    <3>1. \A x \in Slots : pc'[x] \in {"wakeup_parent", "zombie"} => pc[x] \in HoldsWait
      BY <1>8 DEF HoldsWait
    <3> QED
      BY <1>10, <2>1, <3>1
  <2>5. parent'[initproc] = Null
    BY <1>1, <1>4, <1>6, <2>1 DEF FamilyInv
  <2> QED
    BY <1>1, <2>2, <2>3, <2>4, <2>5 DEF FamilyInv
<1>17. InitInv'
  BY <1>1, <1>2, <1>5, <1>7, InitFrame
<1>18. WakeupInv' /\ PassedInv' /\ ScanInv'
  <2>1. \A x \in Slots : state[x] \in {"ZOMBIE", "RUNNING"} => parent'[x] = parent[x]
    BY <1>4, <1>6
  <2> QED
    BY <1>1, <1>5, <1>7, <2>1, BedFrame
<1> QED
  BY <1>11, <1>12, <1>13, <1>14, <1>15, <1>16, <1>17, <1>18 DEF IInv

\* kfork() making the child runnable preserves IInv.
LEMMA ForkRunInv ==
  ASSUME IInv, TypeOK', NEW c \in Cpu, NEW p \in Slots, ForkRun(c, p)
  PROVE  IInv'
<1>1. /\ TypeOK /\ cproc[c] = p /\ pc[p] = "fork_run" /\ initproc \in Slots
      /\ pc' = [pc EXCEPT ![p] = "ret"] /\ idx' = [idx EXCEPT ![p] = 1]
      /\ state' = [state EXCEPT ![np[p]] = "RUNNABLE"] /\ np' = [np EXCEPT ![p] = Null]
      /\ UNCHANGED <<pid, parent, chan, killed, plock, wait_lock, cproc, kpid>>
  BY SlotFacts DEF IInv, ForkRun, At, Loop, Goto, locks, cpus
<1>2. /\ "fork_run" \in ForkLabels /\ "ret" \notin ForkLabels
      /\ "fork_run" \notin HoldsP /\ "ret" \notin HoldsP
      /\ "fork_run" \notin HoldsWait /\ "ret" \notin HoldsWait
      /\ "ret" \notin ExitLabels
  BY DEF ForkLabels, HoldsP, HoldsWait, ExitLabels
<1>3. PICK n \in Slots : n = np[p]
  BY <1>1, <1>2, ForkOwn
<1>4. /\ n # p /\ n # initproc /\ state[p] = "RUNNING" /\ state[n] = "USED"
      /\ pc[n] = "forkret" /\ parent[n] = p /\ \A d \in Cpu : cproc[d] # n
  BY SMTT(300), <1>1, <1>2, <1>3, ForkOwn
<1>5. Moves(c, p, "fork_run", "ret")
  BY <1>1, MovesFact
<1>6. state'[n] = "RUNNABLE" /\ \A x \in Slots : x # n => state'[x] = state[x]
  BY SMTT(300), <1>1, <1>3 DEF TypeOK
<1>7. OnlyAt(np, p) /\ OnlyAt(idx, p)
  <2>2. np \in [Slots -> 0..NPROC] /\ idx \in [Slots -> Slots]
    BY <1>1 DEF TypeOK
  <2> QED
    BY <1>1, <2>2 DEF OnlyAt
<1>8. pc'[p] = "ret" /\ \A x \in Slots : x # p => pc'[x] = pc[x]
  BY <1>5 DEF Moves
<1>9. StateAt("ret") = "RUNNING"
  BY DEF StateAt
<1>10. /\ p # Null /\ \A d \in Cpu : cproc[d] # Null => cproc[d] \in Slots
       /\ \A d \in Cpu : d # c => cproc[d] # p
  BY <1>1, OneCpu
<1>11. CpuInv' /\ NoPanic'
  BY <1>5, CpuFrame, PanicFrame
<1>12. PLockInv' /\ WaitLockInv'
  BY <1>1, <1>2, <1>5, <1>7, PLockFrame, WaitFrame
<1>13. RunInv'
  BY <1>4, <1>5, <1>6, <1>9, <1>10, RunFrame
<1>14. RestInv'
  <2>1. RestInv
    BY DEF IInv
  <2>2. \A x \in Slots : OnCpu(x)' <=> OnCpu(x)
    BY <1>1 DEF OnCpu
  <2>3. \A x \in Slots : ~OnCpu(x) /\ x # n =>
          /\ state'[x] # "RUNNING"
          /\ state'[x] = "RUNNABLE" => pc'[x] \in {"forkret", "yielded", "slept"}
          /\ state'[x] = "SLEEPING" => pc'[x] = "slept"
    BY <1>1, <1>6, <1>8, <2>1 DEF RestInv, OnCpu
  <2>4. pc'[n] = "forkret"
    BY <1>4, <1>8
  <2> QED
    BY <1>6, <2>2, <2>3, <2>4 DEF RestInv
<1>15. ForkInv'
  BY <1>1, <1>2, <1>3, <1>6, <1>7, <1>8, ForkOthers
<1>16. FamilyInv'
  <2>1. FamilyInv
    BY DEF IInv
  <2>2. \A x \in Slots : parent[x] # Null => parent[x] \in Slots
    BY <1>1, SlotFacts DEF TypeOK
  <2>3. \A x \in Slots : parent[x] # Null =>
          /\ parent[x] # x
          /\ state'[parent[x]] \notin {"UNUSED", "USED", "ZOMBIE"}
    BY <1>6, <2>1, <2>2 DEF FamilyInv
  <2>4. \A x \in Slots :
          /\ state'[x] = "UNUSED" => parent[x] = Null
          /\ x # initproc /\ state'[x] \notin {"UNUSED", "USED"} => parent[x] # Null
    BY <1>4, <1>6, <1>10, <2>1 DEF FamilyInv
  <2>5. \A d \in Cpu : cproc[d] # Null /\ pc'[cproc[d]] \in {"wakeup_parent", "zombie"}
          => \A x \in Slots : parent[x] # cproc[d]
    <3>1. \A x \in Slots : pc'[x] \in {"wakeup_parent", "zombie"} => pc'[x] = pc[x]
      BY <1>8
    <3> QED
      BY <1>10, <2>1, <3>1 DEF FamilyInv
  <2> QED
    BY <1>1, <2>1, <2>3, <2>4, <2>5 DEF FamilyInv
<1>17. InitInv'
  BY <1>1, <1>2, <1>4, <1>5, <1>6, <1>7, InitFrame
<1>18. WakeupInv' /\ PassedInv' /\ ScanInv'
  <2>1. \A x \in Slots : /\ state'[x] = "ZOMBIE" => state[x] = "ZOMBIE"
                         /\ state'[x] = "SLEEPING" => state[x] = "SLEEPING"
    BY <1>6
  <2> QED
    BY <1>1, <1>5, <1>7, <2>1, BedFrame
<1> QED
  BY <1>11, <1>12, <1>13, <1>14, <1>15, <1>16, <1>17, <1>18 DEF IInv

\* kfork() dropping the lock of the child it has copied preserves IInv.
LEMMA ForkCopyInv ==
  ASSUME IInv, TypeOK', NEW c \in Cpu, NEW p \in Slots, ForkCopy(c, p)
  PROVE  IInv'
<1>0. /\ plock' = [plock EXCEPT ![np[p]] = NoCpu]
      /\ pc' = [pc EXCEPT ![p] = "fork_parent", ![np[p]] = "forkret"]
  BY DEF ForkCopy
<1>1. /\ TypeOK /\ cproc[c] = p /\ pc[p] = "fork_copy" /\ initproc \in Slots
      /\ UNCHANGED <<state, pid, parent, chan, killed, wait_lock, cproc, idx, np, kpid>>
  BY SlotFacts DEF IInv, ForkCopy, At, table, cpus, locals
<1>2. /\ "fork_copy" \in ForkLabels /\ "fork_parent" \in ForkLabels
      /\ "fork_copy" \notin HoldsP /\ "fork_parent" \notin HoldsP
      /\ "fork_copy" \notin HoldsWait /\ "fork_parent" \notin HoldsWait
      /\ "fork_parent" \notin ExitLabels
  BY DEF ForkLabels, HoldsP, HoldsWait, ExitLabels
<1>3. PICK n \in Slots : n = np[p]
  BY <1>1, <1>2, ForkOwn
<1>4. /\ n # p /\ n # initproc /\ state[p] = "RUNNING" /\ state[n] = "USED"
      /\ parent[n] = Null /\ \A d \in Cpu : cproc[d] # n
  BY SMTT(300), <1>1, <1>2, <1>3, ForkOwn
<1>5. /\ pc'[p] = "fork_parent" /\ pc'[n] = "forkret"
      /\ \A x \in Slots : x # p /\ x # n => pc'[x] = pc[x]
  BY <1>0, <1>1, <1>3, <1>4 DEF TypeOK
<1>6. plock'[n] = NoCpu /\ \A x \in Slots : x # n => plock'[x] = plock[x]
  BY <1>0, <1>1, <1>3 DEF TypeOK
<1>7. /\ p # Null /\ \A d \in Cpu : cproc[d] # Null => cproc[d] \in Slots
      /\ \A d \in Cpu : d # c => cproc[d] # p
  BY <1>1, OneCpu
<1>8. \A d \in Cpu : d # c /\ cproc[d] # Null => pc'[cproc[d]] = pc[cproc[d]]
  BY <1>4, <1>5, <1>7
<1>9. CpuInv'
  BY <1>1 DEF IInv, CpuInv
<1>10. PLockInv'
  <2>1. PLockInv
    BY DEF IInv
  <2>2. plock[n] = c
    BY <1>1, <1>3, <1>7, <2>1 DEF PLockInv
  <2>3. ASSUME NEW d \in Cpu
        PROVE  /\ plock'[n] # d /\ cproc[d] # n
               /\ ~(cproc[d] # Null /\ n = np[cproc[d]] /\ pc'[cproc[d]] = "fork_copy")
    <3>1. plock'[n] # d
      BY <1>6, ProcAssumption
    <3>2. ASSUME cproc[d] # Null, n = np[cproc[d]], pc'[cproc[d]] = "fork_copy"
          PROVE  FALSE
      <4>1. d # c
        BY <1>1, <1>5, <3>2
      <4>2. plock[n] = d
        BY <1>8, <2>1, <3>2, <4>1 DEF PLockInv
      <4> QED
        BY <2>2, <4>1, <4>2
    <3> QED
      BY <1>4, <3>1, <3>2
  <2>4. ASSUME NEW x \in Slots, NEW d \in Cpu, x # n
        PROVE  plock'[x] = d <=>
                 /\ cproc[d] # Null
                 /\ \/ x = cproc[d] /\ pc'[x] \in HoldsP
                    \/ x = np[cproc[d]] /\ pc'[cproc[d]] = "fork_copy"
    <3>0. plock[x] = d <=>
            /\ cproc[d] # Null
            /\ \/ x = cproc[d] /\ pc[x] \in HoldsP
               \/ x = np[cproc[d]] /\ pc[cproc[d]] = "fork_copy"
      BY <2>1 DEF PLockInv
    <3>1. CASE d = c
      BY <1>1, <1>2, <1>3, <1>5, <1>6, <2>4, <3>0, <3>1
    <3>2. CASE d # c
      BY <1>6, <1>8, <2>4, <3>0, <3>2
    <3> QED
      BY <3>1, <3>2
  <2> QED
    BY SMTT(300), <1>1, <2>3, <2>4 DEF PLockInv
<1>11. WaitLockInv'
  <2>1. \A d \in Cpu : cproc[d] # Null =>
          ((pc'[cproc[d]] \in HoldsWait) <=> (pc[cproc[d]] \in HoldsWait))
    BY <1>1, <1>2, <1>5, <1>8
  <2> QED
    BY <1>1, <2>1 DEF IInv, WaitLockInv
<1>12. RunInv'
  <2>1. /\ pc'[p] \notin {"dead", "sched_yield", "sched_sleep", "sched_exit"}
        /\ state'[p] = "RUNNING"
    BY <1>1, <1>4, <1>5
  <2>2. ASSUME NEW d \in Cpu, cproc[d] # Null, d # c
        PROVE  pc'[cproc[d]] = pc[cproc[d]] /\ state'[cproc[d]] = state[cproc[d]]
    BY <1>1, <1>8, <2>2
  <2> QED
    BY <1>1, <2>1, <2>2 DEF IInv, RunInv
<1>13. RestInv'
  <2>1. \A x \in Slots : OnCpu(x)' <=> OnCpu(x)
    BY <1>1 DEF OnCpu
  <2>2. OnCpu(p) /\ \A x \in Slots : x # p => pc'[x] = pc[x] \/ state[x] = "USED"
    BY <1>1, <1>4, <1>5 DEF OnCpu
  <2> QED
    BY <1>1, <2>1, <2>2 DEF IInv, RestInv
<1>14. ForkInv'
  <2>1. ForkAfter(c) /\ np'[p] = np[p]
    BY <1>1, <1>3, <1>4, <1>5 DEF ForkAfter
  <2>2. OnlyAt(np, p)
    BY <1>1 DEF OnlyAt
  <2> QED
    BY <1>1, <1>2, <1>3, <1>5, <2>1, <2>2, ForkOthers
<1>15. FamilyInv'
  <2>1. \A d \in Cpu : cproc[d] # Null /\ pc'[cproc[d]] \in {"wakeup_parent", "zombie"}
          => pc[cproc[d]] \in {"wakeup_parent", "zombie"}
    BY <1>1, <1>5, <1>8
  <2> QED
    BY <1>1, <2>1 DEF IInv, FamilyInv
<1>16. InitInv'
  <2>1. pc'[initproc] \notin ExitLabels
    BY <1>1, <1>2, <1>4, <1>5 DEF IInv, InitInv
  <2> QED
    BY <1>1, <2>1 DEF IInv, InitInv
<1>17. \A x \in Slots : Bedding(x)' => Bedding(x)
  BY <1>1, <1>5 DEF Bedding
<1>18. WakeupInv'
  <2>1. ASSUME NEW x \in Slots, state[x] = "ZOMBIE", parent[x] # Null,
               Bedding(parent[x])'
        PROVE  /\ parent[x] = initproc
               /\ \E d \in Cpu : /\ cproc[d] # Null
                                 /\ pc[cproc[d]] = "wakeup_init"
                                 /\ idx[cproc[d]] = 1
    <3>1. PICK y \in Slots : y = parent[x] /\ y = parent'[x]
      BY <1>1, <2>1, SlotFacts DEF TypeOK
    <3>2. Bedding(y)
      BY <1>17, <2>1, <3>1
    <3> QED
      BY <2>1, <3>1, <3>2 DEF IInv, WakeupInv
  <2>2. \A d \in Cpu : cproc[d] # Null /\ pc[cproc[d]] = "wakeup_init"
                         => pc'[cproc[d]] = "wakeup_init"
    BY <1>1, <1>8
  <2> QED
    BY <1>1, <2>1, <2>2 DEF WakeupInv
<1>19. PassedInv'
  <2> SUFFICES ASSUME NEW d \in Cpu, cproc[d] # Null,
                      pc'[cproc[d]] \in {"wakeup_parent", "zombie"}
               PROVE  \/ /\ pc'[cproc[d]] # "zombie"
                         /\ idx[cproc[d]] <= parent[cproc[d]]
                      \/ ~Bedding(parent[cproc[d]])'
    BY <1>1 DEF PassedInv
  <2>1. pc'[cproc[d]] = pc[cproc[d]]
    BY <1>1, <1>5, <1>8
  <2>2. PICK x \in Slots : x = parent[cproc[d]] /\ x = parent'[cproc'[d]]
    BY <1>1, <2>1, HasParent
  <2>3. Bedding(parent[cproc[d]])' => Bedding(x)
    BY <1>17, <2>2
  <2> QED
    BY <2>1, <2>2, <2>3 DEF IInv, PassedInv
<1>20. ScanInv'
  <2>1. \A d \in Cpu :
          /\ cproc[d] # Null
          /\ pc'[cproc[d]] \in {"scan", "scanned", "sleep", "sleep_rel"}
          => pc'[cproc[d]] = pc[cproc[d]]
    BY <1>1, <1>5, <1>8
  <2> QED
    BY <1>1, <2>1 DEF IInv, ScanInv
<1>21. NoPanic'
  BY <1>5 DEF IInv, NoPanic
<1> QED
  BY <1>9, <1>10, <1>11, <1>12, <1>13, <1>14, <1>15, <1>16, <1>18, <1>19,
     <1>20,
     <1>21 DEF IInv

-----------------------------------------------------------------------------
(* kexit() and reparent()                                                  *)

\* kexit() of init panics; IInv is preserved.
LEMMA InitExitingInv ==
  ASSUME IInv, TypeOK', NEW c \in Cpu, NEW p \in Slots, ExitStart(c, p), p = initproc
  PROVE  IInv'
<1>1. /\ TypeOK /\ cproc[c] = p /\ pc[p] = "exit" /\ pc' = [pc EXCEPT ![p] = "init_exiting"]
      /\ UNCHANGED <<state, pid, parent, chan, killed, plock, wait_lock, cproc, idx, np>>
  BY DEF IInv, ExitStart, At, Goto, table, cpus, locals
<1>2. "exit" \in QuietLabels /\ "init_exiting" \in QuietLabels
  BY DEF QuietLabels
<1>3. OnlyAt(idx, p) /\ OnlyAt(np, p)
  BY <1>1 DEF OnlyAt
<1>4. Moves(c, p, "exit", "init_exiting")
  BY <1>1, MovesFact
<1> QED
  BY <1>1, <1>2, <1>3, <1>4, QuietStep

\* kexit() of a process other than init, taking wait_lock, preserves IInv.
LEMMA ExitLockInv ==
  ASSUME IInv, TypeOK', NEW c \in Cpu, NEW p \in Slots, ExitStart(c, p), p # initproc
  PROVE  IInv'
<1>1. /\ TypeOK /\ cproc[c] = p /\ pc[p] = "exit"
      /\ UNCHANGED <<state, pid, parent, chan, killed, plock, cproc, idx, np, kpid>>
  BY DEF IInv, ExitStart, At, table, cpus, locals
<1>3. /\ pc' = [pc EXCEPT ![p] = "reparent"]
      /\ wait_lock = NoCpu /\ wait_lock' = c
  BY DEF ExitStart, Goto
<1>4. Moves(c, p, "exit", "reparent")
  BY <1>1, <1>3, MovesFact
<1>5. OnlyAt(idx, p) /\ OnlyAt(np, p)
  BY <1>1 DEF OnlyAt
<1>6. /\ "exit" \notin ForkLabels /\ "reparent" \notin ForkLabels
      /\ "exit" \notin HoldsP /\ "reparent" \notin HoldsP
      /\ "reparent" \in HoldsWait
  BY DEF ForkLabels, HoldsP, HoldsWait
<1>7. StateAt("reparent") = "RUNNING" /\ StateAt("exit") = "RUNNING"
  BY DEF StateAt
<1>8. CpuInv' /\ RunInv' /\ RestInv' /\ ForkInv' /\ NoPanic'
  BY <1>1, <1>4, <1>5, <1>6, <1>7, PlainFrame
<1>9. PLockInv'
  BY <1>1, <1>4, <1>5, <1>6, PLockFrame
<1>10. WaitLockInv'
  BY <1>3, <1>4, <1>6, WaitTake
<1>11. FamilyInv'
  BY <1>1, <1>4, FamilyFrame
<1>12. InitInv'
  BY <1>1, <1>4, InitFrame
<1>13. WakeupInv' /\ PassedInv' /\ ScanInv'
  BY <1>1, <1>4, <1>5, BedFrame
<1> QED
  BY <1>8, <1>9, <1>10, <1>11, <1>12, <1>13 DEF IInv

\* The start of kexit() preserves IInv.
LEMMA ExitStartInv ==
  ASSUME IInv, TypeOK', NEW c \in Cpu, NEW p \in Slots, ExitStart(c, p)
  PROVE  IInv'
BY InitExitingInv, ExitLockInv

\* The end of reparent() preserves IInv.
LEMMA ReparentNoneInv ==
  ASSUME IInv, TypeOK', NEW c \in Cpu, NEW p \in Slots, Reparent(c, p),
         Children(p) = {}
  PROVE  IInv'
<1>1. /\ TypeOK /\ cproc[c] = p /\ pc[p] = "reparent"
      /\ \A q \in Slots : parent[q] # p
      /\ UNCHANGED <<state, pid, chan, killed, plock, wait_lock, cproc, np, kpid>>
  BY DEF IInv, Reparent, Children, At, locks, cpus
<1>2. /\ pc' = [pc EXCEPT ![p] = "wakeup_parent"] /\ idx' = [idx EXCEPT ![p] = 1]
      /\ parent' = parent
  BY DEF Reparent, Loop, Goto
<1>3. Moves(c, p, "reparent", "wakeup_parent")
  BY <1>1, <1>2, MovesFact
<1>4. OnlyAt(idx, p) /\ OnlyAt(np, p) /\ idx'[p] = 1
  BY SMTT(300), <1>1, <1>2 DEF OnlyAt, TypeOK
<1>5. /\ "reparent" \notin ForkLabels /\ "wakeup_parent" \notin ForkLabels
      /\ "reparent" \notin HoldsP /\ "wakeup_parent" \notin HoldsP
      /\ "reparent" \in HoldsWait /\ "wakeup_parent" \in HoldsWait
  BY DEF ForkLabels, HoldsP, HoldsWait
<1>6. StateAt("reparent") = "RUNNING" /\ StateAt("wakeup_parent") = "RUNNING"
  BY DEF StateAt
<1>7. /\ p # Null /\ \A d \in Cpu : cproc[d] # Null => cproc[d] \in Slots
  BY <1>1, OneCpu
<1>8. p # initproc /\ parent[p] \in Slots
  BY <1>1, <1>7, HasParent
<1>9. \A q \in Slots : Bedding(q)' => Bedding(q)
  BY <1>1, <1>3 DEF Bedding, Moves
<1>10. pc'[p] = "wakeup_parent" /\ \A q \in Slots : q # p => pc'[q] = pc[q]
  BY <1>3 DEF Moves
<1>11. \A d \in Cpu : cproc[d] # Null /\ pc[cproc[d]] \in HoldsWait => d = c
  BY <1>1, <1>5, OneWaiter
<1>12. CpuInv' /\ RunInv' /\ RestInv' /\ ForkInv' /\ NoPanic'
  BY <1>1, <1>2, <1>3, <1>4, <1>5, <1>6, PlainFrame
<1>13. PLockInv' /\ WaitLockInv'
  BY <1>1, <1>3, <1>4, <1>5, PLockFrame, WaitFrame
<1>14. FamilyInv'
  <2>1. FamilyInv
    BY DEF IInv
  <2>2. \A d \in Cpu : cproc[d] # Null /\ pc'[cproc[d]] \in {"wakeup_parent", "zombie"}
          => \A x \in Slots : parent[x] # cproc[d]
    <3>1. \A x \in Slots : x # p => pc'[x] = pc[x]
      BY <1>10
    <3> QED
      BY <1>1, <1>7, <2>1, <3>1 DEF FamilyInv
  <2> QED
    BY <1>1, <1>2, <2>1, <2>2 DEF FamilyInv
<1>15. InitInv'
  BY <1>1, <1>3, <1>4, <1>8, InitFrame
<1>16. WakeupInv'
  BY <1>1, <1>2, <1>3, <1>4, <1>9, WakeupFrame
<1>17. PassedInv'
  <2> SUFFICES ASSUME NEW d \in Cpu, cproc[d] # Null,
                      pc'[cproc[d]] \in {"wakeup_parent", "zombie"}
               PROVE  /\ pc'[cproc[d]] # "zombie"
                      /\ idx'[cproc[d]] <= parent[cproc[d]]
    BY <1>1, <1>2 DEF PassedInv
  <2>1. pc'[cproc[d]] \in HoldsWait
    BY DEF HoldsWait
  <2>2. cproc[d] = p
    BY <1>1, <1>7, <1>10, <1>11, <2>1
  <2>3. 1 <= parent[p]
    BY <1>8, SlotBounds
  <2> QED
    BY <1>4, <1>10, <2>2, <2>3
<1>18. ScanInv'
  BY <1>1, <1>2, <1>3, <1>4, ScanFrame
<1> QED
  BY <1>12, <1>13, <1>14, <1>15, <1>16, <1>17, <1>18 DEF IInv

\* reparent() giving one child to init preserves IInv.
LEMMA ReparentChildInv ==
  ASSUME IInv, TypeOK', NEW c \in Cpu, NEW p \in Slots, Reparent(c, p),
         NEW q \in Slots, parent[q] = p, parent' = [parent EXCEPT ![q] = initproc],
         Loop(p, "wakeup_init")
  PROVE  IInv'
<1>1. /\ TypeOK /\ cproc[c] = p /\ pc[p] = "reparent" /\ initproc \in Slots
      /\ UNCHANGED <<state, pid, chan, killed, plock, wait_lock, cproc, np, kpid>>
  BY SlotFacts DEF IInv, Reparent, At, locks, cpus
<1>2. pc' = [pc EXCEPT ![p] = "wakeup_init"] /\ idx' = [idx EXCEPT ![p] = 1]
  BY DEF Loop, Goto
<1>3. Moves(c, p, "reparent", "wakeup_init")
  BY <1>1, <1>2, MovesFact
<1>4. OnlyAt(idx, p) /\ OnlyAt(np, p) /\ idx'[p] = 1
  BY SMTT(300), <1>1, <1>2 DEF OnlyAt, TypeOK
<1>5. /\ "reparent" \notin ForkLabels /\ "wakeup_init" \notin ForkLabels
      /\ "reparent" \notin HoldsP /\ "wakeup_init" \notin HoldsP
      /\ "reparent" \in HoldsWait /\ "wakeup_init" \in HoldsWait
  BY DEF ForkLabels, HoldsP, HoldsWait
<1>6. StateAt("reparent") = "RUNNING" /\ StateAt("wakeup_init") = "RUNNING"
  BY DEF StateAt
<1>7. /\ p # Null /\ \A d \in Cpu : cproc[d] # Null => cproc[d] \in Slots
  BY <1>1, OneCpu
<1>8. p # initproc
  BY <1>1, <1>7, HasParent
<1>9. parent'[q] = initproc /\ \A x \in Slots : x # q => parent'[x] = parent[x]
  BY <1>1 DEF TypeOK
<1>10. pc'[p] = "wakeup_init" /\ \A x \in Slots : x # p => pc'[x] = pc[x]
  BY <1>3 DEF Moves
<1>11. \A d \in Cpu : cproc[d] # Null /\ pc[cproc[d]] \in HoldsWait => d = c
  BY <1>1, <1>5, OneWaiter
<1>12. \A d \in Cpu : cproc[d] # Null /\ pc'[cproc[d]] \in HoldsWait => cproc[d] = p
  BY <1>1, <1>7, <1>10, <1>11
<1>13. CpuInv' /\ RunInv' /\ RestInv' /\ ForkInv' /\ NoPanic'
  BY <1>1, <1>3, <1>4, <1>5, <1>6, <1>9, PlainFrame
<1>14. PLockInv' /\ WaitLockInv'
  BY <1>1, <1>3, <1>4, <1>5, PLockFrame, WaitFrame
<1>15. FamilyInv'
  <2>1. FamilyInv /\ initproc # Null
    BY SlotFacts DEF IInv
  <2>2. q # initproc
    BY <1>7, <2>1 DEF FamilyInv
  <2>3. state[initproc] \notin {"UNUSED", "USED", "ZOMBIE"}
    BY DEF IInv, InitInv
  <2>4. \A x \in Slots : parent'[x] # Null =>
          /\ parent'[x] # x
          /\ state[parent'[x]] \notin {"UNUSED", "USED", "ZOMBIE"}
    BY <1>9, <2>1, <2>2, <2>3 DEF FamilyInv
  <2>5. \A x \in Slots :
          /\ state[x] = "UNUSED" => parent'[x] = Null
          /\ x # initproc /\ state[x] \notin {"UNUSED", "USED"} => parent'[x] # Null
    BY <1>7, <1>9, <2>1 DEF FamilyInv
  <2>6. parent'[initproc] = Null
    BY <1>1, <1>9, <2>1, <2>2 DEF FamilyInv
  <2>7. \A d \in Cpu : cproc[d] # Null => pc'[cproc[d]] \notin {"wakeup_parent", "zombie"}
    BY <1>10, <1>12 DEF HoldsWait
  <2> QED
    BY <1>1, <2>4, <2>5, <2>6, <2>7 DEF FamilyInv
<1>16. InitInv'
  BY <1>1, <1>3, <1>4, <1>8, InitFrame
<1>17. WakeupInv'
  <2> SUFFICES ASSUME NEW x \in Slots, state[x] = "ZOMBIE", parent'[x] # Null,
                      Bedding(parent[x])'
               PROVE  parent'[x] = initproc
    BY <1>1, <1>4, <1>7, <1>10 DEF WakeupInv
  <2>1. CASE x = q
    BY <1>9, <2>1
  <2>2. CASE x # q
    <3>1. PICK y \in Slots : y = parent[x] /\ y = parent'[x]
      BY <1>1, <1>9, <2>2, SlotFacts DEF TypeOK
    <3>2. Bedding(y)'
      BY <3>1
    <3>3. Bedding(y)
      BY <1>1, <1>10, <3>2 DEF Bedding
    <3>4. parent[x] # Null
      BY <1>9, <2>2
    <3> QED
      BY <1>9, <2>2, <3>1, <3>3, <3>4 DEF IInv, WakeupInv
  <2> QED
    BY <2>1, <2>2
<1>18. PassedInv'
  <2>1. \A d \in Cpu : d # c /\ cproc[d] # Null /\ pc[cproc[d]] \in HoldsWait =>
          /\ parent'[cproc[d]] = parent[cproc[d]]
          /\ \A x \in Slots : Bedding(x)' => Bedding(x)
    BY <1>11
  <2>2. "wakeup_init" \notin {"zombie", "wakeup_parent"} /\ OnlyAt(idx, p)
    BY <1>4
  <2> QED
    BY <1>3, <2>1, <2>2, PassedFrame
<1>19. ScanInv'
  <2>1. \A d \in Cpu : cproc[d] # Null
          => pc'[cproc[d]] \notin {"scan", "scanned", "sleep", "sleep_rel"}
    BY <1>10, <1>12 DEF HoldsWait
  <2> QED
    BY <1>1, <2>1 DEF ScanInv
<1> QED
  BY <1>13, <1>14, <1>15, <1>16, <1>17, <1>18, <1>19 DEF IInv

\* reparent() preserves IInv.
LEMMA ReparentInv ==
  ASSUME IInv, TypeOK', NEW c \in Cpu, NEW p \in Slots, Reparent(c, p)
  PROVE  IInv'
<1>1. CASE Children(p) = {}
  BY <1>1, ReparentNoneInv
<1>2. ASSUME NEW q \in Children(p),
             parent' = [parent EXCEPT ![q] = initproc], Loop(p, "wakeup_init")
      PROVE  IInv'
  <2>1. q \in Slots /\ parent[q] = p
    BY DEF Children
  <2> QED
    BY <1>2, <2>1, ReparentChildInv
<1> QED
  BY <1>1, <1>2 DEF Reparent

\* A thread that becomes a zombie is past the wakeup() of its parent, which is
\* awake, and has no children left: WakeupInv still holds.
LEMMA ExitZombieWakeup ==
  ASSUME IInv, NEW c \in Cpu, NEW p \in Slots, ExitZombie(c, p)
  PROVE  WakeupInv'
<1>1. /\ TypeOK /\ cproc[c] = p /\ pc[p] = "zombie" /\ p # Null
      /\ state' = [state EXCEPT ![p] = "ZOMBIE"] /\ pc' = [pc EXCEPT ![p] = "sched_exit"]
      /\ parent' = parent /\ chan' = chan /\ cproc' = cproc /\ idx' = idx
  BY SlotFacts DEF IInv, ExitZombie, At, Goto, cpus, locals
<1>2. /\ state'[p] = "ZOMBIE" /\ pc'[p] = "sched_exit"
      /\ \A q \in Slots : q # p => state'[q] = state[q] /\ pc'[q] = pc[q]
  BY <1>1 DEF TypeOK
<1>3. ~Bedding(parent[p]) /\ \A q \in Slots : parent[q] # p
  BY <1>1 DEF IInv, PassedInv, FamilyInv
<1> SUFFICES ASSUME NEW q \in Slots, state'[q] = "ZOMBIE", parent[q] # Null,
                    Bedding(parent[q])'
             PROVE  /\ parent[q] = initproc
                    /\ \E d \in Cpu : /\ cproc[d] # Null
                                      /\ pc'[cproc[d]] = "wakeup_init"
                                      /\ idx[cproc[d]] = 1
  BY <1>1 DEF WakeupInv
<1>4. PICK x \in Slots : x = parent[q] /\ x = parent'[q]
  BY <1>1, SlotFacts DEF TypeOK
<1>5. Bedding(x)' /\ x # p
  BY <1>3, <1>4
<1>6. Bedding(x)
  BY <1>1, <1>2, <1>5 DEF Bedding
<1>7. q # p /\ state[q] = "ZOMBIE"
  BY <1>2, <1>3, <1>4, <1>6
<1>8. parent[q] = initproc
  BY <1>4, <1>6, <1>7 DEF IInv, WakeupInv
<1>9. PICK d \in Cpu : /\ cproc[d] # Null
                       /\ pc[cproc[d]] = "wakeup_init"
                       /\ idx[cproc[d]] = 1
  BY <1>4, <1>6, <1>7 DEF IInv, WakeupInv
<1>10. cproc[d] \in Slots /\ cproc[d] # p
  BY <1>1, <1>9, OneCpu
<1> QED
  BY <1>2, <1>8, <1>9, <1>10

\* kexit() becoming a zombie and dropping wait_lock preserves IInv.
LEMMA ExitZombieInv ==
  ASSUME IInv, TypeOK', NEW c \in Cpu, NEW p \in Slots, ExitZombie(c, p)
  PROVE  IInv'
<1>1. /\ TypeOK /\ cproc[c] = p /\ pc[p] = "zombie" /\ initproc \in Slots
      /\ pc' = [pc EXCEPT ![p] = "sched_exit"] /\ plock[p] = NoCpu
      /\ plock' = [plock EXCEPT ![p] = c] /\ state' = [state EXCEPT ![p] = "ZOMBIE"]
      /\ wait_lock' = NoCpu
      /\ UNCHANGED <<pid, parent, chan, killed, cproc, idx, np, kpid>>
  BY SlotFacts DEF IInv, ExitZombie, At, Goto, Free, cpus, locals
<1>2. Moves(c, p, "zombie", "sched_exit")
  BY <1>1, MovesFact
<1>3. state'[p] = "ZOMBIE" /\ \A q \in Slots : q # p => state'[q] = state[q]
  BY <1>1 DEF TypeOK
<1>4. OnlyAt(idx, p) /\ OnlyAt(np, p)
  BY <1>1 DEF OnlyAt
<1>5. /\ "zombie" \notin ForkLabels /\ "sched_exit" \notin ForkLabels
      /\ "sched_exit" \in HoldsP
      /\ "zombie" \in HoldsWait /\ "sched_exit" \notin HoldsWait
  BY DEF ForkLabels, HoldsP, HoldsWait
<1>6. state[p] = "RUNNING" /\ StateAt("sched_exit") = "ZOMBIE"
  BY <1>1, StateOfPlace DEF StateAt
<1>7. /\ p # Null /\ \A d \in Cpu : cproc[d] # Null => cproc[d] \in Slots
      /\ \A d \in Cpu : d # c => cproc[d] # p
  BY <1>1, OneCpu
<1>8. p # initproc
  BY <1>1, <1>7, HasParent
<1>9. \A d \in Cpu : cproc[d] # Null /\ pc[cproc[d]] \in HoldsWait => d = c
  BY <1>1, <1>5, OneWaiter
<1>10. pc'[p] = "sched_exit" /\ \A x \in Slots : x # p => pc'[x] = pc[x]
  BY <1>2 DEF Moves
<1>11. \A d \in Cpu : cproc[d] # Null => pc'[cproc[d]] \notin HoldsWait
  BY <1>1, <1>5, <1>7, <1>9, <1>10
<1>12. CpuInv' /\ NoPanic'
  BY <1>2, CpuFrame, PanicFrame
<1>13. PLockInv'
  BY <1>1, <1>2, <1>4, <1>5, PLockTake
<1>14. WaitLockInv'
  BY <1>1, <1>2, <1>5, WaitDrop
<1>15. RunInv'
  BY <1>2, <1>3, <1>6, <1>7, RunFrame
<1>16. RestInv'
  BY <1>2, <1>3, RestFrame
<1>17. ForkInv'
  BY <1>1, <1>2, <1>3, <1>4, <1>5, <1>6, ForkFrame
<1>18. FamilyInv'
  <2>1. FamilyInv
    BY DEF IInv
  <2>2. \A x \in Slots : parent[x] # p
    BY <1>1, <1>7, <2>1 DEF FamilyInv
  <2>3. \A x \in Slots : parent[x] # Null => parent[x] \in Slots
    BY <1>1, SlotFacts DEF TypeOK
  <2>4. \A x \in Slots : parent[x] # Null =>
          /\ parent[x] # x
          /\ state'[parent[x]] \notin {"UNUSED", "USED", "ZOMBIE"}
    BY <1>3, <2>1, <2>2, <2>3 DEF FamilyInv
  <2>5. \A x \in Slots :
          /\ state'[x] = "UNUSED" => parent[x] = Null
          /\ x # initproc /\ state'[x] \notin {"UNUSED", "USED"} => parent[x] # Null
    BY <1>3, <1>6, <2>1 DEF FamilyInv
  <2>6. \A d \in Cpu : cproc[d] # Null => pc'[cproc[d]] \notin {"wakeup_parent", "zombie"}
    BY <1>11 DEF HoldsWait
  <2> QED
    BY <1>1, <2>1, <2>4, <2>5, <2>6 DEF FamilyInv
<1>19. InitInv'
  BY <1>1, <1>2, <1>3, <1>4, <1>8, InitFrame
<1>20. WakeupInv'
  BY ExitZombieWakeup
<1>21. PassedInv'
  BY SMTT(300), <1>2, <1>4, <1>9, PassedFrame
<1>22. ScanInv'
  <2>1. \A d \in Cpu : cproc[d] # Null
          => pc'[cproc[d]] \notin {"scan", "scanned", "sleep", "sleep_rel"}
    BY <1>11 DEF HoldsWait
  <2> QED
    BY <1>1, <2>1 DEF ScanInv
<1> QED
  BY <1>12, <1>13, <1>14, <1>15, <1>16, <1>17, <1>18, <1>19, <1>20, <1>21,
     <1>22
     DEF IInv

-----------------------------------------------------------------------------
(* wakeup()                                                                *)

\* A sleeper or a zombie whose lock is free is on no CPU, and a process whose
\* lock is free is not about to sleep: wakeup(), kkill() and kwait() look at a
\* process under its p->lock.
LEMMA FreeIsAway ==
  ASSUME IInv, NEW q \in Slots, plock[q] = NoCpu
  PROVE  /\ state[q] \in {"SLEEPING", "ZOMBIE"} => \A d \in Cpu : cproc[d] # q
         /\ state[q] \notin NoProcess => pc[q] # "sleep_set"
<1>1. ASSUME NEW d \in Cpu, cproc[d] = q PROVE pc[q] \notin HoldsP
  <2>1. q # Null /\ PLockInv
    BY <1>1, OneCpu DEF IInv
  <2>2. pc[q] \in HoldsP => plock[q] = d
    BY <1>1, <2>1 DEF PLockInv
  <2> QED
    BY <2>2, ProcAssumption
<1>2. "sched_sleep" \in HoldsP /\ "sched_exit" \in HoldsP /\ "sleep_set" \in HoldsP
  BY DEF HoldsP
<1>3. ASSUME NEW d \in Cpu, cproc[d] = q, state[q] \in {"SLEEPING", "ZOMBIE"}
      PROVE  FALSE
  <2>1. state[q] = StateAt(pc[q])
    BY <1>3, StateOfPlace
  <2>2. pc[q] \in {"sched_sleep", "sched_exit"}
    BY <1>3, <2>1 DEF StateAt
  <2> QED
    BY <1>1, <1>2, <1>3, <2>2
<1>4. ASSUME state[q] \notin NoProcess, pc[q] = "sleep_set" PROVE FALSE
  <2>1. \A d \in Cpu : cproc[d] # q
    BY <1>1, <1>2, <1>4
  <2>2. state[q] \in {"RUNNABLE", "SLEEPING", "RUNNING"}
    BY <1>4 DEF IInv, TypeOK, States, NoProcess
  <2> QED
    BY <1>4, <2>1, <2>2 DEF IInv, RestInv, OnCpu
<1> QED
  BY <1>3, <1>4

\* A round of wakeup(), called by reparent() or kexit(), preserves IInv.
LEMMA ExitWakeupInv ==
  ASSUME IInv, TypeOK', NEW c \in Cpu, NEW p \in Slots, ExitWakeup(c, p)
  PROVE  IInv'
<1>1. PICK l, done, ch :
        /\ At(c, p, l) /\ wakeup(p, ch, done)
        /\ \/ l = "wakeup_init" /\ done = "reparent" /\ ch = initproc
           \/ l = "wakeup_parent" /\ done = "zombie" /\ ch = parent[p]
  BY DEF ExitWakeup
<1>2. done \in Labels /\ cproc[c] = p /\ pc[p] = l
  BY <1>1 DEF Labels, At
<1>3. PICK q \in Slots : q = idx[p]
  BY DEF IInv, TypeOK
<1>4. UNCHANGED <<pid, parent, chan, killed, plock, wait_lock, cproc, np, kpid>>
  BY <1>1 DEF wakeup, locks, cpus
<1>a. TypeOK /\ Advance(p, done)
  BY <1>1 DEF IInv, wakeup
<1>b. /\ \/ q < NPROC /\ pc' = pc /\ idx'[p] = q + 1
         \/ q = NPROC /\ pc' = [pc EXCEPT ![p] = done] /\ idx'[p] = 1
      /\ \A x \in Slots : x # p => idx'[x] = idx[x] /\ pc'[x] = pc[x]
  BY <1>2, <1>3, <1>a, AdvanceFacts
<1>5. /\ OnlyAt(idx, p)
      /\ \/ q < NPROC /\ Moves(c, p, l, l) /\ idx'[p] = q + 1
         \/ q = NPROC /\ Moves(c, p, l, done) /\ idx'[p] = 1
  BY <1>2, <1>4, <1>a, <1>b DEF OnlyAt, Moves, TypeOK
<1>6. /\ q = p \/ plock[q] = NoCpu
      /\ \A x \in Slots : \/ state'[x] = state[x]
                          \/ /\ x = q /\ x # p
                             /\ state[x] = "SLEEPING" /\ state'[x] = "RUNNABLE"
      /\ q # p /\ chan[q] = ch => state'[q] # "SLEEPING"
  BY <1>1, <1>3, <1>a DEF wakeup, Free, TypeOK
<1>7. PICK k \in {l, done} : Moves(c, p, l, k)
  BY <1>5
<1>8. /\ {l, done} \subseteq HoldsWait /\ {l, done} \cap HoldsP = {}
      /\ {l, done} \cap ForkLabels = {} /\ StateAt(k) = StateAt(l)
  BY <1>1, <1>7 DEF HoldsWait, HoldsP, ForkLabels, StateAt
<1>9. l \in HoldsWait /\ k \in HoldsWait /\ l \notin HoldsP /\ k \notin HoldsP
  BY <1>7, <1>8
<1>10. l \notin ForkLabels /\ k \notin ForkLabels /\ "fork_copy" \in ForkLabels
  BY <1>7, <1>8 DEF ForkLabels
<1>11. /\ p # Null /\ \A d \in Cpu : cproc[d] # Null => cproc[d] \in Slots
       /\ \A d \in Cpu : d # c => cproc[d] # p
  BY <1>2, OneCpu
<1>12. \A d \in Cpu : cproc[d] # Null /\ pc[cproc[d]] \in HoldsWait => d = c
  BY <1>2, <1>9, OneWaiter
<1>13. p # initproc /\ parent[p] \in Slots
  BY <1>1, <1>2, <1>11, HasParent
<1>14. pc'[p] = k /\ \A x \in Slots : x # p => pc'[x] = pc[x]
  BY <1>7 DEF Moves
<1>15. state'[p] = StateAt(k) /\ state[p] = StateAt(l)
  BY <1>2, <1>6, <1>8, StateOfPlace
<1>16. ASSUME NEW d \in Cpu, d # c, cproc[d] # Null
       PROVE  state'[cproc[d]] = state[cproc[d]]
  <2>1. cproc[d] \in Slots /\ cproc[d] # p
    BY <1>11, <1>16
  <2>2. CASE cproc[d] = q
    BY <1>6, <2>1, <2>2, FreeIsAway
  <2> QED
    BY <1>6, <2>1, <2>2
<1>17. \A x \in Slots : Bedding(x)' => Bedding(x)
  BY <1>1, <1>4, <1>6, <1>7, <1>14 DEF Bedding
<1>18. ASSUME q # p, q = ch, state[q] \notin NoProcess PROVE ~Bedding(q)'
  <2>1. pc[q] # "sleep_set"
    BY <1>6, <1>18, FreeIsAway
  <2>2. pc'[q] # "sleep_set"
    BY <1>14, <1>18, <2>1
  <2>3. chan'[q] = q => state'[q] # "SLEEPING"
    BY <1>4, <1>6, <1>18
  <2> QED
    BY <2>2, <2>3 DEF Bedding
<1>20. OnlyAt(np, p) /\ initproc \in Slots
  BY <1>4, SlotFacts DEF OnlyAt
<1>21. k \notin {"scan", "dead", "panic", "scanned", "sleep", "sleep_rel"}
  BY <1>1, <1>7
<1>22. CpuInv' /\ NoPanic'
  BY <1>7, <1>21, CpuFrame, PanicFrame
<1>23. PLockInv' /\ WaitLockInv'
  BY <1>4, <1>7, <1>9, <1>10, <1>20, PLockFrame, WaitFrame
<1>24. RunInv'
  BY <1>7, <1>15, <1>16, <1>21, RunFrame
<1>25. RestInv'
  BY <1>6, <1>7, RestFrame
<1>26. ForkInv'
  <2>1. \A x \in Slots : state[x] = "USED" => state'[x] = "USED"
    BY <1>6
  <2> QED
    BY <1>4, <1>7, <1>10, <1>20, <2>1, ForkFrame
<1>27. FamilyInv'
  <2>1. \A x \in Slots : \/ state'[x] = state[x]
                         \/ state[x] \notin NoProcess /\ state'[x] \notin NoProcess
    BY <1>6 DEF NoProcess
  <2>2. k \in {"wakeup_parent", "zombie"} => l \in {"wakeup_parent", "zombie"}
    BY <1>1, <1>7
  <2> QED
    BY <1>4, <1>7, <2>1, <2>2, FamilyFrame
<1>28. InitInv'
  <2>1. state'[initproc] = state[initproc] \/ state'[initproc] \notin NoProcess
    BY <1>6, <1>20 DEF NoProcess
  <2> QED
    BY <1>4, <1>7, <1>13, <2>1, InitFrame
<1>29. \A x \in Slots : state'[x] = "ZOMBIE" => state[x] = "ZOMBIE"
  BY <1>6
<1>30. ScanInv'
  BY <1>4, <1>5, <1>7, <1>21, <1>29, ScanFrame
<1>31. ASSUME l = "wakeup_init" PROVE WakeupInv'
  <2> SUFFICES ASSUME NEW x \in Slots, state'[x] = "ZOMBIE", parent'[x] # Null,
                      Bedding(parent[x])'
               PROVE  FALSE
    BY DEF WakeupInv
  <2>1. state[x] = "ZOMBIE" /\ parent[x] # Null
    BY <1>4, <1>29
  <2>2. PICK y \in Slots : y = parent[x] /\ y = parent'[x]
    BY <1>4, <2>1, SlotFacts DEF IInv, TypeOK
  <2>3. Bedding(y)' /\ Bedding(y)
    BY <1>17, <2>2
  <2>4. PICK d \in Cpu : /\ y = initproc /\ cproc[d] # Null
                         /\ pc[cproc[d]] = "wakeup_init" /\ idx[cproc[d]] = 1
    BY <2>1, <2>2, <2>3 DEF IInv, WakeupInv
  <2>5. d = c
    BY <1>12, <2>4 DEF HoldsWait
  <2>6. q = initproc /\ ch = initproc /\ y = q
    BY <1>1, <1>2, <1>3, <1>31, <2>4, <2>5 DEF initproc
  <2>7. state[q] \notin NoProcess
    BY <2>6 DEF IInv, InitInv, NoProcess
  <2> QED
    BY <1>13, <1>18, <2>3, <2>6, <2>7
<1>32. WakeupInv'
  <2>1. l = "wakeup_init" \/ l = "wakeup_parent"
    BY <1>1
  <2>2. CASE l = "wakeup_parent"
    BY <1>4, <1>5, <1>7, <1>17, <1>29, <2>2, WakeupFrame
  <2> QED
    BY <1>31, <2>1, <2>2
<1>33. PassedInv'
  <2> SUFFICES ASSUME NEW d \in Cpu, cproc'[d] # Null,
                      pc'[cproc[d]] \in {"zombie", "wakeup_parent"}
               PROVE  \/ /\ pc'[cproc[d]] # "zombie"
                         /\ idx'[cproc[d]] <= parent'[cproc[d]]
                      \/ ~Bedding(parent[cproc[d]])'
    BY <1>4 DEF PassedInv
  <2>1. cproc[d] # Null /\ pc'[cproc[d]] \in HoldsWait
    BY <1>4 DEF HoldsWait
  <2>2. d = c /\ cproc[d] = p /\ cproc'[d] = p
    BY <1>2, <1>4, <1>11, <1>12, <1>14, <2>1
  <2>3. l = "wakeup_parent" /\ done = "zombie" /\ ch = parent[p]
    BY <1>1, <1>7, <1>14, <2>2
  <2>4. PICK y \in Slots : y = parent[p] /\ y = parent'[p] /\ y = ch
    BY <1>4, <1>13, <2>3
  <2>a. FamilyInv /\ y # Null
    BY SlotFacts DEF IInv
  <2>5. y # p /\ state[y] \notin NoProcess
    BY <2>4, <2>a DEF FamilyInv, NoProcess
  <2>6. q <= y \/ ~Bedding(y)
    BY <1>2, <1>3, <1>11, <2>3, <2>4 DEF IInv, PassedInv
  <2>7. CASE q = y
    BY <1>18, <2>2, <2>4, <2>5, <2>7
  <2>8. CASE ~Bedding(y)
    BY <1>17, <2>2, <2>4, <2>8
  <2>9. CASE q < y
    <3>1. q # NPROC /\ q + 1 <= y
      BY SMTT(300), <2>9, SlotBounds
    <3>2. k = l /\ idx'[p] = q + 1
      BY <1>5, <1>7, <3>1 DEF Moves
    <3> QED
      BY <1>14, <2>2, <2>3, <2>4, <3>1, <3>2
  <2>10. q = y \/ q < y \/ ~Bedding(y)
    BY SMTT(300), <2>6, SlotBounds
  <2> QED
    BY <2>7, <2>8, <2>9, <2>10
<1> QED
  BY <1>22, <1>23, <1>24, <1>25, <1>26, <1>27, <1>28, <1>30, <1>32, <1>33
     DEF IInv

-----------------------------------------------------------------------------
(* kwait()                                                                 *)

\* kwait() taking wait_lock to start a scan preserves IInv.
LEMMA WaitAcquireInv ==
  ASSUME IInv, TypeOK', NEW c \in Cpu, NEW p \in Slots, WaitAcquire(c, p)
  PROVE  IInv'
<1>1. /\ TypeOK /\ cproc[c] = p /\ wait_lock = NoCpu /\ wait_lock' = c
      /\ UNCHANGED <<state, pid, parent, chan, killed, plock, cproc, np, kpid>>
  BY DEF IInv, WaitAcquire, At, table, cpus
<1>2. pc' = [pc EXCEPT ![p] = "scan"] /\ idx' = [idx EXCEPT ![p] = 1]
  BY DEF WaitAcquire, Loop, Goto
<1>3. PICK a \in {"wait", "rewait"} : pc[p] = a
  BY DEF WaitAcquire, At
<1>4. Moves(c, p, a, "scan")
  BY <1>1, <1>2, <1>3, MovesFact
<1>5. OnlyAt(idx, p) /\ idx'[p] = 1
  BY <1>1, <1>2 DEF OnlyAt, TypeOK
<1>6. OnlyAt(np, p)
  BY <1>1 DEF OnlyAt
<1>7. /\ a \notin ForkLabels /\ "scan" \notin ForkLabels
      /\ a \notin HoldsP /\ "scan" \notin HoldsP
      /\ "scan" \in HoldsWait /\ "scan" \notin ExitLabels
  BY <1>3 DEF ForkLabels, HoldsP, HoldsWait, ExitLabels
<1>8. StateAt("scan") = StateAt(a) /\ a # "wakeup_init" /\ a # "fork_copy"
  BY <1>3 DEF StateAt
<1>9. pc'[p] = "scan" /\ \A q \in Slots : q # p => pc'[q] = pc[q]
  BY <1>4 DEF Moves
<1>10. \A q \in Slots : Bedding(q)' => Bedding(q)
  BY <1>1, <1>9 DEF Bedding
<1>11. /\ p # Null /\ \A d \in Cpu : cproc[d] # Null => cproc[d] \in Slots
  BY <1>1, OneCpu
<1>12. CpuInv' /\ RunInv' /\ RestInv' /\ ForkInv' /\ NoPanic'
  BY <1>1, <1>4, <1>6, <1>7, <1>8, PlainFrame
<1>13. PLockInv'
  BY <1>1, <1>4, <1>6, <1>7, <1>8, PLockFrame
<1>14. WaitLockInv'
  BY <1>1, <1>4, <1>7, WaitTake
<1>15. FamilyInv'
  BY <1>1, <1>4, FamilyFrame
<1>16. InitInv'
  BY <1>1, <1>4, <1>6, <1>7, InitFrame
<1>17. WakeupInv'
  BY <1>1, <1>4, <1>5, <1>8, <1>10, WakeupFrame
<1>18. PassedInv'
  BY <1>1, <1>4, <1>5, <1>10, PassedFrame
<1>19. ScanInv'
  <2> SUFFICES ASSUME NEW d \in Cpu, NEW q \in Slots, cproc[d] # Null,
                      parent[q] = cproc[d], state[q] = "ZOMBIE"
               PROVE  /\ pc'[cproc[d]] \notin {"scanned", "sleep", "sleep_rel"}
                      /\ pc'[cproc[d]] = "scan" => idx'[cproc[d]] <= q
    BY <1>1 DEF ScanInv
  <2>1. CASE cproc[d] = p
    BY <1>5, <1>9, <2>1, SlotBounds
  <2>2. CASE cproc[d] # p
    <3>1. /\ pc'[cproc[d]] = pc[cproc[d]] /\ idx'[cproc[d]] = idx[cproc[d]]
      BY <1>5, <1>9, <1>11, <2>2 DEF OnlyAt
    <3> QED
      BY <3>1 DEF IInv, ScanInv
  <2> QED
    BY <2>1, <2>2
<1> QED
  BY <1>12, <1>13, <1>14, <1>15, <1>16, <1>17, <1>18, <1>19 DEF IInv

\* kwait() passing a slot that is no zombie child preserves IInv.
LEMMA ScanSkipInv ==
  ASSUME IInv, TypeOK', NEW c \in Cpu, NEW p \in Slots, ScanSkip(c, p)
  PROVE  IInv'
<1>1. /\ TypeOK /\ cproc[c] = p /\ pc[p] = "scan" /\ Advance(p, "scanned")
      /\ "scanned" \in Labels
      /\ UNCHANGED <<state, pid, parent, chan, killed, plock, wait_lock, cproc, np, kpid>>
  BY DEF IInv, ScanSkip, At, table, locks, cpus, Labels
<1>2. PICK q \in Slots : q = idx[p]
  BY <1>1 DEF TypeOK
<1>3. /\ \/ q < NPROC /\ pc' = pc /\ idx'[p] = q + 1
         \/ q = NPROC /\ pc' = [pc EXCEPT ![p] = "scanned"] /\ idx'[p] = 1
      /\ \A x \in Slots : x # p => idx'[x] = idx[x] /\ pc'[x] = pc[x]
  BY <1>1, <1>2, AdvanceFacts
<1>4. /\ OnlyAt(idx, p)
      /\ \/ q < NPROC /\ Moves(c, p, "scan", "scan") /\ idx'[p] = q + 1
         \/ q = NPROC /\ Moves(c, p, "scan", "scanned")
  BY <1>1, <1>3 DEF OnlyAt, Moves, TypeOK
<1>5. PICK k \in {"scan", "scanned"} : Moves(c, p, "scan", k)
  BY <1>4
<1>6. OnlyAt(np, p)
  BY <1>1 DEF OnlyAt
<1>7. /\ "scan" \notin ForkLabels /\ k \notin ForkLabels
      /\ "scan" \notin HoldsP /\ k \notin HoldsP
      /\ "scan" \in HoldsWait /\ k \in HoldsWait /\ k \notin ExitLabels
  BY <1>5 DEF ForkLabels, HoldsP, HoldsWait, ExitLabels
<1>8. StateAt(k) = StateAt("scan") /\ k # "fork_copy" /\ k # "dead" /\ k # "panic"
  BY <1>5 DEF StateAt
<1>9. pc'[p] = k /\ \A x \in Slots : x # p => pc'[x] = pc[x]
  BY <1>5 DEF Moves
<1>10. \A x \in Slots : Bedding(x)' => Bedding(x)
  BY <1>1, <1>5, <1>9 DEF Bedding
<1>11. /\ p # Null /\ \A d \in Cpu : cproc[d] # Null => cproc[d] \in Slots
  BY <1>1, OneCpu
<1>12. CpuInv' /\ RunInv' /\ RestInv' /\ ForkInv' /\ NoPanic'
  BY <1>1, <1>5, <1>6, <1>7, <1>8, PlainFrame
<1>13. PLockInv' /\ WaitLockInv'
  BY <1>1, <1>5, <1>6, <1>7, <1>8, PLockFrame, WaitFrame
<1>14. FamilyInv'
  <2>1. k \notin {"wakeup_parent", "zombie"}
    BY <1>5
  <2> QED
    BY <1>1, <1>5, <2>1, FamilyFrame
<1>15. InitInv'
  BY <1>1, <1>5, <1>6, <1>7, InitFrame
<1>16. WakeupInv'
  BY <1>1, <1>4, <1>5, <1>10, WakeupFrame
<1>17. PassedInv'
  <2>1. k \notin {"wakeup_parent", "zombie"}
    BY <1>5
  <2> QED
    BY <1>1, <1>4, <1>5, <1>10, <2>1, PassedFrame
<1>18. ScanInv'
  <2> SUFFICES ASSUME NEW d \in Cpu, NEW x \in Slots, cproc[d] # Null,
                      parent[x] = cproc[d], state[x] = "ZOMBIE"
               PROVE  /\ pc'[cproc[d]] \notin {"scanned", "sleep", "sleep_rel"}
                      /\ pc'[cproc[d]] = "scan" => idx'[cproc[d]] <= x
    BY <1>1 DEF ScanInv
  <2>1. CASE cproc[d] = p
    <3>1. q <= x
      BY <1>1, <1>2, <2>1 DEF IInv, ScanInv
    <3>2. q # x
      BY <1>2, <2>1 DEF ScanSkip
    <3>3. q < NPROC /\ q + 1 <= x
      BY SMTT(300), <3>1, <3>2, SlotBounds
    <3>4. q # NPROC
      BY SMTT(300), <3>3, SlotBounds
    <3>5. pc'[p] = "scan" /\ idx'[p] = q + 1
      BY <1>4, <3>4 DEF Moves
    <3> QED
      BY <2>1, <3>3, <3>5
  <2>2. CASE cproc[d] # p
    <3>1. /\ pc'[cproc[d]] = pc[cproc[d]] /\ idx'[cproc[d]] = idx[cproc[d]]
      BY <1>4, <1>9, <1>11, <2>2 DEF OnlyAt
    <3> QED
      BY <3>1 DEF IInv, ScanInv
  <2> QED
    BY <2>1, <2>2
<1> QED
  BY <1>12, <1>13, <1>14, <1>15, <1>16, <1>17, <1>18 DEF IInv

\* kwait() reaping a zombie child, or failing to copy its status out, preserves
\* IInv.
LEMMA ScanReapInv ==
  ASSUME IInv, TypeOK', NEW c \in Cpu, NEW p \in Slots, ScanReap(c, p)
  PROVE  IInv'
<1>1. /\ TypeOK /\ cproc[c] = p /\ pc[p] = "scan" /\ wait_lock' = NoCpu
      /\ initproc \in Slots
      /\ UNCHANGED <<plock, cproc, np, kpid>>
  BY SlotFacts DEF IInv, ScanReap, At, cpus
<1>2. pc' = [pc EXCEPT ![p] = "ret"] /\ idx' = [idx EXCEPT ![p] = 1]
  BY DEF ScanReap, Loop, Goto
<1>3. PICK q \in Slots : q = idx[p]
  BY <1>1 DEF TypeOK
<1>4. parent[q] = p /\ plock[q] = NoCpu /\ state[q] = "ZOMBIE"
  BY <1>3 DEF ScanReap, Free
<1>5. freeproc(q) \/ UNCHANGED table
  BY <1>3 DEF ScanReap
<1>6. /\ \A x \in Slots : x # q => state'[x] = state[x] /\ parent'[x] = parent[x]
      /\ \A x \in Slots : x # q => pid'[x] = pid[x] /\ killed'[x] = killed[x]
      /\ \A x \in Slots : x # q => chan'[x] = chan[x]
      /\ \/ state'[q] = "UNUSED" /\ parent'[q] = Null
         \/ state'[q] = "ZOMBIE" /\ parent'[q] = parent[q]
  BY <1>1, <1>4, <1>5 DEF TypeOK, freeproc, table
<1>7. Moves(c, p, "scan", "ret")
  BY <1>1, <1>2, MovesFact
<1>8. OnlyAt(idx, p)
  BY <1>1, <1>2 DEF OnlyAt, TypeOK
<1>9. OnlyAt(np, p)
  BY <1>1 DEF OnlyAt
<1>10. /\ "scan" \notin ForkLabels /\ "ret" \notin ForkLabels
       /\ "scan" \notin HoldsP /\ "ret" \notin HoldsP
       /\ "scan" \in HoldsWait /\ "ret" \notin HoldsWait /\ "ret" \notin ExitLabels
  BY DEF ForkLabels, HoldsP, HoldsWait, ExitLabels
<1>11. state[p] = "RUNNING" /\ StateAt("ret") = "RUNNING"
  BY <1>1, StateOfPlace DEF StateAt
<1>12. /\ p # Null /\ \A d \in Cpu : cproc[d] # Null => cproc[d] \in Slots
  BY <1>1, OneCpu
<1>13. \A d \in Cpu : cproc[d] # q
  BY <1>4, FreeIsAway
<1>14. q # initproc /\ q # p
  BY <1>4, <1>11 DEF IInv, InitInv
<1>15. CpuInv' /\ NoPanic'
  BY <1>7, CpuFrame, PanicFrame
<1>16. PLockInv'
  BY <1>1, <1>7, <1>9, <1>10, PLockFrame
<1>17. WaitLockInv'
  BY <1>1, <1>7, <1>10, WaitDrop
<1>18. RunInv'
  <2>1. state'[p] = StateAt("ret")
    BY <1>6, <1>11, <1>14
  <2>2. \A d \in Cpu : d # c /\ cproc[d] # Null => state'[cproc[d]] = state[cproc[d]]
    BY <1>6, <1>12, <1>13
  <2> QED
    BY <1>7, <2>1, <2>2, RunFrame
<1>19. RestInv'
  <2>1. \A x \in Slots : state'[x] = state[x] \/ state'[x] \in NoProcess
    BY <1>6 DEF NoProcess
  <2> QED
    BY <1>7, <2>1, RestFrame
<1>20. ForkInv'
  <2>1. \A x \in Slots : state[x] = "USED" => state'[x] = "USED" /\ parent'[x] = parent[x]
    BY <1>4, <1>6
  <2> QED
    BY <1>7, <1>9, <1>10, <2>1, ForkFrame
<1>21. FamilyInv'
  <2>1. FamilyInv
    BY DEF IInv
  <2>2. \A x \in Slots : parent[x] # q
    BY <1>4, <1>12, <2>1, SlotFacts DEF FamilyInv
  <2>3. \A x \in Slots : parent[x] # Null => parent[x] \in Slots
    BY <1>1, SlotFacts DEF TypeOK
  <2>4. \A x \in Slots : parent'[x] # Null =>
          parent'[x] # x /\ state'[parent'[x]] \notin {"UNUSED", "USED", "ZOMBIE"}
    BY SMTT(300), <1>6, <2>1, <2>2, <2>3 DEF FamilyInv
  <2>5. \A x \in Slots :
          /\ state'[x] = "UNUSED" => parent'[x] = Null
          /\ x # initproc /\ state'[x] \notin {"UNUSED", "USED"} => parent'[x] # Null
    BY <1>4, <1>6, <1>12, <2>1 DEF FamilyInv
  <2>6. parent'[initproc] = Null
    BY <1>1, <1>6, <1>14, <2>1 DEF FamilyInv
  <2>7. \A d \in Cpu :
          cproc[d] # Null /\ pc'[cproc[d]] \in {"wakeup_parent", "zombie"} =>
            \A x \in Slots : parent'[x] # cproc[d]
    <3>1. \A x \in Slots : parent'[x] = Null \/ parent'[x] = parent[x]
      BY <1>6
    <3>2. \A d \in Cpu :
            cproc[d] # Null /\ pc'[cproc[d]] \in {"wakeup_parent", "zombie"} =>
              pc[cproc[d]] \in {"wakeup_parent", "zombie"}
      BY <1>7, <1>12 DEF Moves
    <3> QED
      BY SMTT(300), <2>1, <3>1, <3>2 DEF FamilyInv
  <2> QED
    BY <1>1, <2>4, <2>5, <2>6, <2>7 DEF FamilyInv
<1>22. InitInv'
  BY <1>1, <1>6, <1>7, <1>9, <1>10, <1>14, InitFrame
<1>23. WakeupInv' /\ PassedInv' /\ ScanInv'
  <2>1. \A x \in Slots : state[x] = "RUNNING" => parent'[x] = parent[x]
    BY <1>4, <1>6
  <2>2. \A x \in Slots : state'[x] = "ZOMBIE"
                           => state[x] = "ZOMBIE" /\ parent'[x] = parent[x]
    BY <1>4, <1>6
  <2>3. \A x \in Slots : state'[x] = "SLEEPING" /\ chan'[x] = x
                           => state[x] = "SLEEPING" /\ chan[x] = x
    BY <1>6
  <2> QED
    BY <1>7, <1>8, <2>1, <2>2, <2>3, BedFrame
<1> QED
  BY <1>15, <1>16, <1>17, <1>18, <1>19, <1>20, <1>21, <1>22, <1>23 DEF IInv

\* The end of a scan of kwait() preserves IInv: it returns, or goes on to sleep().
LEMMA ScanEndInv ==
  ASSUME IInv, TypeOK', NEW c \in Cpu, NEW p \in Slots, ScanEnd(c, p)
  PROVE  IInv'
<1>1. /\ TypeOK /\ cproc[c] = p /\ pc[p] = "scanned"
      /\ UNCHANGED <<state, pid, parent, chan, killed, plock, cproc, idx, np, kpid>>
  BY DEF IInv, ScanEnd, At, table, cpus
<1>2. PICK l \in {"ret", "sleep"} :
        /\ pc' = [pc EXCEPT ![p] = l]
        /\ l = "ret" => wait_lock' = NoCpu
        /\ l = "sleep" => wait_lock' = wait_lock
  BY DEF ScanEnd, Goto
<1>3. Moves(c, p, "scanned", l)
  BY <1>1, <1>2, MovesFact
<1>4. OnlyAt(idx, p) /\ OnlyAt(np, p)
  BY <1>1 DEF OnlyAt
<1>5. /\ "scanned" \notin ForkLabels /\ l \notin ForkLabels
      /\ "scanned" \notin HoldsP /\ l \notin HoldsP
      /\ "scanned" \in HoldsWait /\ (l \in HoldsWait <=> l = "sleep")
      /\ l \notin ExitLabels
  BY <1>2 DEF ForkLabels, HoldsP, HoldsWait, ExitLabels
<1>6. /\ StateAt(l) = StateAt("scanned") /\ l # "fork_copy" /\ l # "dead" /\ l # "panic"
      /\ l \notin {"sleep_set", "zombie", "wakeup_parent", "scan"}
  BY <1>2 DEF StateAt
<1>7. CpuInv' /\ RunInv' /\ RestInv' /\ ForkInv' /\ NoPanic'
  BY <1>1, <1>3, <1>4, <1>5, <1>6, PlainFrame
<1>8. PLockInv'
  BY <1>1, <1>3, <1>4, <1>5, <1>6, PLockFrame
<1>9. WaitLockInv'
  <2>1. CASE l = "ret"
    BY <1>2, <1>3, <1>5, <2>1, WaitDrop
  <2>2. CASE l = "sleep"
    BY <1>2, <1>3, <1>5, <2>2, WaitFrame
  <2> QED
    BY <1>2, <2>1, <2>2
<1>10. FamilyInv'
  BY <1>1, <1>3, <1>6, FamilyFrame
<1>11. InitInv'
  BY <1>1, <1>3, <1>4, <1>5, InitFrame
<1>12. WakeupInv' /\ PassedInv' /\ ScanInv'
  BY <1>1, <1>3, <1>4, <1>6, BedFrame
<1> QED
  BY <1>7, <1>8, <1>9, <1>10, <1>11, <1>12 DEF IInv

-----------------------------------------------------------------------------
(* sleep()                                                                 *)

\* sleep() taking p->lock preserves IInv.
LEMMA SleepAcquireInv ==
  ASSUME IInv, TypeOK', NEW c \in Cpu, NEW p \in Slots, SleepAcquire(c, p)
  PROVE  IInv'
<1>1. /\ TypeOK /\ cproc[c] = p /\ pc[p] = "sleep" /\ plock[p] = NoCpu
      /\ UNCHANGED <<state, pid, parent, chan, killed, wait_lock, cproc, idx, np, kpid>>
  BY DEF IInv, SleepAcquire, At, Free, table, cpus, locals
<1>2. pc' = [pc EXCEPT ![p] = "sleep_rel"] /\ plock' = [plock EXCEPT ![p] = c]
  BY DEF SleepAcquire, Goto
<1>3. Moves(c, p, "sleep", "sleep_rel")
  BY <1>1, <1>2, MovesFact
<1>4. OnlyAt(idx, p) /\ OnlyAt(np, p)
  BY <1>1 DEF OnlyAt
<1>5. /\ "sleep" \notin ForkLabels /\ "sleep_rel" \notin ForkLabels
      /\ "sleep" \in HoldsWait /\ "sleep_rel" \in HoldsWait
      /\ "sleep_rel" \in HoldsP /\ "sleep_rel" \notin ExitLabels
  BY DEF ForkLabels, HoldsP, HoldsWait, ExitLabels
<1>6. StateAt("sleep_rel") = StateAt("sleep")
  BY DEF StateAt
<1>7. CpuInv' /\ RunInv' /\ RestInv' /\ ForkInv' /\ NoPanic'
  BY <1>1, <1>3, <1>4, <1>5, <1>6, PlainFrame
<1>8. PLockInv'
  BY <1>1, <1>2, <1>3, <1>4, <1>5, PLockTake
<1>9. WaitLockInv'
  BY <1>1, <1>3, <1>5, WaitFrame
<1>10. FamilyInv'
  BY <1>1, <1>3, FamilyFrame
<1>11. InitInv'
  BY <1>1, <1>3, <1>4, <1>5, InitFrame
<1>12. WakeupInv' /\ PassedInv' /\ ScanInv'
  BY <1>1, <1>3, <1>4, BedFrame
<1> QED
  BY <1>7, <1>8, <1>9, <1>10, <1>11, <1>12 DEF IInv

\* sleep() releasing wait_lock preserves IInv: the scan that ended before it found
\* no zombie, and nobody became one under wait_lock.
LEMMA SleepReleaseInv ==
  ASSUME IInv, TypeOK', NEW c \in Cpu, NEW p \in Slots, SleepRelease(c, p)
  PROVE  IInv'
<1>1. /\ TypeOK /\ cproc[c] = p /\ pc[p] = "sleep_rel" /\ wait_lock' = NoCpu
      /\ UNCHANGED <<state, pid, parent, chan, killed, plock, cproc, idx, np, kpid>>
  BY DEF IInv, SleepRelease, At, table, cpus, locals
<1>2. pc' = [pc EXCEPT ![p] = "sleep_set"]
  BY DEF SleepRelease, Goto
<1>3. Moves(c, p, "sleep_rel", "sleep_set")
  BY <1>1, <1>2, MovesFact
<1>4. OnlyAt(idx, p) /\ OnlyAt(np, p)
  BY <1>1 DEF OnlyAt
<1>5. /\ "sleep_rel" \notin ForkLabels /\ "sleep_set" \notin ForkLabels
      /\ "sleep_rel" \in HoldsWait /\ "sleep_set" \notin HoldsWait
      /\ "sleep_rel" \in HoldsP /\ "sleep_set" \in HoldsP /\ "sleep_set" \notin ExitLabels
      /\ "wakeup_init" \in HoldsWait
  BY DEF ForkLabels, HoldsP, HoldsWait, ExitLabels
<1>6. StateAt("sleep_set") = StateAt("sleep_rel")
  BY DEF StateAt
<1>7. CpuInv' /\ RunInv' /\ RestInv' /\ ForkInv' /\ NoPanic'
  BY <1>1, <1>3, <1>4, <1>5, <1>6, PlainFrame
<1>8. PLockInv'
  BY <1>1, <1>3, <1>4, <1>5, PLockFrame
<1>9. WaitLockInv'
  BY <1>1, <1>3, <1>5, WaitDrop
<1>10. FamilyInv'
  BY <1>1, <1>3, FamilyFrame
<1>11. InitInv'
  BY <1>1, <1>3, <1>4, <1>5, InitFrame
<1>12. \A d \in Cpu : cproc[d] # Null /\ pc[cproc[d]] \in HoldsWait => d = c
  BY <1>1, <1>5, OneWaiter
<1>13. WakeupInv'
  <2> SUFFICES ASSUME NEW x \in Slots, state[x] = "ZOMBIE", parent[x] # Null,
                      Bedding(parent[x])'
               PROVE  FALSE
    BY <1>1 DEF WakeupInv
  <2>1. PICK y \in Slots : y = parent[x] /\ y = parent'[x]
    BY <1>1, SlotFacts DEF TypeOK
  <2>2. CASE y = p
    <3>1. cproc[c] # Null /\ parent[x] = cproc[c]
      BY <1>1, <2>1, <2>2
    <3> QED
      BY <1>1, <3>1 DEF IInv, ScanInv
  <2>3. CASE y # p
    <3>1. Bedding(y)'
      BY <2>1
    <3>2. pc'[y] = pc[y]
      BY <1>3, <2>3 DEF Moves
    <3>3. Bedding(y)
      BY <1>1, <3>1, <3>2 DEF Bedding
    <3>4. PICK d \in Cpu : cproc[d] # Null /\ pc[cproc[d]] = "wakeup_init"
      BY <2>1, <3>3 DEF IInv, WakeupInv
    <3> QED
      BY <1>1, <1>5, <1>12, <3>4
  <2> QED
    BY <2>2, <2>3
<1>14. PassedInv'
  BY SMTT(300), <1>3, <1>4, <1>12, PassedFrame
<1>15. ScanInv'
  BY <1>1, <1>3, <1>4, ScanFrame
<1> QED
  BY <1>7, <1>8, <1>9, <1>10, <1>11, <1>13, <1>14, <1>15 DEF IInv

\* sleep() setting chan and SLEEPING preserves IInv.
LEMMA SleepSetInv ==
  ASSUME IInv, TypeOK', NEW c \in Cpu, NEW p \in Slots, SleepSet(c, p)
  PROVE  IInv'
<1>1. /\ TypeOK /\ cproc[c] = p /\ pc[p] = "sleep_set" /\ initproc \in Slots
      /\ UNCHANGED <<pid, parent, killed, plock, wait_lock, cproc, idx, np, kpid>>
  BY SlotFacts DEF IInv, SleepSet, At, locks, cpus, locals
<1>2. /\ pc' = [pc EXCEPT ![p] = "sched_sleep"]
      /\ chan' = [chan EXCEPT ![p] = p] /\ state' = [state EXCEPT ![p] = "SLEEPING"]
  BY DEF SleepSet, Goto
<1>3. Moves(c, p, "sleep_set", "sched_sleep")
  BY <1>1, <1>2, MovesFact
<1>4. /\ state'[p] = "SLEEPING" /\ \A x \in Slots : x # p => state'[x] = state[x]
      /\ \A x \in Slots : x # p => chan'[x] = chan[x]
  BY <1>1, <1>2 DEF TypeOK
<1>5. OnlyAt(idx, p) /\ OnlyAt(np, p)
  BY <1>1 DEF OnlyAt
<1>6. /\ "sleep_set" \notin ForkLabels /\ "sched_sleep" \notin ForkLabels
      /\ "sleep_set" \notin HoldsWait /\ "sched_sleep" \notin HoldsWait
      /\ "sleep_set" \in HoldsP /\ "sched_sleep" \in HoldsP
      /\ "sched_sleep" \notin ExitLabels
  BY DEF ForkLabels, HoldsP, HoldsWait, ExitLabels
<1>7. state[p] = "RUNNING" /\ StateAt("sched_sleep") = "SLEEPING"
  BY <1>1, StateOfPlace DEF StateAt
<1>8. /\ \A d \in Cpu : cproc[d] # Null => cproc[d] \in Slots
      /\ \A d \in Cpu : d # c => cproc[d] # p
  BY <1>1, OneCpu
<1>9. \A x \in Slots : Bedding(x)' => Bedding(x)
  <2>1. \A x \in Slots : x # p => pc'[x] = pc[x]
    BY <1>3 DEF Moves
  <2> QED
    BY <1>1, <1>4, <2>1 DEF Bedding
<1>10. \A x \in Slots : state'[x] = "ZOMBIE"
                          => state[x] = "ZOMBIE" /\ parent'[x] = parent[x]
  BY <1>1, <1>4
<1>11. CpuInv' /\ NoPanic'
  BY <1>3, CpuFrame, PanicFrame
<1>12. PLockInv' /\ WaitLockInv'
  BY <1>1, <1>3, <1>5, <1>6, PLockFrame, WaitFrame
<1>13. RunInv'
  BY <1>3, <1>4, <1>7, <1>8, RunFrame
<1>14. RestInv'
  BY <1>3, <1>4, RestFrame
<1>15. ForkInv'
  BY <1>1, <1>3, <1>4, <1>5, <1>6, <1>7, ForkFrame
<1>16. FamilyInv'
  <2>1. \A x \in Slots : \/ state'[x] = state[x]
                         \/ state[x] \notin NoProcess /\ state'[x] \notin NoProcess
    BY <1>4, <1>7 DEF NoProcess
  <2> QED
    BY <1>1, <1>3, <2>1, FamilyFrame
<1>17. InitInv'
  <2>1. state'[initproc] = state[initproc] \/ state'[initproc] \notin NoProcess
    BY <1>1, <1>4 DEF NoProcess
  <2> QED
    BY <1>1, <1>3, <1>5, <1>6, <2>1, InitFrame
<1>18. WakeupInv' /\ ScanInv'
  BY <1>3, <1>5, <1>9, <1>10, WakeupFrame, ScanFrame
<1>19. PassedInv'
  BY SMTT(300), <1>1, <1>3, <1>5, <1>9, PassedFrame
<1> QED
  BY <1>11, <1>12, <1>13, <1>14, <1>15, <1>16, <1>17, <1>18, <1>19 DEF IInv

\* The end of sleep() preserves IInv.
LEMMA SleepWakeInv ==
  ASSUME IInv, TypeOK', NEW c \in Cpu, NEW p \in Slots, SleepWake(c, p)
  PROVE  IInv'
<1>1. /\ TypeOK /\ cproc[c] = p /\ pc[p] = "slept" /\ pc' = [pc EXCEPT ![p] = "rewait"]
      /\ UNCHANGED <<state, pid, parent, killed, wait_lock, cproc, idx, np, kpid>>
  BY DEF IInv, SleepWake, At, Goto, cpus, locals
<1>2. chan' = [chan EXCEPT ![p] = Null] /\ plock' = [plock EXCEPT ![p] = NoCpu]
  BY DEF SleepWake
<1>3. Moves(c, p, "slept", "rewait")
  BY <1>1, MovesFact
<1>4. OnlyAt(idx, p) /\ OnlyAt(np, p)
  BY <1>1 DEF OnlyAt
<1>5. /\ "slept" \notin ForkLabels /\ "rewait" \notin ForkLabels
      /\ "slept" \notin HoldsWait /\ "rewait" \notin HoldsWait
      /\ "slept" \in HoldsP /\ "rewait" \notin HoldsP /\ "rewait" \notin ExitLabels
  BY DEF ForkLabels, HoldsP, HoldsWait, ExitLabels
<1>6. StateAt("rewait") = StateAt("slept") /\ StateAt("slept") = "RUNNING"
  BY DEF StateAt
<1>7. state[p] = "RUNNING"
  BY <1>1, <1>6, StateOfPlace
<1>8. \A x \in Slots : state'[x] = "SLEEPING" /\ chan'[x] = x
                         => state[x] = "SLEEPING" /\ chan[x] = x
  BY <1>1, <1>2, <1>7 DEF TypeOK
<1>9. CpuInv' /\ RunInv' /\ RestInv' /\ ForkInv' /\ NoPanic'
  BY <1>1, <1>3, <1>4, <1>5, <1>6, PlainFrame
<1>10. PLockInv'
  BY <1>2, <1>3, <1>4, <1>5, PLockDrop
<1>11. WaitLockInv'
  BY <1>1, <1>3, <1>5, WaitFrame
<1>12. FamilyInv'
  BY <1>1, <1>3, FamilyFrame
<1>13. InitInv'
  BY <1>1, <1>3, <1>4, <1>5, InitFrame
<1>14. WakeupInv' /\ PassedInv' /\ ScanInv'
  BY <1>1, <1>3, <1>4, <1>8, BedFrame
<1> QED
  BY <1>9, <1>10, <1>11, <1>12, <1>13, <1>14 DEF IInv

-----------------------------------------------------------------------------
(* kkill()                                                                 *)

\* kkill() finding its process preserves IInv.
LEMMA KillHitInv ==
  ASSUME IInv, TypeOK', NEW c \in Cpu, NEW p \in Slots, KillScan(c, p),
         pid[idx[p]] = kpid[p]
  PROVE  IInv'
<1>1. /\ TypeOK /\ cproc[c] = p /\ pc[p] = "kill" /\ initproc \in Slots
      /\ UNCHANGED <<pid, parent, chan, plock, wait_lock, cproc, np>>
  BY SlotFacts DEF IInv, KillScan, At, locks, cpus
<1>2. PICK q \in Slots : q = idx[p]
  BY <1>1 DEF TypeOK
<1>3. plock[q] = NoCpu /\ pid[q] = kpid[p]
  BY <1>2 DEF KillScan, Free
<1>4. /\ killed' = [killed EXCEPT ![q] = 1]
      /\ state' = [state EXCEPT ![q] = IF @ = "SLEEPING" THEN "RUNNABLE" ELSE @]
      /\ kpid' = [kpid EXCEPT ![p] = 0]
      /\ pc' = [pc EXCEPT ![p] = "ret"] /\ idx' = [idx EXCEPT ![p] = 1]
  BY <1>2 DEF KillScan, Loop, Goto
<1>8. \A x \in Slots :
        \/ state'[x] = state[x]
        \/ x = q /\ state[x] = "SLEEPING" /\ state'[x] = "RUNNABLE"
  BY <1>1, <1>4 DEF TypeOK
<1>9. Moves(c, p, "kill", "ret")
  BY <1>1, <1>4, MovesFact
<1>10. OnlyAt(idx, p) /\ OnlyAt(np, p)
  BY <1>1, <1>4 DEF OnlyAt, TypeOK
<1>11. /\ "kill" \notin ForkLabels /\ "ret" \notin ForkLabels
       /\ "kill" \notin HoldsWait /\ "ret" \notin HoldsWait
       /\ "kill" \notin HoldsP /\ "ret" \notin HoldsP /\ "ret" \notin ExitLabels
  BY DEF ForkLabels, HoldsP, HoldsWait, ExitLabels
<1>12. state[p] = "RUNNING" /\ StateAt("ret") = "RUNNING"
  BY <1>1, StateOfPlace DEF StateAt
<1>13. \A d \in Cpu : cproc[d] # Null => cproc[d] \in Slots
  BY <1>1, OneCpu
<1>14. state[q] = "SLEEPING" => \A d \in Cpu : cproc[d] # q
  BY <1>3, FreeIsAway
<1>15. CpuInv' /\ NoPanic'
  BY <1>9, CpuFrame, PanicFrame
<1>16. PLockInv' /\ WaitLockInv'
  BY <1>1, <1>9, <1>10, <1>11, PLockFrame, WaitFrame
<1>17. RunInv'
  <2>1. state'[p] = StateAt("ret")
    BY <1>8, <1>12
  <2>2. \A d \in Cpu : d # c /\ cproc[d] # Null => state'[cproc[d]] = state[cproc[d]]
    BY <1>8, <1>13, <1>14
  <2> QED
    BY <1>9, <2>1, <2>2, RunFrame
<1>18. RestInv'
  BY <1>8, <1>9, RestFrame
<1>19. ForkInv'
  <2>1. \A x \in Slots : state[x] = "USED" => state'[x] = "USED"
    BY <1>8
  <2> QED
    BY <1>1, <1>9, <1>10, <1>11, <2>1, ForkFrame
<1>20. FamilyInv'
  <2>1. \A x \in Slots : \/ state'[x] = state[x]
                         \/ state[x] \notin NoProcess /\ state'[x] \notin NoProcess
    BY <1>8 DEF NoProcess
  <2> QED
    BY <1>1, <1>9, <2>1, FamilyFrame
<1>21. InitInv'
  <2>1. state'[initproc] = state[initproc] \/ state'[initproc] \notin NoProcess
    BY <1>1, <1>8 DEF NoProcess
  <2> QED
    BY <1>9, <1>11, <2>1, InitFrame
<1>22. WakeupInv' /\ PassedInv' /\ ScanInv'
  <2>1. \A x \in Slots : state'[x] \in {"ZOMBIE", "SLEEPING"} => state[x] = state'[x]
    BY <1>8
  <2> QED
    BY <1>1, <1>9, <1>10, <2>1, BedFrame
<1> QED
  BY <1>15, <1>16, <1>17, <1>18, <1>19, <1>20, <1>21, <1>22 DEF IInv

-----------------------------------------------------------------------------
(* All steps                                                               *)

\* Every step of the kernel preserves IInv.
LEMMA InvNext == IInv /\ [Next]_vars => IInv'
<1> SUFFICES ASSUME IInv, [Next]_vars PROVE IInv'
  OBVIOUS
<1>0. TypeOK'
  BY TypeNext DEF IInv
<1>1. ASSUME NEW c \in Cpu, Scheduler(c) PROVE IInv'
  BY <1>0, <1>1, SchedSkipInv, SchedPickInv DEF Scheduler
<1>2. ASSUME NEW c \in Cpu, NEW p \in Slots, User(c, p) PROVE IInv'
  BY <1>0, <1>2, SyscallInv, ReturnInv, FaultInv DEF User
<1>3. ASSUME NEW c \in Cpu, NEW p \in Slots, Kernel(c, p) PROVE IInv'
  <2>1. CASE Sched(c, p) \/ Yield(c, p) \/ Resume(c, p) \/ Return(c, p)
    BY <1>0, <2>1, SchedInv, YieldInv, ResumeInv, ReturnInv
  <2>2. CASE AllocProc(c, p)
    BY <1>0, <2>2, AllocFoundInv, PassInv
  <2>3. CASE ForkFail(c, p) \/ ForkCopy(c, p) \/ ForkParent(c, p) \/ ForkRun(c, p)
    BY <1>0, <2>3, ForkFailInv, ForkCopyInv, ForkParentInv, ForkRunInv
  <2>4. CASE ExitStart(c, p) \/ Reparent(c, p) \/ ExitWakeup(c, p) \/ ExitZombie(c, p)
    BY <1>0, <2>4, ExitStartInv, ReparentInv, ExitWakeupInv, ExitZombieInv
  <2>5. CASE WaitAcquire(c, p) \/ ScanSkip(c, p) \/ ScanReap(c, p) \/ ScanEnd(c, p)
    BY <1>0, <2>5, WaitAcquireInv, ScanSkipInv, ScanReapInv, ScanEndInv
  <2>6. CASE \/ SleepAcquire(c, p) \/ SleepRelease(c, p)
             \/ SleepSet(c, p) \/ SleepWake(c, p)
    BY <1>0, <2>6, SleepAcquireInv, SleepReleaseInv, SleepSetInv, SleepWakeInv
  <2>7. CASE KillScan(c, p)
    BY <1>0, <2>7, KillHitInv, PassInv
  <2> QED
    BY <1>3, <2>1, <2>2, <2>3, <2>4, <2>5, <2>6, <2>7 DEF Kernel
<1>4. CASE UNCHANGED vars
  <2>1. UNCHANGED <<table, locks, cproc, pc, locals>>
    BY <1>4 DEF vars, cpus
  <2> QED
    BY <1>0, <2>1, StutterInv
<1> QED
  BY <1>1, <1>2, <1>3, <1>4 DEF Next

\* The inductive invariant holds in every reachable state.
THEOREM Invariant == Spec => []IInv
BY InvInit, InvNext, PTL DEF Spec

-----------------------------------------------------------------------------
(* The order of the locks                                                  *)

\* A CPU that holds a p->lock is not about to acquire() a lock: no code of proc.c
\* takes a lock under a p->lock.
LEMMA HolderRuns ==
  ASSUME IInv, NEW e \in Cpu, NEW q \in Slots, plock[q] = e
  PROVE  BlockedBy(e) = NoCpu
<1>1. cproc[e] # Null /\ (pc[cproc[e]] \in HoldsP \/ pc[cproc[e]] = "fork_copy")
  BY DEF IInv, PLockInv
<1> QED
  BY <1>1 DEF BlockedBy, HoldsP

\* A CPU waits for nothing, for wait_lock or for some p->lock; and it waits for
\* wait_lock only where it holds no wait_lock.
LEMMA WaitsFor ==
  ASSUME IInv, NEW c \in Cpu
  PROVE  \/ BlockedBy(c) = NoCpu
         \/ BlockedBy(c) = wait_lock /\ wait_lock # c
         \/ \E q \in Slots : BlockedBy(c) = plock[q]
<1>1. TypeOK /\ WaitLockInv
  BY DEF IInv
<1>2. CASE cproc[c] = Null
  BY <1>1, <1>2 DEF BlockedBy, TypeOK
<1>3. CASE cproc[c] # Null
  <2>1. PICK p \in Slots : p = cproc[c]
    BY <1>1, <1>3, SlotFacts DEF TypeOK
  <2>2. idx[p] \in Slots
    BY <1>1 DEF TypeOK
  <2>3. pc[p] = "fork_run" => np[p] \in Slots
    BY <1>3, <2>1 DEF IInv, ForkInv, ForkLabels
  <2>4. pc[p] \in {"exit", "wait", "rewait", "fork_parent"} => wait_lock # c
    BY <1>1, <2>1 DEF WaitLockInv, HoldsWait
  <2> QED
    BY <1>3, <2>1, <2>2, <2>3, <2>4 DEF BlockedBy
<1> QED
  BY <1>2, <1>3

\* The holder of wait_lock waits for nothing or for some p->lock.
LEMMA WaitHolder ==
  ASSUME IInv, NEW e \in Cpu, wait_lock = e
  PROVE  BlockedBy(e) = NoCpu \/ \E q \in Slots : BlockedBy(e) = plock[q]
BY WaitsFor, ProcAssumption

-----------------------------------------------------------------------------
(* The safety properties                                                   *)

\* wait_lock before p->lock, and one p->lock at a time: no set of CPUs, however
\* large, waits in a circle for locks of proc.c.
THEOREM ProcNeverDeadlocks == Spec => []NoDeadlock
<1>1. ASSUME IInv PROVE NoDeadlock
  <2> SUFFICES ASSUME NEW S \in SUBSET Cpu, NEW c \in S,
                      \A d \in S : BlockedBy(d) \in S
               PROVE  FALSE
    BY DEF NoDeadlock
  <2>1. NoCpu \notin S /\ \A d \in S : BlockedBy(d) \in Cpu
    BY ProcAssumption
  <2>2. ASSUME NEW d \in S, NEW q \in Slots, BlockedBy(d) = plock[q] PROVE FALSE
    <3>1. PICK e \in S : e = plock[q]
      BY <2>2
    <3>2. BlockedBy(e) = NoCpu
      BY <1>1, <3>1, HolderRuns
    <3> QED
      BY <2>1, <3>2
  <2>3. BlockedBy(c) = wait_lock
    BY <1>1, <2>1, <2>2, WaitsFor
  <2>4. PICK e \in S : e = wait_lock
    BY <2>3
  <2> QED
    BY <1>1, <2>1, <2>2, <2>4, WaitHolder
<1> QED
  BY <1>1, Invariant, PTL

\* Two CPUs never run on the same kernel stack, for any number of CPUs and slots.
THEOREM StackSafe == Spec => []StackExclusive
<1>1. ASSUME IInv PROVE StackExclusive
  <2> SUFFICES ASSUME NEW c \in Cpu, NEW p \in Slots, cproc[c] = p
               PROVE  /\ \A d \in Cpu : cproc[d] = p => d = c
                      /\ state[p] # "RUNNING" => plock[p] = c
    BY SlotFacts, <1>1 DEF IInv, TypeOK, StackExclusive
  <2>1. p # Null /\ \A d \in Cpu : d # c => cproc[d] # p
    BY <1>1, OneCpu
  <2>2. state[p] # "RUNNING" => pc[p] \in HoldsP
    BY <1>1, StateOfPlace DEF StateAt, HoldsP
  <2>3. pc[p] \in HoldsP => plock[p] = c
    BY <1>1, <2>1 DEF IInv, PLockInv
  <2> QED
    BY <2>1, <2>2, <2>3
<1> QED
  BY <1>1, Invariant, PTL

\* No wakeup of a parent in kwait() is ever lost.
THEOREM WakeupSafe == Spec => []NoLostWakeup
<1>1. IInv => NoLostWakeup
  <2> SUFFICES ASSUME IInv, wait_lock = NoCpu, NEW q \in Slots, state[q] = "ZOMBIE",
                      parent[q] # Null, Bedding(parent[q])
               PROVE  FALSE
    BY DEF NoLostWakeup, Bedding
  <2>1. PICK d \in Cpu : cproc[d] # Null /\ pc[cproc[d]] = "wakeup_init"
    BY DEF IInv, WakeupInv
  <2>2. wait_lock = d
    BY <2>1 DEF IInv, WaitLockInv, HoldsWait
  <2> QED
    BY <2>2, ProcAssumption
<1> QED
  BY <1>1, Invariant, PTL

\* Every process has a living parent to reap it.
THEOREM OrphanSafe == Spec => []NoOrphan
<1>1. IInv => NoOrphan
  BY DEF IInv, FamilyInv, NoOrphan
<1> QED
  BY <1>1, Invariant, PTL

\* The kernel reaches none of the panics of sched(), and no process runs on after
\* kexit() made it a zombie ("zombie exit"), whoever is killed, init included.
THEOREM PanicFree == Spec => []NoPanic
<1>1. IInv => NoPanic
  BY DEF IInv
<1> QED
  BY <1>1, Invariant, PTL
=============================================================================
