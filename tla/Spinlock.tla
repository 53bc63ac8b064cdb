------------------------------ MODULE Spinlock ------------------------------
(***************************************************************************)
(* kernel/spinlock.c with what it depends on: the interrupt-enable bit of  *)
(* each CPU, device interrupts that run handlers taking locks themselves,  *)
(* and the switches between kernel threads and scheduler() in proc.c that  *)
(* carry a held p->lock, and p's intena, from one context to another.      *)
(*                                                                         *)
(* acquire() and release() are split at every access to shared state.      *)
(* Their callers are any code that takes a lock m while it holds l only    *)
(* where Nests has the pair <<l, m>>; Nests has no cycle.  KernelNests     *)
(* below lists the nestings of the kernel.                                 *)
(***************************************************************************)
EXTENDS Integers, FiniteSets

CONSTANTS Cpu,      \* harts
          Thread,   \* kernel threads; t also names the lock p->lock of t
          Dev,      \* other locks, taken by threads and by handlers
          Nests,    \* <<l, m>>: m may be acquired by code that holds l
          None      \* no CPU, no lock

ASSUME SpinlockAssumption ==
  /\ Cpu \cap Thread = {} /\ Thread \cap Dev = {} /\ Cpu \cap Dev = {}
  /\ None \notin Cpu \cup Thread \cup Dev
  /\ \A c \in Cpu : <<c>> \notin Cpu \cup Thread \cup Dev

ASSUME NestsAssumption ==
  \A L \in SUBSET (Thread \cup Dev) : L # {} =>
    \E l \in L : \A m \in L : <<l, m>> \notin Nests

VARIABLES locked, lcpu,        \* lk->locked, lk->cpu
          intr,                \* sstatus.SIE of a CPU
          noff, intena,        \* mycpu()->noff, mycpu()->intena
          cur,                 \* the thread on a CPU, or the CPU for scheduler()
          irq,                 \* 1 while a handler has interrupted that context
          pc, lk,              \* of a context: place, and lock it works on
          held,                \* of a context: the locks it holds
          saved,               \* of a thread: local intena of sched(), or None
          ready,               \* of a thread: state is RUNNABLE
          found,               \* of a CPU: local found of scheduler()
          base                 \* of a thread: SIE outside critical sections

spin  == <<locked, lcpu>>
cpu   == <<intr, noff, intena>>
where == <<cur, irq>>
ctx   == <<pc, lk, held>>
sw    == <<saved, ready, found, base>>
vars  == <<spin, cpu, where, ctx, sw>>

Lock    == Thread \cup Dev
Irq(c)  == <<c>>                          \* the handler context of CPU c
Context == Cpu \cup Thread \cup {Irq(c) : c \in Cpu}

Labels == {"run", "check", "spin", "own", "unlock", "pop", "on", "panic"}

Init ==
  /\ locked = [l \in Lock |-> 0]
  /\ lcpu   = [l \in Lock |-> None]
  /\ intr   = [c \in Cpu |-> 0]
  /\ noff   = [c \in Cpu |-> 0]
  /\ intena = [c \in Cpu |-> 0]
  /\ cur    = [c \in Cpu |-> c]
  /\ irq    = [c \in Cpu |-> 0]
  /\ pc     = [x \in Context |-> "run"]
  /\ lk     = [x \in Context |-> None]
  /\ held   = [x \in Context |-> {}]
  /\ saved  = [t \in Thread |-> None]
  /\ ready  = [t \in Thread |-> 1]
  /\ found  = [c \in Cpu |-> 0]
  /\ base   = [t \in Thread |-> 0]

\* The context CPU c executes, at label l.
Active(c)   == IF irq[c] = 1 THEN Irq(c) ELSE cur[c]
At(c, x, l) == x = Active(c) /\ pc[x] = l
Goto(x, l)  == pc' = [pc EXCEPT ![x] = l]

\* holding(): the lock is taken and lk->cpu is this CPU.
holding(c, l) == locked[l] = 1 /\ lcpu[l] = c

-----------------------------------------------------------------------------
(* The nestings of the kernel, by the names that initlock() is given *)

\* allocproc(), kfork(), freeproc() and kwait(): p->lock is held while a pid, a
\* page, a file or an inode is taken or given back, and under wait_lock.
ProcNests ==
  {<<"wait_lock", "proc">>, <<"wait_lock", "kmem">>}
    \cup {"proc"} \X {"nextpid", "kmem", "ftable", "itable"}

\* sleep() takes p->lock before it gives up lk, and wakeup() takes every p->lock;
\* both are called with the lock of the condition.  So is killed().
SleepNests ==
  {"wait_lock", "time", "cons", "uart", "pipe", "log", "sleep lock"} \X {"proc"}

\* The copies to and from user memory of pipes and of the console may fault in a
\* page, and procdump() prints.
CopyNests == {"pipe", "cons"} \X {"kmem"} \cup {<<"cons", "pr">>}

\* log_write() pins its buffer.
LogNests == {<<"log", "bcache">>}

\* iput() also acquires a sleep lock's spinlock under itable.lock.  It does so
\* with ref = 1, when nobody else can ask for that lock, and so waits for nobody.
KernelNests == ProcNests \cup SleepNests \cup CopyNests \cup LogNests

\* The kernel has a lock order: no chain of its nestings comes back.
KernelOrder ==
  LET Names == {n[1] : n \in KernelNests} \cup {n[2] : n \in KernelNests} IN
  \A L \in SUBSET Names : L # {} => \E l \in L : \A m \in L : <<l, m>> \notin KernelNests

-----------------------------------------------------------------------------
(* push_off(), acquire() *)

\* Seeded fault: interrupts stay enabled.
push_off_NoIntrOff(c) ==
  /\ intena' = [intena EXCEPT ![c] = IF noff[c] = 0 THEN intr[c] ELSE @]
  /\ noff'   = [noff EXCEPT ![c] = @ + 1]
  /\ UNCHANGED intr

push_off(c) ==
  /\ intr'   = [intr EXCEPT ![c] = 0]
  /\ intena' = [intena EXCEPT ![c] = IF noff[c] = 0 THEN intr[c] ELSE @]
  /\ noff'   = [noff EXCEPT ![c] = @ + 1]

\* The scheduler scans proc[], one p->lock at a time.
Acquire(c, x, l) ==
  /\ At(c, x, "run")
  /\ \A h \in held[x] : <<h, l>> \in Nests
  /\ x \in Cpu => l \in Thread /\ held[x] = {}
  /\ push_off(c)
  /\ lk' = [lk EXCEPT ![x] = l]
  /\ Goto(x, "check")
  /\ UNCHANGED <<spin, where, held, sw>>

AcquireCheck(c, x) ==
  /\ At(c, x, "check")
  /\ Goto(x, IF holding(c, lk[x]) THEN "panic" ELSE "spin")
  /\ UNCHANGED <<spin, cpu, where, lk, held, sw>>

\* Seeded fault: a plain store instead of the atomic swap.
AcquireSwap_NoTest(c, x) ==
  /\ At(c, x, "spin")
  /\ locked' = [locked EXCEPT ![lk[x]] = 1]
  /\ Goto(x, "own")
  /\ UNCHANGED <<lcpu, cpu, where, lk, held, sw>>

\* The swap that finds the lock free.
AcquireSwap(c, x) ==
  /\ At(c, x, "spin")
  /\ locked[lk[x]] = 0
  /\ locked' = [locked EXCEPT ![lk[x]] = 1]
  /\ Goto(x, "own")
  /\ UNCHANGED <<lcpu, cpu, where, lk, held, sw>>

AcquireOwn(c, x) ==
  /\ At(c, x, "own")
  /\ lcpu' = [lcpu EXCEPT ![lk[x]] = c]
  /\ held' = [held EXCEPT ![x] = @ \cup {lk[x]}]
  /\ lk' = [lk EXCEPT ![x] = None]
  /\ Goto(x, "run")
  /\ UNCHANGED <<locked, cpu, where, sw>>

-----------------------------------------------------------------------------
(* release(), pop_off() *)

Release(c, x, l) ==
  /\ At(c, x, "run")
  /\ l \in held[x]
  /\ IF holding(c, l)
     THEN /\ lcpu' = [lcpu EXCEPT ![l] = None]
          /\ held' = [held EXCEPT ![x] = @ \ {l}]
          /\ lk' = [lk EXCEPT ![x] = l]
          /\ Goto(x, "unlock")
     ELSE Goto(x, "panic") /\ UNCHANGED <<lcpu, held, lk>>
  /\ UNCHANGED <<locked, cpu, where, sw>>

ReleaseUnlock(c, x) ==
  /\ At(c, x, "unlock")
  /\ locked' = [locked EXCEPT ![lk[x]] = 0]
  /\ lk' = [lk EXCEPT ![x] = None]
  /\ Goto(x, "pop")
  /\ UNCHANGED <<lcpu, cpu, where, held, sw>>

pop_off(c, x) ==
  /\ At(c, x, "pop")
  /\ IF intr[c] = 1 \/ noff[c] < 1
     THEN Goto(x, "panic") /\ UNCHANGED <<intr, noff>>
     ELSE /\ noff' = [noff EXCEPT ![c] = @ - 1]
          /\ intr' = [intr EXCEPT ![c] = IF noff[c] = 1 /\ intena[c] = 1
                                         THEN 1 ELSE @]
          /\ Goto(x, "run")
  /\ UNCHANGED <<spin, intena, where, lk, held, sw>>

-----------------------------------------------------------------------------
(* Interrupts *)

\* usertrap() enables interrupts for a system call; a trap from user mode and
\* prepare_return() leave them disabled.
ThreadIntr(c, t) ==
  /\ At(c, t, "run")
  /\ held[t] = {}
  /\ intr' = [intr EXCEPT ![c] = 1 - @]
  /\ base' = [base EXCEPT ![t] = 1 - intr[c]]
  /\ UNCHANGED <<spin, noff, intena, where, ctx, saved, ready, found>>

\* A device interrupt enters the handler with interrupts disabled; sret enables
\* them again.
IntrEnter(c) ==
  /\ intr[c] = 1
  /\ irq' = [irq EXCEPT ![c] = 1]
  /\ intr' = [intr EXCEPT ![c] = 0]
  /\ UNCHANGED <<spin, noff, intena, cur, ctx, sw>>

IntrReturn(c) ==
  /\ At(c, Irq(c), "run")
  /\ held[Irq(c)] = {}
  /\ irq' = [irq EXCEPT ![c] = 0]
  /\ intr' = [intr EXCEPT ![c] = 1]
  /\ UNCHANGED <<spin, noff, intena, cur, ctx, sw>>

-----------------------------------------------------------------------------
(* scheduler() and sched() *)

\* The top of the loop of scheduler(): intr_on() ...
SchedIntrOn(c) ==
  /\ At(c, c, "run")
  /\ held[c] = {}
  /\ intr' = [intr EXCEPT ![c] = 1]
  /\ Goto(c, "on")
  /\ UNCHANGED <<spin, noff, intena, where, lk, held, sw>>

\* Seeded fault: no intr_off() before the scan.
SchedIntrOff_Skipped(c) ==
  /\ At(c, c, "on")
  /\ found' = [found EXCEPT ![c] = 0]
  /\ Goto(c, "run")
  /\ UNCHANGED <<spin, cpu, where, lk, held, saved, ready, base>>

\* ... intr_off(), found = 0.
SchedIntrOff(c) ==
  /\ At(c, c, "on")
  /\ intr' = [intr EXCEPT ![c] = 0]
  /\ found' = [found EXCEPT ![c] = 0]
  /\ Goto(c, "run")
  /\ UNCHANGED <<spin, noff, intena, where, lk, held, saved, ready, base>>

\* Seeded fault: intena is left to the CPU.
SwitchTo_NoRestore(c, t) ==
  /\ At(c, c, "run")
  /\ held[c] = {t}
  /\ ready[t] = 1
  /\ ready' = [ready EXCEPT ![t] = 0]
  /\ cur' = [cur EXCEPT ![c] = t]
  /\ held' = [held EXCEPT ![c] = {}, ![t] = {t}]
  /\ base' = [base EXCEPT ![t] = IF saved[t] = None THEN intena[c] ELSE @]
  /\ saved' = [saved EXCEPT ![t] = None]
  /\ UNCHANGED <<spin, intr, noff, intena, irq, pc, lk, found>>

\* swtch() to a runnable thread, with p->lock held.  A thread that was in
\* sched() restores its intena; a new one starts in forkret() and does not.
SwitchTo(c, t) ==
  /\ At(c, c, "run")
  /\ held[c] = {t}
  /\ ready[t] = 1
  /\ ready' = [ready EXCEPT ![t] = 0]
  /\ cur' = [cur EXCEPT ![c] = t]
  /\ held' = [held EXCEPT ![c] = {}, ![t] = {t}]
  /\ intena' = [intena EXCEPT ![c] = IF saved[t] = None THEN @ ELSE saved[t]]
  /\ base' = [base EXCEPT ![t] = IF saved[t] = None THEN intena[c] ELSE @]
  /\ saved' = [saved EXCEPT ![t] = None]
  /\ UNCHANGED <<spin, intr, noff, irq, pc, lk, found>>

\* sched() on behalf of a thread that holds its p->lock; scheduler() continues
\* after its swtch() with found = 1.
sched(c, t) ==
  /\ At(c, t, "run")
  /\ held[t] = {t}
  /\ IF holding(c, t) /\ noff[c] = 1 /\ intr[c] = 0
     THEN /\ saved' = [saved EXCEPT ![t] = intena[c]]
          /\ ready' = [ready EXCEPT ![t] = 1]
          /\ cur' = [cur EXCEPT ![c] = c]
          /\ held' = [held EXCEPT ![t] = {}, ![c] = {t}]
          /\ found' = [found EXCEPT ![c] = 1]
          /\ UNCHANGED pc
     ELSE Goto(t, "panic") /\ UNCHANGED <<saved, ready, cur, held, found>>
  /\ UNCHANGED <<spin, cpu, irq, lk, base>>

-----------------------------------------------------------------------------
Next == \E c \in Cpu :
  \/ \E x \in Context :
       \/ \E l \in Lock : Acquire(c, x, l) \/ Release(c, x, l)
       \/ AcquireCheck(c, x) \/ AcquireSwap(c, x) \/ AcquireOwn(c, x)
       \/ ReleaseUnlock(c, x) \/ pop_off(c, x)
  \/ \E t \in Thread : ThreadIntr(c, t) \/ SwitchTo(c, t) \/ sched(c, t)
  \/ IntrEnter(c) \/ IntrReturn(c) \/ SchedIntrOn(c) \/ SchedIntrOff(c)

Spec == Init /\ [][Next]_vars

-----------------------------------------------------------------------------
(* Properties *)

(* The nesting count noff never goes below zero, a thread that is switched to
   finds the intena that sched() saved for it, and every context is at a point
   of acquire, release, sched or a handler. *)
TypeOK ==
  /\ locked \in [Lock -> {0, 1}]
  /\ lcpu   \in [Lock -> Cpu \cup {None}]
  /\ intr   \in [Cpu -> {0, 1}]
  /\ noff   \in [Cpu -> Nat]
  /\ intena \in [Cpu -> {0, 1}]
  /\ cur    \in [Cpu -> Thread \cup Cpu]
  /\ irq    \in [Cpu -> {0, 1}]
  /\ pc     \in [Context -> Labels]
  /\ lk     \in [Context -> Lock \cup {None}]
  /\ held   \in [Context -> SUBSET Lock]
  /\ saved  \in [Thread -> {0, 1, None}]
  /\ ready  \in [Thread -> {0, 1}]
  /\ found  \in [Cpu -> {0, 1}]
  /\ base   \in [Thread -> {0, 1}]

\* The locks whose critical section context x is in: from the successful swap
\* of acquire() to the store of release() that frees the lock.
Owns(x) == held[x] \cup (IF pc[x] \in {"own", "unlock"} THEN {lk[x]} ELSE {})

\* Outside critical sections a thread has the interrupt state it chose, even
\* after being switched to another CPU whose intena belonged to somebody else.
IntrRestored ==
  \A c \in Cpu, t \in Thread :
    At(c, t, "run") /\ held[t] = {} => intr[c] = base[t]

\* scheduler() can only reach its wfi with interrupts disabled: interrupts that
\* a thread's intena turned on imply found = 1.
WfiSafe ==
  \A c \in Cpu :
    cur[c] = c /\ pc[c] = "run" /\ held[c] = {} /\ found[c] = 0 => intr[c] = 0

\* The contexts that are on CPU c, running or interrupted.
OnCpu(c) == {cur[c]} \cup (IF irq[c] = 1 THEN {Irq(c)} ELSE {})

\* CPU c spins on a lock that some CPU of S holds.
SpinsOn(c, S) ==
  LET x == Active(c) IN
  /\ pc[x] = "spin"
  /\ \E d \in S : \E y \in OnCpu(d) : lk[x] \in Owns(y)

\* No handler spins on a lock of the code it interrupted, and no CPUs spin on
\* each other's locks.
NoDeadlock ==
  \A S \in SUBSET Cpu : S # {} => \E c \in S : ~SpinsOn(c, S)

-----------------------------------------------------------------------------
(* Refinement: every lock is the CPU that owns it *)

ownerBar ==
  [l \in Lock |-> IF \E d \in Cpu : \E y \in OnCpu(d) : l \in Owns(y)
                  THEN CHOOSE d \in Cpu : \E y \in OnCpu(d) : l \in Owns(y)
                  ELSE None]

Abs == INSTANCE LockAbs WITH owner <- ownerBar

\* acquire() and release(), with handlers and context switches in between,
\* implement the lock that Proc and the other modules use.
ImplementsLock == Abs!Spec
=============================================================================
