-------------------------------- MODULE Proc --------------------------------
(***************************************************************************)
(* The process table of kernel/proc.c: the per-CPU scheduler, sched(),     *)
(* yield(), sleep()/wakeup(), kfork(), kexit(), kwait() and kkill(), with  *)
(* the trap entry and exit of usertrap() that checks p->killed.            *)
(*                                                                         *)
(* A spinlock is the CPU that holds it (lk->cpu), or NoCpu.  A critical    *)
(* section that takes one lock, touches only what the lock protects and    *)
(* drops it is one step, guarded by the lock being free; a lock that is    *)
(* held while another lock is taken, or across swtch(), is visible.        *)
(* User memory, open files, names and exit codes are left out here.        *)
(***************************************************************************)
EXTENDS Integers, FiniteSets

CONSTANTS NPROC,      \* slots of the table proc[]
          Cpu,        \* the harts that run scheduler()
          NoCpu,      \* value of a lock nobody holds
          MaxPid,     \* bound: kfork() is called while nextpid <= MaxPid
          KillPid     \* the arguments user programs give to kill()

ASSUME ProcAssumption ==
  /\ NPROC \in Nat \ {0}
  /\ NoCpu \notin Cpu
  /\ MaxPid \in Nat
  /\ KillPid \subseteq Nat

VARIABLES state,      \* p->state
          pid,        \* p->pid
          parent,     \* p->parent, 0 is the null pointer
          chan,       \* p->chan: the address of a slot, or 0
          killed,     \* p->killed
          nextpid,    \* next value allocpid() returns
          plock,      \* p->lock
          wait_lock,  \* wait_lock
          cproc,      \* c->proc, 0 while scheduler() runs on c
          sidx,       \* the loop variable of scheduler()
          pc,         \* where the kernel thread of a slot is
          idx,        \* the loop variable of the running kernel function
          np,         \* local np of kfork()
          havekids,   \* local havekids of kwait()
          kpid        \* argument of kkill()

table  == <<state, pid, parent, chan, killed, nextpid>>
locks  == <<plock, wait_lock>>
cpus   == <<cproc, sidx>>
locals == <<idx, np, havekids, kpid>>
vars   == <<table, locks, cpus, pc, locals>>

Slots    == 1..NPROC
Null     == 0
initproc == 1

States == {"UNUSED", "USED", "SLEEPING", "RUNNABLE", "RUNNING", "ZOMBIE"}

Labels == {"forkret", "user", "ret",
           "yield", "sched_yield", "yielded",
           "fork", "fork_copy", "fork_parent", "fork_run",
           "exit", "reparent", "wakeup_init", "wakeup_parent", "zombie",
           "sched_exit", "dead",
           "wait", "scan", "scanned", "sleep", "sleep_rel", "sleep_set",
           "sched_sleep", "slept", "rewait",
           "kill", "init_exiting", "panic"}

Init ==
  /\ state     = [p \in Slots |-> IF p = initproc THEN "RUNNABLE" ELSE "UNUSED"]
  /\ pid       = [p \in Slots |-> IF p = initproc THEN 1 ELSE 0]
  /\ parent    = [p \in Slots |-> Null]
  /\ chan      = [p \in Slots |-> Null]
  /\ killed    = [p \in Slots |-> 0]
  /\ nextpid   = 2
  /\ plock     = [p \in Slots |-> NoCpu]
  /\ wait_lock = NoCpu
  /\ cproc     = [c \in Cpu |-> Null]
  /\ sidx      = [c \in Cpu |-> 1]
  /\ pc        = [p \in Slots |-> "forkret"]
  /\ idx       = [p \in Slots |-> 1]
  /\ np        = [p \in Slots |-> Null]
  /\ havekids  = [p \in Slots |-> 0]
  /\ kpid      = [p \in Slots |-> 0]

-----------------------------------------------------------------------------
(* Helpers *)

\* CPU c executes the kernel thread of p, which is at label l.
At(c, p, l) == cproc[c] = p /\ pc[p] = l

Goto(p, l) == pc' = [pc EXCEPT ![p] = l]

Free(p) == plock[p] = NoCpu

\* Start of a loop over proc[].
Loop(p, l) == /\ Goto(p, l)
              /\ idx' = [idx EXCEPT ![p] = 1]

\* End of one iteration: next slot, or on to label done after the last one.
Advance(p, done) ==
  IF idx[p] < NPROC
  THEN /\ idx' = [idx EXCEPT ![p] = @ + 1]
       /\ UNCHANGED pc
  ELSE Loop(p, done)

\* freeproc(): the fields modelled here go back to their unused values.
freeproc(q) ==
  /\ state'  = [state EXCEPT ![q] = "UNUSED"]
  /\ pid'    = [pid EXCEPT ![q] = 0]
  /\ parent' = [parent EXCEPT ![q] = Null]
  /\ chan'   = [chan EXCEPT ![q] = Null]
  /\ killed' = [killed EXCEPT ![q] = 0]

-----------------------------------------------------------------------------
(* scheduler(), sched(), yield(), forkret() *)

NextSlot(i) == (i % NPROC) + 1

\* One iteration of the loop of scheduler() over a slot that is not runnable.
SchedSkip(c) ==
  /\ cproc[c] = Null
  /\ Free(sidx[c])
  /\ state[sidx[c]] # "RUNNABLE"
  /\ sidx' = [sidx EXCEPT ![c] = NextSlot(@)]
  /\ UNCHANGED <<table, locks, cproc, pc, locals>>

\* The iteration that finds a runnable slot: mark it running and swtch() to it
\* with p->lock held.
SchedPick(c) ==
  LET p == sidx[c] IN
  /\ cproc[c] = Null
  /\ Free(p)
  /\ state[p] = "RUNNABLE"
  /\ state' = [state EXCEPT ![p] = "RUNNING"]
  /\ plock' = [plock EXCEPT ![p] = c]
  /\ cproc' = [cproc EXCEPT ![c] = p]
  /\ UNCHANGED <<pid, parent, chan, killed, nextpid, wait_lock, sidx, pc, locals>>

\* The sanity checks of sched(): p->lock is the only lock c holds.
SchedOK(c, p) ==
  /\ plock[p] = c
  /\ \A q \in Slots \ {p} : plock[q] # c
  /\ wait_lock # c
  /\ state[p] # "RUNNING"

\* sched() and the scheduler's half of the switch: c->proc = 0, release p->lock,
\* on to the next slot.  The process resumes at label resume.
sched(c, p, resume) ==
  IF SchedOK(c, p)
  THEN /\ Goto(p, resume)
       /\ cproc' = [cproc EXCEPT ![c] = Null]
       /\ plock' = [plock EXCEPT ![p] = NoCpu]
       /\ sidx'  = [sidx EXCEPT ![c] = NextSlot(@)]
       /\ UNCHANGED <<table, wait_lock, locals>>
  ELSE /\ Goto(p, "panic")
       /\ UNCHANGED <<table, locks, cpus, locals>>

Sched(c, p) ==
  \/ At(c, p, "sched_yield") /\ sched(c, p, "yielded")
  \/ At(c, p, "sched_sleep") /\ sched(c, p, "slept")
  \/ At(c, p, "sched_exit")  /\ sched(c, p, "dead")

\* Seeded fault: yield() changes p->state without p->lock.
Yield_Unlocked(c, p) ==
  /\ At(c, p, "yield")
  /\ state' = [state EXCEPT ![p] = "RUNNABLE"]
  /\ Goto(p, "sched_yield")
  /\ UNCHANGED <<pid, parent, chan, killed, nextpid, locks, cpus, locals>>

\* yield(): take p->lock and become runnable before calling sched().
Yield(c, p) ==
  /\ At(c, p, "yield")
  /\ Free(p)
  /\ plock' = [plock EXCEPT ![p] = c]
  /\ state' = [state EXCEPT ![p] = "RUNNABLE"]
  /\ Goto(p, "sched_yield")
  /\ UNCHANGED <<pid, parent, chan, killed, nextpid, wait_lock, cpus, locals>>

\* Back from swtch(): forkret() and yield() drop the p->lock taken by the
\* scheduler and go (back) to user space; kexit() must never get here.
Resume(c, p) ==
  /\ cproc[c] = p
  /\ pc[p] \in {"forkret", "yielded", "dead"}
  /\ plock' = [plock EXCEPT ![p] = IF pc[p] = "dead" THEN @ ELSE NoCpu]
  /\ Goto(p, IF pc[p] = "dead" THEN "panic" ELSE "user")
  /\ UNCHANGED <<table, wait_lock, cpus, locals>>

-----------------------------------------------------------------------------
(* usertrap(): both checks of p->killed, the system calls and the timer *)

\* On to kexit(-1) if killed, else to l.
ExitIfKilled(p, l) == Goto(p, IF killed[p] = 1 THEN "exit" ELSE l)

\* The calls a user program may make.  init (user/init.c) forks and waits, and
\* exits when one of the two fails; here it may exit at any time.  The bound
\* MaxPid stops kfork(), nothing in the code does.
Fork(p) == nextpid <= MaxPid /\ Loop(p, "fork") /\ UNCHANGED kpid
Wait(p) == Goto(p, "wait") /\ UNCHANGED <<idx, kpid>>
Exit(p) == Goto(p, "exit") /\ UNCHANGED <<idx, kpid>>
Kill(p) == /\ p # initproc
           /\ \E k \in KillPid : kpid' = [kpid EXCEPT ![p] = k]
           /\ Loop(p, "kill")

\* A system call: a killed process exits instead of making it.
Syscall(c, p) ==
  /\ At(c, p, "user")
  /\ Free(p)
  /\ IF killed[p] = 1
     THEN Goto(p, "exit") /\ UNCHANGED <<idx, kpid>>
     ELSE Fork(p) \/ Wait(p) \/ Exit(p) \/ Kill(p)
  /\ UNCHANGED <<table, locks, cpus, np, havekids>>

\* A timer interrupt in user mode: exit if killed, else yield().
Timer(c, p) ==
  /\ At(c, p, "user")
  /\ Free(p)
  /\ ExitIfKilled(p, "yield")
  /\ UNCHANGED <<table, locks, cpus, locals>>

\* An unexpected exception: setkilled() and out through kexit(-1).
Fault(c, p) ==
  /\ At(c, p, "user")
  /\ Free(p)
  /\ killed' = [killed EXCEPT ![p] = 1]
  /\ Goto(p, "exit")
  /\ UNCHANGED <<state, pid, parent, chan, nextpid, locks, cpus, locals>>

\* Return from a system call: exit if killed meanwhile, else back to user mode.
Return(c, p) ==
  /\ At(c, p, "ret")
  /\ Free(p)
  /\ ExitIfKilled(p, "user")
  /\ UNCHANGED <<table, locks, cpus, locals>>

-----------------------------------------------------------------------------
(* kfork() *)

\* The loop of allocproc(): the first unused slot becomes USED with a new pid,
\* its lock stays held; kfork() fails when there is none.
AllocProc(c, p) ==
  LET q == idx[p] IN
  /\ At(c, p, "fork")
  /\ Free(q)
  /\ IF state[q] = "UNUSED"
     THEN /\ plock'   = [plock EXCEPT ![q] = c]
          /\ pid'     = [pid EXCEPT ![q] = nextpid]
          /\ nextpid' = nextpid + 1
          /\ state'   = [state EXCEPT ![q] = "USED"]
          /\ np'      = [np EXCEPT ![p] = q]
          /\ Goto(p, "fork_copy")
          /\ UNCHANGED idx
     ELSE /\ Advance(p, "ret")
          /\ UNCHANGED <<plock, pid, nextpid, state, np>>
  /\ UNCHANGED <<parent, chan, killed, wait_lock, cpus, havekids, kpid>>

\* No memory for the trapframe, the page table or the copy: undo and fail.
ForkFail(c, p) ==
  /\ At(c, p, "fork_copy")
  /\ freeproc(np[p])
  /\ plock' = [plock EXCEPT ![np[p]] = NoCpu]
  /\ np' = [np EXCEPT ![p] = Null]
  /\ Loop(p, "ret")
  /\ UNCHANGED <<nextpid, wait_lock, cpus, havekids, kpid>>

\* Seeded fault: the child's lock is kept while kfork() goes for wait_lock.
ForkCopy_KeepLock(c, p) ==
  /\ At(c, p, "fork_copy")
  /\ pc' = [pc EXCEPT ![p] = "fork_parent", ![np[p]] = "forkret"]
  /\ UNCHANGED <<table, locks, cpus, locals>>

\* The child is a copy: its context starts at forkret(); drop its lock.
ForkCopy(c, p) ==
  /\ At(c, p, "fork_copy")
  /\ plock' = [plock EXCEPT ![np[p]] = NoCpu]
  /\ pc' = [pc EXCEPT ![p] = "fork_parent", ![np[p]] = "forkret"]
  /\ UNCHANGED <<table, wait_lock, cpus, locals>>

ForkParent(c, p) ==
  /\ At(c, p, "fork_parent")
  /\ wait_lock = NoCpu
  /\ parent' = [parent EXCEPT ![np[p]] = p]
  /\ Goto(p, "fork_run")
  /\ UNCHANGED <<state, pid, chan, killed, nextpid, locks, cpus, locals>>

ForkRun(c, p) ==
  /\ At(c, p, "fork_run")
  /\ Free(np[p])
  /\ state' = [state EXCEPT ![np[p]] = "RUNNABLE"]
  /\ np' = [np EXCEPT ![p] = Null]
  /\ Loop(p, "ret")
  /\ UNCHANGED <<pid, parent, chan, killed, nextpid, locks, cpus, havekids, kpid>>

-----------------------------------------------------------------------------
(* kexit(), reparent(), wakeup() *)

Children(p) == {q \in Slots : parent[q] = p}

\* One iteration of wakeup(ch) by the thread of p, then on to label done.
wakeup(p, ch, done) ==
  LET q == idx[p] IN
  /\ q = p \/ Free(q)
  /\ state' = [state EXCEPT ![q] = IF q # p /\ @ = "SLEEPING" /\ chan[q] = ch
                                   THEN "RUNNABLE" ELSE @]
  /\ Advance(p, done)
  /\ UNCHANGED <<pid, parent, chan, killed, nextpid, locks, cpus, np, havekids, kpid>>

\* panic("init exiting") stops the CPU for good, with no lock held; everybody
\* else takes wait_lock.
ExitStart(c, p) ==
  /\ At(c, p, "exit")
  /\ IF p = initproc
     THEN Goto(p, "init_exiting") /\ UNCHANGED wait_lock
     ELSE wait_lock = NoCpu /\ wait_lock' = c /\ Goto(p, "reparent")
  /\ UNCHANGED <<table, plock, cpus, locals>>

\* Seeded fault: reparent() is not called.
Reparent_Skipped(c, p) ==
  /\ At(c, p, "reparent")
  /\ Loop(p, "wakeup_parent")
  /\ UNCHANGED <<table, locks, cpus, np, havekids, kpid>>

\* reparent(): give the next child to init and wake init, for every child;
\* then kexit() wakes the parent.
Reparent(c, p) ==
  /\ At(c, p, "reparent")
  /\ \/ Children(p) = {} /\ Loop(p, "wakeup_parent") /\ UNCHANGED parent
     \/ \E q \in Children(p) :
          /\ \A r \in Children(p) : q <= r
          /\ parent' = [parent EXCEPT ![q] = initproc]
          /\ Loop(p, "wakeup_init")
  /\ UNCHANGED <<state, pid, chan, killed, nextpid, locks, cpus, np, havekids, kpid>>

\* Seeded fault: wakeup(p) instead of wakeup(p->parent).
ExitWakeup_Self(c, p) ==
  \/ At(c, p, "wakeup_init")   /\ wakeup(p, initproc, "reparent")
  \/ At(c, p, "wakeup_parent") /\ wakeup(p, p, "zombie")

ExitWakeup(c, p) ==
  \/ At(c, p, "wakeup_init")   /\ wakeup(p, initproc, "reparent")
  \/ At(c, p, "wakeup_parent") /\ wakeup(p, parent[p], "zombie")

\* Seeded fault: kexit() goes to sched() with wait_lock held.
ExitZombie_KeepWaitLock(c, p) ==
  /\ At(c, p, "zombie")
  /\ Free(p)
  /\ plock' = [plock EXCEPT ![p] = c]
  /\ state' = [state EXCEPT ![p] = "ZOMBIE"]
  /\ Goto(p, "sched_exit")
  /\ UNCHANGED <<pid, parent, chan, killed, nextpid, wait_lock, cpus, locals>>

\* Take p->lock, become a zombie, drop wait_lock; sched() comes next.
ExitZombie(c, p) ==
  /\ At(c, p, "zombie")
  /\ Free(p)
  /\ plock' = [plock EXCEPT ![p] = c]
  /\ state' = [state EXCEPT ![p] = "ZOMBIE"]
  /\ wait_lock' = NoCpu
  /\ Goto(p, "sched_exit")
  /\ UNCHANGED <<pid, parent, chan, killed, nextpid, cpus, locals>>

-----------------------------------------------------------------------------
(* kwait() and sleep() *)

\* kwait() takes wait_lock, on entry and again at the end of sleep().
WaitAcquire(c, p) ==
  /\ At(c, p, "wait") \/ At(c, p, "rewait")
  /\ wait_lock = NoCpu
  /\ wait_lock' = c
  /\ havekids' = [havekids EXCEPT ![p] = 0]
  /\ Loop(p, "scan")
  /\ UNCHANGED <<table, plock, cpus, np, kpid>>

\* A slot of the scan that is not an exited child.
ScanSkip(c, p) ==
  LET q == idx[p] IN
  /\ At(c, p, "scan")
  /\ parent[q] = p => Free(q) /\ state[q] # "ZOMBIE"
  /\ havekids' = [havekids EXCEPT ![p] = IF parent[q] = p THEN 1 ELSE @]
  /\ Advance(p, "scanned")
  /\ UNCHANGED <<table, locks, cpus, np, kpid>>

\* An exited child: free its slot and return, or return -1 and leave it when
\* its status cannot be copied out.
ScanReap(c, p) ==
  LET q == idx[p] IN
  /\ At(c, p, "scan")
  /\ parent[q] = p
  /\ Free(q)
  /\ state[q] = "ZOMBIE"
  /\ \/ freeproc(q) /\ UNCHANGED nextpid
     \/ p # initproc /\ UNCHANGED table
  /\ wait_lock' = NoCpu
  /\ havekids' = [havekids EXCEPT ![p] = 0]
  /\ Loop(p, "ret")
  /\ UNCHANGED <<plock, cpus, np, kpid>>

\* Nothing to reap: return -1 without children or when killed, else sleep.
ScanEnd(c, p) ==
  /\ At(c, p, "scanned")
  /\ havekids[p] = 1 => Free(p)
  /\ IF havekids[p] = 0 \/ killed[p] = 1
     THEN wait_lock' = NoCpu /\ Goto(p, "ret")
     ELSE UNCHANGED wait_lock /\ Goto(p, "sleep")
  /\ havekids' = [havekids EXCEPT ![p] = 0]
  /\ UNCHANGED <<table, plock, cpus, idx, np, kpid>>

\* sleep(p, &wait_lock): first p->lock ...
SleepAcquire(c, p) ==
  /\ At(c, p, "sleep")
  /\ Free(p)
  /\ plock' = [plock EXCEPT ![p] = c]
  /\ Goto(p, "sleep_rel")
  /\ UNCHANGED <<table, wait_lock, cpus, locals>>

\* ... then drop the condition lock ...
SleepRelease(c, p) ==
  /\ At(c, p, "sleep_rel")
  /\ wait_lock' = NoCpu
  /\ Goto(p, "sleep_set")
  /\ UNCHANGED <<table, plock, cpus, locals>>

\* ... then go to sleep, and call sched().
SleepSet(c, p) ==
  /\ At(c, p, "sleep_set")
  /\ chan'  = [chan EXCEPT ![p] = p]
  /\ state' = [state EXCEPT ![p] = "SLEEPING"]
  /\ Goto(p, "sched_sleep")
  /\ UNCHANGED <<pid, parent, killed, nextpid, locks, cpus, locals>>

\* Woken up and scheduled again: tidy up; kwait() then retakes wait_lock.
SleepWake(c, p) ==
  /\ At(c, p, "slept")
  /\ chan'  = [chan EXCEPT ![p] = Null]
  /\ plock' = [plock EXCEPT ![p] = NoCpu]
  /\ Goto(p, "rewait")
  /\ UNCHANGED <<state, pid, parent, killed, nextpid, wait_lock, cpus, locals>>

-----------------------------------------------------------------------------
(* kkill() *)

\* One iteration of the loop: mark and wake the process with that pid.
KillScan(c, p) ==
  LET q == idx[p] IN
  /\ At(c, p, "kill")
  /\ Free(q)
  /\ IF pid[q] = kpid[p]
     THEN /\ killed' = [killed EXCEPT ![q] = 1]
          /\ state'  = [state EXCEPT ![q] = IF @ = "SLEEPING" THEN "RUNNABLE" ELSE @]
          /\ kpid'   = [kpid EXCEPT ![p] = 0]
          /\ Loop(p, "ret")
     ELSE /\ Advance(p, "ret")
          /\ kpid' = [kpid EXCEPT ![p] = IF idx[p] = NPROC THEN 0 ELSE @]
          /\ UNCHANGED <<killed, state>>
  /\ UNCHANGED <<pid, parent, chan, nextpid, locks, cpus, np, havekids>>

-----------------------------------------------------------------------------
Kernel(c, p) ==
  \/ Sched(c, p) \/ Yield(c, p) \/ Resume(c, p) \/ Return(c, p)
  \/ AllocProc(c, p) \/ ForkFail(c, p) \/ ForkCopy(c, p)
  \/ ForkParent(c, p) \/ ForkRun(c, p)
  \/ ExitStart(c, p) \/ Reparent(c, p) \/ ExitWakeup(c, p) \/ ExitZombie(c, p)
  \/ WaitAcquire(c, p) \/ ScanSkip(c, p) \/ ScanReap(c, p) \/ ScanEnd(c, p)
  \/ SleepAcquire(c, p) \/ SleepRelease(c, p) \/ SleepSet(c, p) \/ SleepWake(c, p)
  \/ KillScan(c, p)

User(c, p) == Syscall(c, p) \/ Timer(c, p) \/ Fault(c, p)

Scheduler(c) == SchedSkip(c) \/ SchedPick(c)

Next == \E c \in Cpu : \/ Scheduler(c)
                       \/ \E p \in Slots : Kernel(c, p) \/ User(c, p)

Spec == Init /\ [][Next]_vars

-----------------------------------------------------------------------------
(* Fairness.  A CPU keeps executing, and a spinning acquire() wins in the   *)
(* end although the swap loop is not a queue, hence SF for kernel steps.    *)
(* The timer of a CPU keeps interrupting user mode, and init, when it runs, *)
(* goes on calling wait() as the loop of user/init.c does.                  *)
InitWaits(c) == /\ At(c, initproc, "user")
                /\ Syscall(c, initproc)
                /\ pc'[initproc] \in {"wait", "exit"}

Fairness ==
  \A c \in Cpu :
    /\ SF_vars(Scheduler(c) \/ \E p \in Slots : Kernel(c, p))
    /\ SF_vars(\E p \in Slots : Timer(c, p))
    /\ SF_vars(InitWaits(c))

LiveSpec == Spec /\ Fairness

-----------------------------------------------------------------------------
(* Properties *)

(* Every field of the process table, of the locks, of the CPUs and of the
   kernel threads stays in its range; the scan index, in particular, never
   leaves the table that the loops over proc[NPROC] walk. *)
TypeOK ==
  /\ state     \in [Slots -> States]
  /\ pid       \in [Slots -> Nat]
  /\ parent    \in [Slots -> 0..NPROC]
  /\ chan      \in [Slots -> 0..NPROC]
  /\ killed    \in [Slots -> {0, 1}]
  /\ nextpid   \in Nat
  /\ plock     \in [Slots -> Cpu \cup {NoCpu}]
  /\ wait_lock \in Cpu \cup {NoCpu}
  /\ cproc     \in [Cpu -> 0..NPROC]
  /\ sidx      \in [Cpu -> Slots]
  /\ pc        \in [Slots -> Labels]
  /\ idx       \in [Slots -> Slots]
  /\ np        \in [Slots -> 0..NPROC]
  /\ havekids  \in [Slots -> {0, 1}]
  /\ kpid      \in [Slots -> Nat]

\* A kernel stack is used by one CPU at a time: no two CPUs run the same slot,
\* and while a CPU is still on the stack of a process that yield(), sleep() or
\* kexit() has already taken out of RUNNING, that CPU holds p->lock, so that no
\* other scheduler() picks the process and no kwait() frees the slot.
StackExclusive ==
  \A c \in Cpu : cproc[c] # Null =>
    /\ \A d \in Cpu : cproc[d] = cproc[c] => d = c
    /\ state[cproc[c]] # "RUNNING" => plock[cproc[c]] = c

\* kexit() wakes its parent under wait_lock, and sleep() takes p->lock before
\* it drops wait_lock: whenever wait_lock is free, no parent sleeps in kwait()
\* although one of its children is a zombie.
NoLostWakeup ==
  wait_lock = NoCpu =>
    \A q \in Slots : state[q] = "ZOMBIE" /\ parent[q] # Null =>
      ~ (state[parent[q]] = "SLEEPING" /\ chan[parent[q]] = parent[q])

\* A process that may run or wait to be reaped always has a living parent to
\* reap it: kfork() sets the parent before the child can run, and reparent()
\* hands the children over before the parent becomes a zombie.
NoOrphan ==
  \A q \in Slots \ {initproc} :
    state[q] \notin {"UNUSED", "USED"} =>
      /\ parent[q] # Null
      /\ state[parent[q]] \notin {"UNUSED", "USED", "ZOMBIE"}

\* None of the panics of sched() is reached, nor "zombie exit" of kexit():
\* sched() is always called with p->lock and no other lock held and p->state
\* changed, and a zombie is never scheduled again.  (The panic "init exiting" is
\* reached, when init is killed, or a fork or wait of init fails.)
NoPanic == \A p \in Slots : pc[p] # "panic"

\* The CPU holding the lock that the next acquire() of CPU c asks for.
BlockedBy(c) ==
  LET p == cproc[c] IN
  IF p = Null THEN plock[sidx[c]]
  ELSE CASE pc[p] \in {"user", "ret", "yield", "zombie", "sleep"} -> plock[p]
         [] pc[p] = "scanned" /\ havekids[p] = 1          -> plock[p]
         [] pc[p] \in {"exit", "wait", "rewait", "fork_parent"} -> wait_lock
         [] pc[p] \in {"fork", "kill"}                    -> plock[idx[p]]
         [] pc[p] \in {"wakeup_init", "wakeup_parent"} /\ idx[p] # p
                                                          -> plock[idx[p]]
         [] pc[p] = "scan" /\ parent[idx[p]] = p          -> plock[idx[p]]
         [] pc[p] = "fork_run"                            -> plock[np[p]]
         [] OTHER                                         -> NoCpu

\* The lock order wait_lock before p->lock, and one p->lock at a time, is kept:
\* no set of CPUs spins forever, each waiting for a lock another one holds.
NoDeadlock ==
  \A S \in SUBSET Cpu : S # {} => \E c \in S : BlockedBy(c) \notin S

\* scheduler() goes round the table, so every runnable process runs again.
RunnableRuns == \A p \in Slots : state[p] = "RUNNABLE" ~> state[p] = "RUNNING"

\* A zombie that belongs to init is reaped by init's wait(), unless init itself
\* exits and the kernel panics: neither the wakeup of kexit() nor the one of
\* reparent() can get lost.
InitReaps ==
  \A q \in Slots :
    (state[q] = "ZOMBIE" /\ parent[q] = initproc)
      ~> (state[q] = "UNUSED" \/ pc[initproc] = "init_exiting")

\* After kkill() a process that is not asleep leaves the system at its next
\* crossing of usertrap(), unless it falls asleep in kwait() first; init panics.
KilledExits ==
  \A p \in Slots :
    (killed[p] = 1 /\ state[p] # "UNUSED")
      ~> (state[p] \in {"ZOMBIE", "UNUSED", "SLEEPING"} \/ pc[p] = "init_exiting")

-----------------------------------------------------------------------------
(* What the comments of proc.c say and the code does not do *)

\* "The process checks the flag and exits the next time it returns to user
\* space or sleeps" (comment of kkill()): nobody sleeps after being killed.
KilledNeverSleeps == \A p \in Slots : state[p] = "SLEEPING" => killed[p] = 0

\* kkill() fails when "the process does not exist" (comment of kkill()): it
\* never marks a slot that holds no process.
KillNeedsProcess ==
  [][\A q \in Slots : killed'[q] = 1 /\ killed[q] = 0 => state[q] # "UNUSED"]_vars
=============================================================================
