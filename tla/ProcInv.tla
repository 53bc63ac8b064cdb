------------------------------ MODULE ProcInv -------------------------------
(***************************************************************************)
(* The inductive invariant behind the safety properties of Proc: what the  *)
(* place of every kernel thread says about the locks its CPU holds, about  *)
(* the state of its slot and about its family.                             *)
(***************************************************************************)
EXTENDS Proc

\* Labels of a thread on a CPU at which it holds its own p->lock.
HoldsP == {"forkret", "yielded", "slept", "dead", "sleep_rel", "sleep_set",
           "sched_yield", "sched_sleep", "sched_exit"}

\* Labels of a thread on a CPU at which it holds wait_lock.
HoldsWait == {"reparent", "wakeup_init", "wakeup_parent", "zombie",
              "scan", "scanned", "sleep", "sleep_rel"}

ForkLabels == {"fork_copy", "fork_parent", "fork_run"}

\* Labels of kexit() after its test for init.
ExitLabels == {"reparent", "wakeup_init", "wakeup_parent", "zombie",
               "sched_exit"}

OnCpu(p) == \E c \in Cpu : cproc[c] = p

\* A slot is on one CPU at most.
CpuInv ==
  \A c, d \in Cpu : cproc[c] # Null /\ cproc[c] = cproc[d] => c = d

\* Which p->lock each CPU holds, exactly.
PLockInv ==
  \A q \in Slots, c \in Cpu :
    plock[q] = c <=>
      /\ cproc[c] # Null
      /\ \/ q = cproc[c] /\ pc[q] \in HoldsP
         \/ q = np[cproc[c]] /\ pc[cproc[c]] = "fork_copy"

\* Who holds wait_lock, exactly.
WaitLockInv ==
  \A c \in Cpu :
    wait_lock = c <=> cproc[c] # Null /\ pc[cproc[c]] \in HoldsWait

\* The state a thread on a CPU is in: running, until it is about to call sched().
RunInv ==
  \A c \in Cpu : cproc[c] # Null =>
    /\ pc[cproc[c]] # "dead"
    /\ pc[cproc[c]] = "sched_yield" => state[cproc[c]] = "RUNNABLE"
    /\ pc[cproc[c]] = "sched_sleep" => state[cproc[c]] = "SLEEPING"
    /\ pc[cproc[c]] = "sched_exit"  => state[cproc[c]] = "ZOMBIE"
    /\ pc[cproc[c]] \notin {"sched_yield", "sched_sleep", "sched_exit"}
         => state[cproc[c]] = "RUNNING"

\* Where a thread that is on no CPU will resume.
RestInv ==
  \A p \in Slots : ~OnCpu(p) =>
    /\ state[p] # "RUNNING"
    /\ state[p] = "RUNNABLE" => pc[p] \in {"forkret", "yielded", "slept"}
    /\ state[p] = "SLEEPING" => pc[p] = "slept"

\* kfork() owns the slot it prepares.
ForkInv ==
  \A c \in Cpu : cproc[c] # Null /\ pc[cproc[c]] \in ForkLabels =>
    LET p == cproc[c] IN
    /\ np[p] \in Slots
    /\ state[np[p]] = "USED"
    /\ pc[p] # "fork_copy" => pc[np[p]] = "forkret"
    /\ parent[np[p]] = IF pc[p] = "fork_run" THEN p ELSE Null
    /\ \A d \in Cpu :
         cproc[d] # Null /\ pc[cproc[d]] \in ForkLabels /\ np[cproc[d]] = np[p]
           => d = c

\* Families: parents are alive, and a thread past reparent() has no children.
FamilyInv ==
  /\ parent[initproc] = Null
  /\ \A q \in Slots :
       /\ state[q] = "UNUSED" => parent[q] = Null
       /\ q # initproc /\ state[q] \notin {"UNUSED", "USED"} => parent[q] # Null
       /\ parent[q] # Null =>
            /\ parent[q] # q
            /\ state[parent[q]] \notin {"UNUSED", "USED", "ZOMBIE"}
  /\ \A c \in Cpu :
       cproc[c] # Null /\ pc[cproc[c]] \in {"wakeup_parent", "zombie"} =>
         \A q \in Slots : parent[q] # cproc[c]

\* init does not get beyond the panic of kexit().
InitInv ==
  /\ state[initproc] \notin {"UNUSED", "USED", "ZOMBIE"}
  /\ pc[initproc] \notin ExitLabels

\* p sleeps on its own channel, or is about to and has dropped wait_lock.
Bedding(p) ==
  \/ state[p] = "SLEEPING" /\ chan[p] = p
  \/ pc[p] = "sleep_set"

\* A parent on its way to bed has no zombie child, except that init may have
\* got one from a reparent() whose wakeup(initproc) is about to start.
WakeupInv ==
  \A q \in Slots :
    state[q] = "ZOMBIE" /\ parent[q] # Null /\ Bedding(parent[q]) =>
      /\ parent[q] = initproc
      /\ \E d \in Cpu : /\ cproc[d] # Null
                        /\ pc[cproc[d]] = "wakeup_init"
                        /\ idx[cproc[d]] = 1

\* An exiting thread that has passed its parent in the loop of wakeup() left it
\* awake, and the parent cannot go back to bed without wait_lock.
PassedInv ==
  \A d \in Cpu :
    cproc[d] # Null =>
      \/ /\ pc[cproc[d]] # "zombie"
         /\ pc[cproc[d]] = "wakeup_parent" => idx[cproc[d]] <= parent[cproc[d]]
      \/ ~Bedding(parent[cproc[d]])

\* The slots kwait() has scanned hold no zombie child.
ScanInv ==
  \A d \in Cpu, q \in Slots :
    cproc[d] # Null /\ parent[q] = cproc[d] /\ state[q] = "ZOMBIE" =>
      /\ pc[cproc[d]] \notin {"scanned", "sleep", "sleep_rel"}
      /\ pc[cproc[d]] = "scan" => idx[cproc[d]] <= q

IInv ==
  /\ TypeOK /\ CpuInv /\ PLockInv /\ WaitLockInv /\ RunInv /\ RestInv
  /\ ForkInv /\ FamilyInv /\ InitInv /\ WakeupInv /\ PassedInv /\ ScanInv
  /\ NoPanic
=============================================================================
