------------------------------- MODULE Memory -------------------------------
(***************************************************************************)
(* User memory (kernel/kalloc.c, kernel/vm.c, kernel/exec.c, and allocproc,*)
(* growproc, kfork, freeproc, sys_sbrk, sys_exec and the page faults of    *)
(* usertrap, copyin and copyout): the physical pages, and the page tables  *)
(* that the processes build with them and tear down.                       *)
(*                                                                         *)
(* Every kalloc is a step of its own, so that the processes compete for    *)
(* the last pages and any allocation of a call may be the one that fails;  *)
(* the pages a call frees go back in one step.  A page table is its root,  *)
(* a page of leaves that walk allocates with the first mapping, and the    *)
(* mappings; the tables of the trampoline and of the trapframe belong to   *)
(* the root.  Sizes are in bytes, PGSIZE to a page.  The free pages are    *)
(* counted: which one kalloc returns, and what it contains, is left out; a *)
(* page is mapped once, by the call that allocated it.                     *)
(***************************************************************************)
EXTENDS Naturals, FiniteSets, FiniteSetsExt

CONSTANTS
    NPROC, NPages,   \* process slots, physical pages
    PGSIZE,
    MaxPg,           \* TRAPFRAME / PGSIZE: pages of user addresses
    Amount,          \* the amounts sbrk is called with
    Program,         \* the sizes of the programs exec loads
    Stack,           \* USERSTACK + 1: pages exec allocates for the stack
    MAXARG,          \* the length of argv in sys_exec
    MaxBusy          \* bound: the processes in a call at the same time

VARIABLES
    free,                  \* the number of pages on kmem.freelist
    state, tf, pt, sz,     \* struct proc: state, trapframe, pagetable, sz
    pc,                    \* where each process is
    loc,                   \* the local variables of its call
    panicked               \* the message of panic, "" before

proc == <<state, tf, pt, sz>>
vars == <<free, proc, pc, loc, panicked>>

Slot == 1..NPROC
Vpn == 0..MaxPg - 1
TRAPFRAME == MaxPg * PGSIZE
initproc == 1

(* PGROUNDUP(n) / PGSIZE *)
Up(n) == (n + PGSIZE - 1) \div PGSIZE

ASSUME MemoryAssumption ==
    /\ {NPROC, NPages, PGSIZE, MaxPg, Stack, MAXARG, MaxBusy} \subseteq Nat \ {0}
    /\ Amount \subseteq Nat \ {0} /\ Program \subseteq Nat \ {0}
    /\ \A s \in Program : Up(s) + Stack <= MaxPg /\ Up(s) + Stack + 4 <= NPages

NoTable == [root |-> 0, leaf |-> 0, map |-> {}]

(* op: the call; tab, size: kexec's new page table and its size; from, at,  *)
(* to: the pages of the loop of uvmalloc or uvmcopy; goal: the size it is   *)
(* to reach; mem: the page in hand; np: kfork's child; args: the pages of   *)
(* sys_exec's arguments; call: who has the page fault ("user" code, a "copy" *)
(* up to page goal, the "args" of exec).                                    *)
Idle == [op |-> "none", tab |-> NoTable, size |-> 0, from |-> 0, at |-> 0, to |-> 0,
         goal |-> 0, mem |-> 0, np |-> 0, args |-> 0, call |-> "user"]

(* userinit: the first process has a trapframe and an empty page table; its *)
(* first act is the kexec of forkret.                                       *)
Init ==
    /\ free = NPages - 2
    /\ state = [p \in Slot |-> IF p = initproc THEN "RUNNABLE" ELSE "UNUSED"]
    /\ tf = [p \in Slot |-> IF p = initproc THEN 1 ELSE 0]
    /\ pt = [p \in Slot |-> IF p = initproc THEN [NoTable EXCEPT !.root = 1] ELSE NoTable]
    /\ sz = [p \in Slot |-> 0]
    /\ pc = [p \in Slot |-> IF p = initproc THEN "boot" ELSE "user"]
    /\ loc = [p \in Slot |-> Idle]
    /\ panicked = ""

At(p, l) == panicked = "" /\ state[p] = "RUNNABLE" /\ pc[p] = l
(* p runs user code, and may trap *)
User(p) == At(p, "user") /\ Cardinality({q \in Slot : pc[q] # "user"}) < MaxBusy
Goto(p, l) == pc' = [pc EXCEPT ![p] = l]
Return(p) == Goto(p, "user") /\ loc' = [loc EXCEPT ![p] = Idle]

(* kalloc, when a page is free, and kfree of n pages *)
kalloc == free > 0 /\ free' = free - 1
kfree(n) == free' = free + n

Mapped(t, from, to) == Cardinality(t.map \intersect from..to - 1)
Unmap(t, from, to) == [t EXCEPT !.map = @ \ (from..to - 1)]

(* proc_freepagetable: the pages below size, then those of the table *)
Freed(t, size) == Mapped(t, 0, Up(size)) + t.leaf + t.root

(* freewalk: the mappings the pages below size do not include *)
Left(t, size) == Mapped(t, Up(size), MaxPg) # 0

-----------------------------------------------------------------------------
(* growproc: the size stays below the trapframe *)
Fits(size) == size <= TRAPFRAME

(* sys_sbrk, SBRK_EAGER with n > 0: growproc, uvmalloc *)
SbrkEager(p) ==
    /\ User(p)
    /\ \E n \in Amount :
         /\ Fits(sz[p] + n)
         /\ loc' = [loc EXCEPT ![p] = [Idle EXCEPT !.op = "grow", !.from = Up(sz[p]),
                        !.at = Up(sz[p]), !.to = Up(sz[p] + n), !.goal = sz[p] + n]]
    /\ Goto(p, "alloc")
    /\ UNCHANGED <<free, proc, panicked>>

(* sys_sbrk, SBRK_LAZY: the size only *)
SbrkLazy(p) ==
    /\ At(p, "user")
    /\ \E n \in Amount :
         /\ Fits(sz[p] + n)
         /\ sz' = [sz EXCEPT ![p] = @ + n]
    /\ UNCHANGED <<free, state, tf, pt, pc, loc, panicked>>

(* Seeded fault: PGROUNDDOWN in the place of PGROUNDUP. *)
FirstFreed_Down(new) == new \div PGSIZE

(* uvmdealloc frees whole pages only *)
FirstFreed(new) == Up(new)

(* sys_sbrk, n < 0: growproc, uvmdealloc; a size below zero wraps around    *)
(* and is not less than the old one, which then stays.                      *)
SbrkShrink(p) ==
    /\ At(p, "user")
    /\ \E n \in Amount :
         /\ n <= sz[p]
         /\ kfree(Mapped(pt[p], FirstFreed(sz[p] - n), Up(sz[p])))
         /\ pt' = [pt EXCEPT ![p] = Unmap(@, FirstFreed(sz[p] - n), Up(sz[p]))]
         /\ sz' = [sz EXCEPT ![p] = @ - n]
    /\ UNCHANGED <<state, tf, pc, loc, panicked>>

(* vmfault of a page below the size that is not mapped *)
vmfault(p, v, l) ==
    /\ v \in 0..Up(sz[p]) - 1 \ pt[p].map
    /\ loc' = [loc EXCEPT ![p] = [l EXCEPT !.op = "fault", !.from = v, !.at = v, !.to = v + 1]]
    /\ Goto(p, "alloc")

(* A load or store to a page that is not mapped: usertrap, vmfault.  The    *)
(* address is in page v; it is below the size, or the fault fails (as one   *)
(* in the guard page does, which is mapped).                                *)
Fault(p) ==
    /\ User(p)
    /\ \E v \in Vpn :
         /\ v \notin pt[p].map
         /\ \/ vmfault(p, v, Idle)
            \/ /\ v * PGSIZE + PGSIZE > sz[p]
               /\ Goto(p, "failed")
               /\ UNCHANGED loc
    /\ UNCHANGED <<free, proc, panicked>>

(* usertrap after a vmfault that failed: setkilled is commented out, and    *)
(* the process goes back to the instruction that faulted.                   *)
Refault(p) ==
    /\ At(p, "failed")
    /\ Goto(p, "user")
    /\ UNCHANGED <<free, proc, loc, panicked>>

(* The first page of v..w-1 that is not mapped, at which copyin or copyout  *)
(* calls vmfault                                                            *)
IsFault(p, v, w, u) == u \in v..w - 1 \ pt[p].map /\ v..u - 1 \subseteq pt[p].map

(* A system call that copies between the kernel and the pages v..w-1 of the *)
(* process: copyin or copyout, up to its first page fault.  A copy without  *)
(* one changes no page table, nor does copyinstr, which does not call       *)
(* vmfault.                                                                 *)
Copy(p) ==
    /\ User(p)
    /\ \E v, u \in Vpn, w \in 1..MaxPg :
         IsFault(p, v, w, u) /\ vmfault(p, u, [Idle EXCEPT !.call = "copy", !.goal = w])
    /\ UNCHANGED <<free, proc, panicked>>

(* kfork: allocproc takes the first unused slot *)
Fork(p) ==
    /\ User(p)
    /\ \E q \in Slot :
         /\ state[q] = "UNUSED" /\ \A r \in 1..q - 1 : state[r] # "UNUSED"
         /\ state' = [state EXCEPT ![q] = "USED"]
         /\ loc' = [loc EXCEPT ![p] = [Idle EXCEPT !.op = "fork", !.np = q]]
    /\ Goto(p, "trapframe")
    /\ UNCHANGED <<free, tf, pt, sz, panicked>>

(* allocproc: kalloc of the trapframe; without it freeproc *)
AllocTrapframe(p) ==
    LET q == loc[p].np IN
    /\ At(p, "trapframe")
    /\ \/ /\ free = 0
          /\ state' = [state EXCEPT ![q] = "UNUSED"]
          /\ Return(p)
          /\ UNCHANGED <<free, tf>>
       \/ /\ kalloc
          /\ tf' = [tf EXCEPT ![q] = 1]
          /\ Goto(p, "pagetable")
          /\ UNCHANGED <<state, loc>>
    /\ UNCHANGED <<pt, sz, panicked>>

(* sys_exec: argstr of the path *)
SysExec(p) ==
    /\ User(p)
    /\ loc' = [loc EXCEPT ![p] = [Idle EXCEPT !.op = "exec"]]
    /\ Goto(p, "args")
    /\ UNCHANGED <<free, proc, panicked>>

(* sys_exec: fetchaddr of the next element of the array meets a page that   *)
(* is not mapped                                                            *)
ArgFault(p) ==
    /\ At(p, "args")
    /\ \E v \in Vpn : vmfault(p, v, [loc[p] EXCEPT !.call = "args"])
    /\ UNCHANGED <<free, proc, panicked>>

(* sys_exec: argv[i] = kalloc() *)
Arg(p) ==
    /\ At(p, "args") /\ loc[p].args < MAXARG
    /\ kalloc
    /\ loc' = [loc EXCEPT ![p].args = @ + 1]
    /\ UNCHANGED <<proc, pc, panicked>>

(* sys_exec, bad: too many arguments, one that cannot be fetched, or no     *)
(* page for it                                                              *)
ArgBad(p) ==
    /\ At(p, "args")
    /\ kfree(loc[p].args)
    /\ Return(p)
    /\ UNCHANGED <<proc, panicked>>

(* kexec: a file that is an ELF program of a size in Program *)
Exec(p) ==
    /\ (At(p, "args") /\ loc[p].args < MAXARG) \/ At(p, "boot")
    /\ \E n \in Program :
         loc' = [loc EXCEPT ![p] = [@ EXCEPT !.op = "exec", !.to = Up(n), !.goal = n]]
    /\ Goto(p, "pagetable")
    /\ UNCHANGED <<free, proc, panicked>>

(* What freeproc(np) of a fork that fails returns: the page table has been  *)
(* emptied by uvmcopy, and the size is still 0.                             *)
FreeChild(q) == tf[q] + Freed(pt[q], 0)

(* proc_pagetable of allocproc or of kexec *)
AllocTable(p) ==
    LET q == loc[p].np IN
    /\ At(p, "pagetable")
    /\ \/ /\ free = 0 /\ loc[p].op = "fork"
          /\ kfree(FreeChild(q))
          /\ tf' = [tf EXCEPT ![q] = 0] /\ state' = [state EXCEPT ![q] = "UNUSED"]
          /\ Return(p)
          /\ UNCHANGED pt
       \/ /\ free = 0 /\ loc[p].op = "exec"
          /\ kfree(loc[p].args)
          /\ Return(p)
          /\ UNCHANGED <<state, tf, pt>>
       \/ /\ loc[p].op = "fork"
          /\ kalloc
          /\ pt' = [pt EXCEPT ![q].root = 1]
          /\ loc' = [loc EXCEPT ![p].to = Up(sz[p])]
          /\ Goto(p, "alloc")
          /\ UNCHANGED <<state, tf>>
       \/ /\ loc[p].op = "exec"
          /\ kalloc
          /\ loc' = [loc EXCEPT ![p].tab.root = 1]
          /\ Goto(p, "alloc")
          /\ UNCHANGED <<state, tf, pt>>
    /\ UNCHANGED <<sz, panicked>>

-----------------------------------------------------------------------------
(* The page table a call maps pages into *)
Table(p) == CASE loc[p].op = "exec" -> loc[p].tab
              [] loc[p].op = "fork" -> pt[loc[p].np]
              [] OTHER -> pt[p]

(* An iteration of uvmalloc, uvmcopy or vmfault begins with a kalloc.       *)
Alloc(p) ==
    LET l == loc[p] IN
    /\ At(p, "alloc") /\ l.at < l.to
    /\ l.op = "fork" => l.at \in pt[p].map
    /\ kalloc
    /\ loc' = [loc EXCEPT ![p].mem = 1]
    /\ Goto(p, "map")
    /\ UNCHANGED <<proc, panicked>>

(* uvmcopy: "page not present" *)
CopyPanic(p) ==
    /\ At(p, "alloc") /\ loc[p].op = "fork" /\ loc[p].at < loc[p].to
    /\ loc[p].at \notin pt[p].map
    /\ panicked' = "uvmcopy"
    /\ UNCHANGED <<free, proc, pc, loc>>

(* mappages: walk allocates the page of leaves if there is none *)
Map(p) ==
    LET l == loc[p]
        t == Table(p)
        u == [t EXCEPT !.leaf = 1, !.map = @ \union {l.at}]
        next == [l EXCEPT !.at = @ + 1, !.mem = 0]
    IN
    /\ At(p, "map") /\ free + t.leaf > 0
    /\ free' = free - (1 - t.leaf)
    /\ panicked' = IF l.at \in t.map THEN "remap" ELSE ""
    /\ loc' = [loc EXCEPT ![p] = IF l.op = "exec" THEN [next EXCEPT !.tab = u] ELSE next]
    /\ pt' = CASE l.op = "exec" -> pt
               [] l.op = "fork" -> [pt EXCEPT ![l.np] = u]
               [] OTHER -> [pt EXCEPT ![p] = u]
    /\ Goto(p, "alloc")
    /\ UNCHANGED <<state, tf, sz>>

(* No page for the mapping, or for the leaves: the pages of the loop and    *)
(* the page in hand go back.                                                *)
Short(p) ==
    LET l == loc[p] IN
    /\ free = 0
    /\ \/ At(p, "alloc") /\ l.at < l.to /\ (l.op = "fork" => l.at \in pt[p].map)
       \/ At(p, "map") /\ Table(p).leaf = 0

(* Seeded fault: the page that could not be mapped is not freed. *)
Undone_KeepMem(p) == Mapped(Table(p), loc[p].from, loc[p].at)

Undone(p) == Mapped(Table(p), loc[p].from, loc[p].at) + loc[p].mem

(* uvmalloc fails in growproc: uvmdealloc *)
GrowFail(p) ==
    /\ Short(p) /\ loc[p].op = "grow"
    /\ kfree(Undone(p))
    /\ pt' = [pt EXCEPT ![p] = Unmap(@, loc[p].from, loc[p].at)]
    /\ Return(p)
    /\ UNCHANGED <<state, tf, sz, panicked>>

(* vmfault fails: in usertrap, in a copy, which leaves the pages it got so  *)
(* far, or in sys_exec, which frees its arguments.                          *)
FaultFail(p) ==
    /\ Short(p) /\ loc[p].op = "fault"
    /\ kfree(loc[p].mem + loc[p].args)
    /\ loc' = [loc EXCEPT ![p] = Idle]
    /\ Goto(p, IF loc[p].call = "user" THEN "failed" ELSE "user")
    /\ UNCHANGED <<proc, panicked>>

(* uvmcopy fails: uvmunmap, freeproc *)
ForkFail(p) ==
    LET q == loc[p].np IN
    /\ Short(p) /\ loc[p].op = "fork"
    /\ kfree(Undone(p) + FreeChild(q))
    /\ tf' = [tf EXCEPT ![q] = 0] /\ pt' = [pt EXCEPT ![q] = NoTable]
    /\ state' = [state EXCEPT ![q] = "UNUSED"]
    /\ panicked' = IF Left(Unmap(pt[q], 0, loc[p].at), 0) THEN "freewalk" ELSE ""
    /\ Return(p)
    /\ UNCHANGED sz

(* uvmalloc fails in kexec: uvmdealloc, then bad: proc_freepagetable *)
ExecFail(p) ==
    LET l == loc[p]
        t == Unmap(l.tab, l.from, l.at)
    IN
    /\ Short(p) /\ l.op = "exec"
    /\ kfree(Undone(p) + Freed(t, l.size) + l.args)
    /\ panicked' = IF Left(t, l.size) THEN "freewalk" ELSE ""
    /\ Return(p)
    /\ UNCHANGED proc

-----------------------------------------------------------------------------
Finished(p, o) == At(p, "alloc") /\ loc[p].op = o /\ loc[p].at = loc[p].to

(* growproc: p->sz = sz *)
GrowDone(p) ==
    /\ Finished(p, "grow")
    /\ sz' = [sz EXCEPT ![p] = loc[p].goal]
    /\ Return(p)
    /\ UNCHANGED <<free, state, tf, pt, panicked>>

FaultDone(p) ==
    /\ Finished(p, "fault") /\ loc[p].call = "user"
    /\ Return(p)
    /\ UNCHANGED <<free, proc, panicked>>

(* copyin, copyout: the next page fault of the copy *)
CopyMore(p) ==
    LET l == loc[p] IN
    /\ Finished(p, "fault") /\ l.call = "copy"
    /\ \E u \in Vpn : IsFault(p, l.at, l.goal, u) /\ vmfault(p, u, l)
    /\ UNCHANGED <<free, proc, panicked>>

(* The copy is complete, or it meets a page it may not access (no PTE_U or  *)
(* no PTE_W) or the end of the process's memory.                            *)
CopyDone(p) ==
    LET l == loc[p] IN
    /\ Finished(p, "fault") /\ l.call = "copy"
    /\ l.at = l.goal \/ l.at \in pt[p].map \/ l.at >= Up(sz[p])
    /\ Return(p)
    /\ UNCHANGED <<free, proc, panicked>>

(* fetchaddr has its page *)
ArgMore(p) ==
    /\ Finished(p, "fault") /\ loc[p].call = "args"
    /\ loc' = [loc EXCEPT ![p] = [Idle EXCEPT !.op = "exec", !.args = loc[p].args]]
    /\ Goto(p, "args")
    /\ UNCHANGED <<free, proc, panicked>>

(* kfork: np->sz = p->sz, and the child may run *)
ForkDone(p) ==
    LET q == loc[p].np IN
    /\ Finished(p, "fork")
    /\ sz' = [sz EXCEPT ![q] = sz[p]]
    /\ state' = [state EXCEPT ![q] = "RUNNABLE"]
    /\ Return(p)
    /\ UNCHANGED <<free, tf, pt, panicked>>

(* kexec: the segment is loaded, and the stack follows at the next page *)
ExecStack(p) ==
    LET n == Up(loc[p].goal) IN
    /\ Finished(p, "exec") /\ loc[p].size = 0
    /\ loc' = [loc EXCEPT ![p] = [@ EXCEPT !.size = n * PGSIZE, !.from = n, !.at = n,
                   !.to = n + Stack, !.goal = (n + Stack) * PGSIZE]]
    /\ UNCHANGED <<free, proc, pc, panicked>>

(* Seeded fault: the old page table is freed with the new size. *)
OldSize_New(p) == loc[p].size

(* kexec: oldsz, the size the old page table is freed with *)
OldSize(p) == sz[p]

(* kexec: commit to the new image, and free the old one *)
ExecDone(p) ==
    LET l == loc[p] IN
    /\ Finished(p, "exec") /\ l.size # 0
    /\ pt' = [pt EXCEPT ![p] = l.tab] /\ sz' = [sz EXCEPT ![p] = l.goal]
    /\ kfree(Freed(pt[p], OldSize(p)) + l.args)
    /\ panicked' = IF Left(pt[p], OldSize(p)) THEN "freewalk" ELSE ""
    /\ Return(p)
    /\ UNCHANGED <<state, tf>>

(* kexec, bad: a segment cannot be read, or the arguments do not fit the    *)
(* stack.  The first kexec of init is taken to succeed; forkret panics      *)
(* otherwise.                                                               *)
ExecBad(p) ==
    LET l == loc[p] IN
    /\ Finished(p, "exec") /\ (p = initproc => sz[p] # 0)
    /\ kfree(Freed(l.tab, l.goal) + l.args)
    /\ panicked' = IF Left(l.tab, l.goal) THEN "freewalk" ELSE ""
    /\ Return(p)
    /\ UNCHANGED proc

(* kexit; init does not *)
Exit(p) ==
    /\ At(p, "user") /\ p # initproc
    /\ state' = [state EXCEPT ![p] = "ZOMBIE"]
    /\ UNCHANGED <<free, tf, pt, sz, pc, loc, panicked>>

(* kwait of the parent: freeproc *)
Wait(q) ==
    /\ panicked = "" /\ state[q] = "ZOMBIE"
    /\ kfree(tf[q] + Freed(pt[q], sz[q]))
    /\ panicked' = IF Left(pt[q], sz[q]) THEN "freewalk" ELSE ""
    /\ tf' = [tf EXCEPT ![q] = 0] /\ pt' = [pt EXCEPT ![q] = NoTable]
    /\ sz' = [sz EXCEPT ![q] = 0] /\ state' = [state EXCEPT ![q] = "UNUSED"]
    /\ UNCHANGED <<pc, loc>>

(* panic: for(;;) *)
Halted == panicked # "" /\ UNCHANGED vars

Next ==
    \/ \E p \in Slot :
         \/ SbrkEager(p) \/ SbrkLazy(p) \/ SbrkShrink(p) \/ Fault(p) \/ Refault(p)
         \/ Copy(p) \/ CopyMore(p) \/ CopyDone(p)
         \/ SysExec(p) \/ ArgFault(p) \/ Arg(p) \/ ArgMore(p) \/ ArgBad(p)
         \/ Fork(p) \/ AllocTrapframe(p) \/ Exec(p) \/ AllocTable(p)
         \/ Alloc(p) \/ CopyPanic(p) \/ Map(p)
         \/ GrowFail(p) \/ FaultFail(p) \/ ForkFail(p) \/ ExecFail(p)
         \/ GrowDone(p) \/ FaultDone(p) \/ ForkDone(p)
         \/ ExecStack(p) \/ ExecDone(p) \/ ExecBad(p) \/ Exit(p) \/ Wait(p)
    \/ Halted

Spec == Init /\ [][Next]_vars

-----------------------------------------------------------------------------
Tables == [root : 0..1, leaf : 0..1, map : SUBSET Vpn]

(* The state is of its type; no size passes the trapframe (growproc).       *)
TypeOK ==
    /\ free \in 0..NPages
    /\ state \in [Slot -> {"UNUSED", "USED", "RUNNABLE", "ZOMBIE"}]
    /\ tf \in [Slot -> 0..1] /\ pt \in [Slot -> Tables] /\ sz \in [Slot -> 0..TRAPFRAME]
    /\ \A p \in Slot : loc[p].tab \in Tables /\ loc[p].mem \in 0..1
    /\ panicked \in {"", "uvmcopy", "remap", "freewalk"}

TablePages(t) == t.root + t.leaf + Cardinality(t.map)

(* What a slot uses: a trapframe and a page table, if it is a process, the  *)
(* page in hand and the table in construction of its call.                  *)
Used(p) ==
    (IF state[p] = "UNUSED" THEN 0 ELSE tf[p] + TablePages(pt[p]))
    + loc[p].mem + loc[p].args + TablePages(loc[p].tab)

(* Every physical page is free or has its one use, whichever allocation of  *)
(* fork, exec, sbrk or a page fault fails, and however the calls of the     *)
(* processes interleave: no page is lost, and none is freed while in use or *)
(* freed twice.                                                             *)
Conserved == panicked = "" => free + MapThenSumSet(Used, Slot) = NPages

(* freewalk never meets a leaf (vm.c:201) and mappages never a page that is *)
(* mapped (vm.c:83): the size a table is torn down with covers all of it.   *)
NoPanic == panicked \notin {"remap", "freewalk"}

(* A page that holds bytes below the size of a process stays mapped until   *)
(* the process execs or ends: neither sbrk to a size within a page nor a    *)
(* growth that fails half way takes memory the process still has.           *)
Kept ==
    [][\A p \in Slot : state[p] = "RUNNABLE" /\ state'[p] = "RUNNABLE" /\ loc[p].op # "exec"
          => pt[p].map \intersect 0..Up(sz'[p]) - 1 \subseteq pt'[p].map]_vars

-----------------------------------------------------------------------------
(* usertests.c:2805, lazy_unmap: fork after sbrklazy either works or        *)
(* returns -1.                                                              *)
ForkReturns == panicked # "uvmcopy"

(* trap.c:157: "when a page fault cannot be handled, kill the process": it  *)
(* does not run in user space again.                                        *)
FaultKills == [][\A p \in Slot : pc[p] = "failed" => pc'[p] # "user"]_vars
=============================================================================
