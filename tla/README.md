# A verification project for xv6-on-k230

TLA+ specifications of the kernel in `src/kernel/`, of the shell `src/user/sh.c`
and of the image `src/mkfs/mkfs.c` makes, the TLC configurations that check them
on small instances, and TLAPS proofs about the process table, spinlocks, sleep locks,
the buffer cache, the log, inodes, pipes and the clock for instances of any size. Every definition is translated
from the C code; the table `map` of `PROJECT.json` names the lines each one stands
for.

xv6-on-k230 is a port of xv6-riscv to the K230. It differs from xv6 in places
that matter here: `kexit` closes no files, a timer interrupt in the kernel does
not yield, the UART is written through its FIFO, a RAM disk replaces virtio, and
`sbrklazy` allocates on page faults while `fork` still expects every page.

## 1. The system

| Part | State | Operations | What makes it hard | Module |
|---|---|---|---|---|
| Process table (`proc.c`) | `proc[]`, `p->lock`, `wait_lock`, `c->proc`, kernel threads | `scheduler`, `sched`, `yield`, `sleep`, `wakeup`, `kfork`, `kexit`, `reparent`, `kwait`, `kkill` | locks held across `swtch`, wakeups against sleeps, parents that exit with their children | `Proc` |
| Spinlocks (`spinlock.c`) | `locked`, `cpu`, `noff`, `intena`, interrupt enable | `acquire`, `release`, `push_off`, `pop_off` | handlers on the same CPU, threads that migrate, `wfi` | `Spinlock` ⇒ `LockAbs` |
| Sleep locks (`sleeplock.c`) | `locked`, `pid`, sleepers | `acquiresleep`, `releasesleep`, `holdingsleep` | all sleepers are woken, one wins | `SleepLock` ⇒ `LockAbs` |
| Buffer cache (`bio.c`) | buffers in LRU order, `refcnt`, `valid` | `bread`, `bwrite`, `brelse`, `bpin`, `bunpin` | recycling while others wait for the buffer | `Bio` ⇒ `BioAbs` |
| Log (`log.c`) | header, log blocks, `outstanding`, `committing` | `begin_op`, `log_write`, `end_op`, `commit`, recovery | a crash at any write, recovery included; space | `Log` ⇒ `LogAbs` |
| Inodes (`fs.c`, `sysfile.c`) | `itable`, disk inodes, one directory | `iget`, `ilock`, `iput`, `ialloc`, `ireclaim`, open/create/link/unlink/close | open files without a name, crashes, reuse of numbers | `Inode` |
| Contents, directories, paths (`fs.c`, `sysfile.c`, `file.c`, `mkfs.c`) | bitmap, `addrs[]`, blocks, entries, offsets | `balloc`, `bmap`, `itrunc`, `readi`, `writei`, `dirlink`, `namex`, open, mkdir, unlink, chdir, read, write, close | a full disk half way, shared offsets, directories that go while they are walked | `Fs` ⇒ `FsAbs` |
| Files (`file.c`, `sysfile.c`) | `ftable`, `ofile`, `cwd`, pipe ends | open, dup, close, pipe, chdir, fork, exit, wait | error paths half way, reused slots | `Files` |
| Pipes (`pipe.c`) | ring, `nread`, `nwrite`, open ends | `pipewrite`, `piperead`, `pipeclose` | sleepers, kills, counters that wrap, the last close | `Pipe` ⇒ `PipeAbs` |
| Memory (`kalloc.c`, `vm.c`, `exec.c`) | free pages, sizes and page tables | sbrk, page faults of programs and of `copyin`/`copyout`, fork, exec with its arguments, exit, wait | any `kalloc` fails, sizes within a page, lazy pages | `Memory` |
| Console (`uart.c`) | ring with `r`, `w`, `e` | `consoleintr`, `consoleread` | editing against reading, full ring, control-D | `Console` ⇒ `ConsoleAbs` |
| UART (`uart.c`, `plic.c`) | `uart_tx_busy`, `uart_tx_lock`, device FIFO | `uartwrite`, `uartputc_sync`, `uartintr` | an interrupt that another writer takes back | `Uart` |
| Clock (`trap.c`, `sysproc.c`) | `ticks`, sleepers | `clockintr`, `sys_pause` | a counter that wraps | `Clock` |
| Shell (`sh.c`) | the line, processes, descriptors | `gettoken` to `nulterminate`, `main`, `runcmd` | pipes that stay open, `wait` for any child, forks that fail | `ShParse`, `Sh` ⇒ `ShGrammar` |
| Boot (`main.c`, `start.c`) | | | a second hart does not wait for the first | not modelled |
| Library, other user programs | | | sequential | not modelled |

How the parts meet: everything below uses `Spinlock`; `sleep` and `wakeup` are
`Proc`'s and appear in the other modules as "leave the lock and sleep in one
step, be woken in another", which is what `Proc` shows of them (no wakeup is lost
between the release of the condition lock and SLEEPING). `Bio`
and `Inode` use a sleep lock as `LockAbs` describes it. `Log` uses buffers as `BioAbs`
describes them, with eviction explicit since pinning is `Log`'s own duty. `Inode` runs its calls in
transactions that become durable in groups, as `LogAbs` describes. `Fs` uses the
inode table as `Inode` shows it and transactions as reservations of blocks; it leaves
crashes to `Log` and `Inode`. `Sh` composes fork, exit and wait of `Proc` with the
descriptors of `Files` and the ends of pipes of `Pipe`, as atomic steps. The hazards
of each part are listed in `PROJECT.json` with their lines and the properties
that watch them.

## 2. The modules

**Proc.** One kernel thread per slot with a program counter `pc`; `cproc[c]` is
`c->proc`, and a spinlock is the CPU that holds it. A section that takes one lock
and drops it again is a step of its own, guarded by the lock being free. A lock
that is held while another is taken, or across `swtch`, is visible: `p->lock`
from `yield`, `sleep` or `kexit` into the scheduler, `wait_lock` over the scan of
`kwait` and over `reparent`, the child's lock in `kfork`. Loops over the table take
one slot a step. `ForkFail` is `uvmcopy` failing. A `panic` is the label `"panic"`.
Nothing is assumed of user code: `init` may be killed, and may exit at any time (its
code does when a `fork` or `wait` fails), which ends in the panic of `kexit` and the label
`"init_exiting"`.

**Spinlock.** `acquire` is `push_off`, the atomic swap, the store of `lk->cpu`;
`release` the reverse; `holding` reads both fields. Handlers start whenever the
interrupts of a CPU are on, and take the lock of their device. Threads give up
their CPU with `p->lock` held and resume on any CPU, with `intena` saved as in
`sched`. `LockAbs` is the contract: free, or owned by one. Which lock is taken under which
is the constant `Nests`, of which only the absence of a cycle is assumed.
`KernelNests` lists the nestings of the kernel by the names of their locks, among them the
locks taken under `p->lock` (`proc.c:349`, `353`, `477`, `493`, `494`) and `bcache.lock` under
`log.lock` (`log.c:232`); TLC evaluates that they have no cycle (`KernelOrder`). One nesting is
not in the list: `iput` takes the spinlock of a sleep lock under `itable.lock`
(`fs.c:352`), with `ref = 1`, when nobody else can ask for it (`IputNoBlock` of `Inode`).

**SleepLock, Bio, Log.** `SleepLock` has the inner spinlock, sleeping, waking of all
and kills. `Bio` keeps the buffers as a sequence in LRU order and
`BioAbs` is an array of blocks that are read, written and held. Who uses a block is a `Use`,
from `bread` to `brelse`: a process that has two blocks, as `bmap` and `install_trans`
have, is two of them. A `bget` that finds no buffer panics with `bcache.lock` held, and the
cache stands still. `Log` keeps cache
and disk apart, commits block by block, evicts unpinned blocks, and may crash
between any two writes, also during recovery; `LogAbs` says that the disk after
recovery is the state after some number of group commits. The header is written
in one step, as `ramdisk_rw` copies one block under its lock. The RAM disk itself is volatile:
crashes are about the contract `log.c` has with a disk that is not.

**Files, Inode.** `Files` counts references: each slot's `ofile` and `cwd`, the
file table, pipe ends and inode references, with the steps of `fileclose`,
`pipealloc` and `sys_pipe` on their error paths apart. `Inode` is the inode table and the disk
with one directory: calls of the processes step through `iget`, `ilock`,
`iunlock`, `iput`, and a crash takes the disk back to the last group commit,
after which `ireclaim` runs. In `sys_unlink` and `create` the unlock of the directory and the
update of the link count are one step: the inode stays locked over both.

**Pipe, Console, Uart, Clock.** Pipes move a byte a step; `UMOD` is the width of
`uint` (2^32 in the code), a multiple of the ring size as there. `Console` enters
characters one by one as the interrupt does. `Uart` has an external model of the
device (`Drain`, `Receive`, `WriteThr`). `Clock` counts modulo `UMOD`, and takes a
process not to be kept off the CPU for a whole turn of the counter.

**Memory.** Pages are counted, and a page table is the set of its mapped page
numbers and whether its lower-level tables exist. Each `kalloc` is a step of its own
that can fail; sizes are bytes, with `PGSIZE` 2 so that sizes within a page occur.
A page fault is that of a program, of a copy between kernel and process, or of
`sys_exec` as it fetches its arguments, each of which holds a page until `kexec` is
over; what happens when the fault fails differs. `copyinstr` does not call `vmfault` and so
changes nothing. `init`'s first `kexec` succeeds, and the tables of `proc_pagetable`
count as the root.

**Fs, FsAbs.** The disk is a record that the functions take and return, as the C
functions pass buffers: the bitmap, the blocks, the inodes on the disk and in
memory, the blocks the current transaction logged, and whether something
panicked. What a process does with an inode locked is one step, since the only
things others share with it are the bitmap and the free inodes, each taken
atomically. A step that panics is the last one and leaves no other trace. Between the steps of one
call others run: after each directory of `namex`, between the parts of a long write, and before an `iput` that follows an
unlock. A unit is a byte, an address or a directory entry. A write may fail in
`copyin` after some units. `FsAbs` knows files as sequences, directories as sets
of names, and open files with an offset; it allows a write that fails to change
bytes it does not report (`Spill`), since `writei` breaks off a block after part of it was
copied. The initial disk is what `mkfs` computes from a list of files, with directories that
`sys_mkdir` made in it before this boot.

**ShParse, ShGrammar, Sh.** `ShParse` has a definition for each function of the
parser, on indices in place of pointers; `ShGrammar` says independently which trees the
tokens of a line have. `Sh` is the shell: each process is at a point of `main` or `runcmd`,
and a command is known by its path in the tree. Programs read to the
end, write until nobody reads, or just end; each may close its descriptors first, or open
one more file, as `logstress` does, because `kexit` closes nothing: what a process had open
when it exited stays open (`left`), and the slot keeps the descriptor for the next
process, as `kfork` copies only the open ones of the parent. A line ends with a newline, at the
end of the input, or where the buffer is full; the console turns `\r` into a newline
(`uart.c:322`), so `gets` does not see one. Kills are left out of `Sh`: a process that is
killed in `wait` returns from it and exits.

## 3. The runs

| Run | Instance | Shows |
|---|---|---|
| `proc` | 2 CPUs, 3 slots, pids up to 3, kill of 3 | `StackExclusive`, `NoLostWakeup`, `NoOrphan`, `NoPanic`, `NoDeadlock`, and that `init` reaps its children (`InitReaps`); 73,207 states |
| `spinlock` | 2 CPUs, 2 threads, `wait_lock` and `kmem`, nested as in `kwait` | `IntrRestored`, `WfiSafe`, `NoDeadlock`, and the locks implement `LockAbs`; 357,016 states |
| `bio` | 2 uses, 4 blocks, 3 buffers, 2 pins | `bget` panics only with every buffer in use or pinned (`PanicOnlyFull`), and the cache implements `BioAbs`; 468,253 states |
| `log` | 2 calls, 4 blocks, log of 4 | atomic commits over crashes (`LogAbs`), no overrun, every call starts; 74,944 states |
| `files` | 2 slots, 3 files, 2 descriptors, 1 pipe, 2 inodes | counts cover their references (`RefsCover`), pipe ends and inodes are held as long as they are used; 1.9 M states |
| `inode` | 2 processes, 2 inodes, 2 names, 1 crash | `IputNoBlock`, `NotFreed`, `DiskConsistent`; 2.7 M states |
| `pipe` | 2 writers, 1 reader, ring of 2, counters mod 4 | `NoLostWakeup`, `NoUseAfterFree`, `PipeAbs`; 2.3 M states |
| `memory` | 3 slots, 8 pages, 2 pages per program, 2 in a call at a time | pages conserved, no panic of `freewalk` or `mappages`, memory kept; 534,556 states |
| `console` | 2 readers, ring of 3, counters mod 6 | `NoLostWakeup`, `ConsoleAbs`; 119,148 states |
| `uart` | 2 harts, 2 processes, 3 bytes, FIFO of 3 | `IntrComes`, `NoOverrun`, every write ends; 164,736 states |
| `fs` | 2 processes, 2 files, 4 inodes, 3 in the table, 8 blocks of 2 units, 2 direct blocks, 2 images, 4 calls | `NoPanic`, bitmap and inodes agree (`BlocksExact`), `TransFits`, `FsAbs`; 203,815 states |
| `sh` | 5 processes, 6 descriptors, all lines of 4 of 9 characters, 9 lines run, 2 in a row, of up to 8 characters | `ParseRight`, `Wired`, `InOrder`, `PromptReturns`; 183,198 states |

Six configurations beside these runs check more of the same modules:
`MCProcLive.cfg` (a runnable process runs, a killed one exits or sleeps, `init` included, unless
`init` has exited) and
`MCPipeLive.cfg` (a reader sees the end of file, a write returns) pass; the
`*Known.cfg` are described below. The `TypeOK` of the modules that have one was checked as an invariant on the
instances of the table, `Memory` also with 9 and 10 pages and without the bound
`MaxBusy`, and `Sh` also with the lines `w|e&;e` and `(x;e)|r`.

Why these bounds are enough to be interesting: three slots are the least with a
grandchild to reparent; three buffers do run out with two uses and two pins, and the fourth
block makes for recycling; the rings are smaller than what is
written, and every counter wraps several times; two calls reserve the whole log, so that
with a block logged `begin_op` sleeps for space; eight pages are too few for three processes, so that each allocation fails in some
state. `MaxBusy` counts the processes in the middle of a call; two suffice for any
allocation to be taken by another. The FIFO of the UART has 16 places; three is the least for which two harts
do not overrun it, since each CPU may have seen the transmitter idle. Eight blocks of two
units are filled by one long write, which needs the indirect block and two
transactions; names are cut at two characters. Three entries of the inode table are one less than
there are inodes, and the image with the directories `d/e` has a directory whose parent can go. Lines of four characters have every pair of
symbols next to each other and one level of parentheses; five processes are one
too few for a pipeline of three, so that each of its forks fails in some state. One of the
lines that are run has as many words as `MAXARGS`, one is a blank that ends without a newline, and
the longest fill the buffer.

Symmetry is used for identical CPUs, processes, threads and names in runs
without liveness properties. Deadlock checking is off for `files` (all files may
leak), `bio` (`bget` may panic), `pipe` (everyone may have closed), `uart` (everything is sent), `fs` (the
number of calls is bounded) and `sh` (the shell may exit, and a pipeline may hang).

Fairness is what scheduling gives. `Proc`: a CPU goes on executing and a spinning
`acquire` gets the lock in the end (SF, the swap is not a queue), timers keep
interrupting user mode, and `init` keeps waiting until it exits. `Log`, `Pipe`, `Uart`: processes
in the kernel go on; a process woken for log space or for the lock of a pipe does not lose the race for
ever (SF), since timers and the round of the scheduler reach all. A reader of a
pipe goes on reading. The UART sends and interrupts. `Sh`: every process that can
take a step takes one (WF), which is `RunnableRuns` of `Proc`; nobody is assumed to type.

### Where the code disagrees with its comments and tests

The properties below state a sentence of the repository, and TLC shows the code
not to have them; run the configuration with `tlc -continue` to see the traces.

| Property, configuration | The sentence | The code |
|---|---|---|
| `KilledNeverSleeps`, `MCProcKnown` | `proc.c:768`: a killed process notices when it next sleeps | `sleep` does not look at `killed`; `kwait` tests it before (`proc.c:675`) |
| `KillNeedsProcess`, `MCProcKnown` | `proc.c:765`: -1 if there is no such process | `kill(0)` matches an unused slot (`proc.c:780`), whose next process starts killed |
| `ReleasedByWait`, `MCFilesKnown` | `proc.c:574`: resources are released by `wait` | neither `kexit` nor `freeproc` closes files (`proc.c:588`) |
| `CopiesParent`, `MCFilesKnown` | `proc.c:460`: the child is a copy of its parent | a reused slot keeps old descriptors (`proc.c:492`) |
| `PromptAlways`, in place of `PromptReturns` in `MCSh` | `proc.c:587`: close all open files; `pipe1` of `usertests.c:922` | commented out: the reader of a pipeline waits for ever, and the shell with it |
| `FreedByLast`, `MCInodeKnown` | `fs.c:338`: the last `iput` frees an inode without links | the number can be reused between the free and `ref--` (`fs.c:366`), and is then lost until `ireclaim` |
| `ForkReturns`, `MCMemoryKnown` | `usertests.c:2805`: fork after `sbrklazy` | `uvmcopy` panics at `vm.c:323` or `325` |
| `FaultKills`, `MCMemoryKnown` | `trap.c:157`: a failed fault kills the process | `setkilled` is commented out (`trap.c:160`) |

Met while modelling, and within what the properties allow:

- `kexit` panics when `init` exits (`proc.c:585`). `kkill` does not spare pid 1, and `init` exits
  when its `fork` or `wait` fails (`user/init.c:30`, `47`). `NoPanic` of `Proc` is about the other panics.
- `param.h:9` has `MAXOPBLOCKS` as the most blocks a call writes. A call that writes that many, and
  one of them again, can panic, since `log_write` tests for room before it looks for the block in
  the log (`log.c:221`): with `OpBlocks = 2` in `MCLog.cfg` TLC shows `NoPanic` of `Log` violated.
  `TransFits` of `Fs` is that the calls write fewer.
- A directory that is in use after it was removed still has its `..`. When the parent is removed too,
  `open("..")` reads a free inode, and `ilock` panics (`fs.c:321`); `NoPanic` of `Fs` says that this
  is the only way to that panic. The panic of `iget` with its table full (`fs.c:273`) is reached as well.
- Whether 30 buffers are enough (`param.h:11`) is not settled by the sizes: 64 processes may use
  blocks, some two at a time, and the log pins up to 30.

Also met: a file created in a
directory that is unlinked meanwhile has a link count of 1 and no name
(`create` does not look at the count of the directory); when the entries of the root fill whole blocks, `mkfs`
rounds its size up by one more block, which has no address; of two redirections of the
same kind the first on the line is the one that counts, since `runcmd` opens the
outermost, the last, first.

## 4. The proofs

Six properties of `Proc`, four of `Spinlock`, two of `Bio`, two of `Log`, three of
`Inode` and three of `Pipe` that the runs check on small instances are proved for every
instance. Each proof has an
inductive invariant `IInv`, which TLC checked on the instance of the run before it
was proved, and a lemma for each action. What an action leaves alone is said once,
in frame lemmas: an action is a move of one process or CPU, and a conjunct of
`IInv` that such a move cannot disturb is dismissed by citing its frame.

**The process table** (`ProcInv`, `ProcProofs`), from
`ProcAssumption`: at least one slot, `NoCpu` is no CPU, the pids that are killed are numbers.

- `TypeCorrect`: `Spec => []TypeOK`;
- `StackSafe`: `Spec => []StackExclusive`, no kernel stack is used by two CPUs;
- `WakeupSafe`: `Spec => []NoLostWakeup`;
- `OrphanSafe`: `Spec => []NoOrphan`;
- `PanicFree`: `Spec => []NoPanic`, none of the panics of `sched`, and no zombie runs again;
- `ProcNeverDeadlocks`: `Spec => []NoDeadlock`, no set of CPUs waits for its own locks.

They follow from `Invariant`, `Spec => []IInv`. The properties are not inductive: that two
CPUs do not share a stack depends on who holds `p->lock` at every point of the
code, and that a wakeup is not lost depends on what `kwait` has scanned and whom
`kexit` has woken. `IInv` (module `ProcInv`) says:
which CPU holds which `p->lock` and `wait_lock` at each label, exactly
(`PLockInv`, `WaitLockInv`); the state of a slot on a CPU and where others will
resume (`CpuInv`, `RunInv`, `RestInv`); that `kfork` owns the slot it prepares
(`ForkInv`); that parents are alive and a process past `reparent` has no children
(`FamilyInv`, `InitInv`); that slots already scanned by `kwait` hold no zombie child
(`ScanInv`), that a parent already passed by `wakeup` in `kexit` is awake
(`PassedInv`), and that a parent on its way to bed has no zombie child
(`WakeupInv`), except `init` for the moment before `wakeup(initproc)` starts.
The lock order is a consequence: a CPU that holds a `p->lock` waits for nothing
(`HolderRuns`), so the holder of `wait_lock`, which may wait for a `p->lock`, gets on.
`ProcProofs` has the types, the frames, and then a section for each part of `proc.c`:
system calls, the scheduler, `kfork`, `kexit`, `wakeup`, `kwait`, `sleep` and `kkill`.

**Spinlocks** (`SpinlockProofs`), from `SpinlockAssumption`: CPUs, threads and
devices are different things, and so are the contexts `<<c>>` of the handlers; and from
`NestsAssumption`: the nestings of the locks have no cycle.

- `SpinlockIsLock`: `Spec => ImplementsLock`, every lock is free or owned by one CPU (`LockAbs`);
- `InterruptStateRestored`: `Spec => []IntrRestored`;
- `WfiIsSafe`: `Spec => []WfiSafe`;
- `SpinlocksNeverDeadlock`: `Spec => []NoDeadlock`;
- `SpinlockTypes`, and `SpinlockNeverPanics` for the panics of `acquire`, `release`,
  `pop_off` and `sched`.

The owner of a lock is not a variable of the code: it is the CPU that is between the
swap of `acquire` and the store of `release`, in one of the contexts on it, or that
got the lock with a thread in `swtch`. `LockInv` says that `locked` and `lk->cpu`
agree with that; `NoffInv` that `noff` is the number of pushes of the active context and that
interrupts are off while it is positive, so that a handler starts only where no lock
is held; `BaseInv` and `SchedInv` where the interrupt state of a thread is
kept (the bit, `intena`, or `sched`'s local) at each point; `OrderInv` that what a context
waits for may be nested in all it holds. In a set of CPUs that wait for each other one of the locks
they wait for is last in the nesting; its owner holds it and waits for another, which
contradicts that. The refinement maps the swap to acquiring, the store to releasing, and
every other step, switches and interrupts included, to a stutter.

**The buffer cache** (`BioProofs`), from `BioAssumption`: finitely many uses at a time, at least
one buffer.

- `BioIsBlocks`: `Spec => ImplementsBlocks`, one copy of every block, used by one process
  at a time (`BioAbs`);
- `PanicsOnlyFull`: `Spec => []PanicOnlyFull`, `bget` panics only with every buffer in use or pinned;
- `BioTypes`: `Spec => []TypeOK`.

`RefInv` says that `refcnt` is the number of uses between `bget` and the end of
`brelse` plus the pin of the log, so a buffer with `refcnt` 0 is nobody's and may be
recycled; `BlockInv` that a block is in one buffer at most and that the block of a
buffer in use does not change; `OwnInv` who holds its sleep lock; `ValidInv` and `CleanInv` that a
buffer that has been read differs from the disk only while it is pinned or being changed, which is
why recycling loses nothing; `ListInv` that every buffer is on the LRU list. Reading
from the disk, recycling and writing home do not change what `BioAbs` sees and map to stutters;
`bread`, the change and `brelse` are its steps. `FullInv` says that after a panic no count is
zero, and stays so since nobody gets `bcache.lock` any more; with `RefInv` each count is a pin or
somebody's use.

**The log** (`LogProofs`), from `LogAssumption`: finitely many blocks and calls, a
log of at least `MAXOPBLOCKS`, and calls that write at most `MAXOPBLOCKS` blocks.

- `LogNeverPanics`: `Spec => []NoPanic`, `log_write` never finds the log full, for calls that write
  fewer than `MAXOPBLOCKS` (with as many, an absorbed write can find `lh.n` at its limit);
- `LogIsAtomic`: `Spec => ImplementsAtomicDisk`, a crash leaves a state after whole
  group commits (`LogAbs`).

For the first, `RoomInv` counts what is logged and what the calls may still log;
the two together never exceed the log, which is more than `begin_op` tests. For the second, the
invariant follows a commit through the disk: what of the log is
copied (`SlotInv`), when the header names it (`HdrInv`), what is installed
(`HomeInv`), that pinned blocks are in the cache until then (`PinInv`), and that
nothing else runs meanwhile (`CommitInv`, `BootInv`). The step that writes the header
is the commit of `LogAbs`; calls, their writes and crashes are its steps of those
names; copying, installing, erasing, evicting and recovering stutter.

**Inodes** (`InodeProofs`), from `InodeAssumption`: finitely many processes and names, at
least one disk inode and one entry of the table; any bound on links and crashes.

- `IputNeverBlocks`: `Spec => []IputNoBlock`, `acquiresleep` under `itable.lock` finds the
  lock free;
- `InUseNotFreed`: `Spec => []NotFreed`, an inode that is locked or open is allocated and
  its copy is up to date;
- `CrashConsistent`: `Spec => []DiskConsistent`, the link counts a crash leaves are
  the numbers of names, and no name is of a free inode.

They follow from `InodeInvariant`. `RefInv` says that `ref` counts the processes that have
an entry, so that `ref = 1` in `iput` means nobody else, and `EntryInv` that an inode is in one
entry; `LockInv` and `DirInv` say who holds the sleep locks. Freeing an inode and dropping
its reference are two steps, and `create` can be given the number, and find the dying
entry in the table, between them: `FreeInv` says that only a `create` still waiting for the
lock may share the entry then, and `NewInv` that a number fresh from `ialloc` is in no one
else's use, so the copy that is out of date (`CopyInv`, `ValidInv`) is read anew before
it is looked at. `LinkInv` counts the links `sys_link` has promised but
not yet entered, or not yet taken back, with the names. At the end of the last transaction
nobody has such a promise (`ActiveInv`, `AloneConsistent`), which is why the disk that is
committed is consistent although the disk in between is not. The link count is a
natural number up to `MaxLink`; that the code's `short` wraps after 32767 links is left out.

**Pipes** (`PipeProofs`), from `PipeAssumption`, of which the one about the code is that
`PIPESIZE` divides `UMOD` (512 and 2^32).

- `PipeIsFifo`: `Spec => ImplementsFifo`, the ring is a bounded queue (`PipeAbs`);
- `PipeWakesSleepers`: `Spec => []NoLostWakeup`;
- `PipeFreedLast`: `Spec => []NoUseAfterFree`;
- `PipeTypes`, in which `freed` is at most 1.

`WriterInv` and `ReaderInv` extend the wakeup property to the moments when
`pi->lock` is held: a writer may sleep beside a ring that is not full as long as a reader
is in its copy loop and has its wakeup before it, and the other way round.
`CloseInv` says who may be in `pipeclose`: one process of each end, and one that
frees. For the queue, lemmas about unsigned arithmetic (`CountFacts`, `CountSteps`,
`RingPeriod`, `RingDistinct`) show that the tests for full and empty are tests of the
number of bytes, that a counter's wrap-around does not move it in the ring, and that a byte is
written to a place that holds none of the others.

**Sleep locks and the clock.** `SleepLock` proves, for any set of processes (from `None` being no process):
`HolderSafe` (`holdingsleep` is true of the holder only), `SleeperSafe` (nobody
sleeps for a free lock) and `Refinement` (`Spec => ImplementsLock`, the lock of
`LockAbs`). The invariant adds that the inner spinlock is held just at the test of
`locked`: that is what makes test and sleep one step for the others. The initial
states map to a free lock; taking and releasing are the steps of `LockAbs`, the
others stutter.

`Clock` proves, for any set of processes and any width of the counter (from
`ClockAssumption`): `OversleepSafe` and `PauseSafe`, a pause that is not cut short
lasts its ticks. The invariant says that the unsigned difference `ticks - ticks0`
is the number of ticks since the call, and that a sleeper's time is not over; it
needs the assumption that no pause is kept off the CPU for a turn of the counter, which is a
guard of `Tick`. These two modules have no run: the invariants were checked by TLC with three
and two processes before they were proved.

Only model-checked: all liveness (fairness and ENABLED are out of the prover's
reach); what the recursive definitions of `Fs` and `ShParse` compute, which would need
induction over data; and `Files`, `Memory`, `Console`, `Uart`, `Fs` and
`Sh`, for which no inductive invariant has been worked out.

## 5. What is not modelled

- Boot (`main.c`, `start.c`), the assembly of traps and switches, and the kernel
  page table: straight-line code that runs before or below what the modules see.
- Formatted output, strings and register access: pure functions.
- Contents and permissions of pages, and ELF files with several segments, which may share a
  page in `kexec`: `Memory` counts pages and loads one segment.
- `mknod` and device files but the console; `link` and crashes in `Fs` (they are in
  `Inode`, with one directory); torn block writes, which `ramdisk_rw` does not have.
- The wrap of `nextpid`, which takes 2^31 forks and which nothing in `proc.c` handles.
- `umalloc.c`, `grind.c`, `usertests.c` and the other programs: the modules let
  programs make any call in any order.

Proofs that would come next: `NoLostWakeup` of `Console`, `IntrComes` and `NoOverrun`
of `Uart`.
