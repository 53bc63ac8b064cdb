-------------------------------- MODULE Pipe --------------------------------
(***************************************************************************)
(* kernel/pipe.c: pipewrite(), piperead() and pipeclose() on one pipe that *)
(* pipealloc() has created, by processes that hold its two files.  The     *)
(* counters nread and nwrite wrap as unsigned integers do; sleep() and     *)
(* wakeup() are atomic here, as Proc shows they are for their callers.     *)
(* kkill() may hit a process at any time.                                  *)
(***************************************************************************)
EXTENDS Integers, FiniteSets

CONSTANTS Writer, Reader,   \* processes holding the write or the read file
          None,             \* no process
          Byte,             \* values of a byte
          PIPESIZE,         \* capacity of the ring
          UMOD,             \* 2^32 in the code: where the counters wrap
          MaxN              \* bound: longest read() or write()

ASSUME PipeAssumption ==
  /\ Writer \cap Reader = {} /\ None \notin Writer \cup Reader
  /\ PIPESIZE \in Nat \ {0}
  /\ MaxN \in Nat \ {0}
  /\ UMOD \in Nat /\ UMOD > PIPESIZE /\ UMOD % PIPESIZE = 0
  /\ Byte # {}

VARIABLES data, nread, nwrite, readopen, writeopen,   \* struct pipe
          lock,       \* pi->lock: the process that holds it
          freed,      \* how often the page of the pipe was freed
          pc, i, n,   \* of a process: place, local i, argument n
          killed,     \* of a process: p->killed
          fdopen,     \* of a process: 1 while it keeps its file open
          torn        \* history: a killed writer left bytes and woke nobody

pipe == <<data, nread, nwrite, readopen, writeopen, freed>>
args == <<i, n>>
proc == <<killed, fdopen>>
vars == <<pipe, lock, pc, args, proc, torn>>

Proc == Writer \cup Reader

\* Places inside pipewrite() and piperead(), and those outside.
Inside  == {"enter", "loop", "full", "wsleep", "rwait", "empty", "rsleep", "copy"}
Outside == {"idle", "close", "free", "closed", "dead"}

Init ==
  /\ data = [k \in 0..(PIPESIZE - 1) |-> CHOOSE b \in Byte : TRUE]
  /\ nread = 0 /\ nwrite = 0
  /\ readopen = 1 /\ writeopen = 1
  /\ lock = None
  /\ freed = 0
  /\ pc = [p \in Proc |-> "idle"]
  /\ i = [p \in Proc |-> 0]
  /\ n = [p \in Proc |-> 0]
  /\ killed = [p \in Proc |-> 0]
  /\ fdopen = [p \in Proc |-> 1]
  /\ torn = 0

Goto(p, l) == pc' = [pc EXCEPT ![p] = l]
At(p, l)   == pc[p] = l /\ lock = p

Empty == nread = nwrite
Full_Late == nwrite = (nread + PIPESIZE + 1) % UMOD  \* seeded fault
Full  == nwrite = (nread + PIPESIZE) % UMOD

\* wakeup(chan) by p, which goes to label l: all sleepers on the channel go on to
\* retake pi->lock.
wakeup(chan, p, l) ==
  pc' = [x \in Proc |-> IF x = p THEN l ELSE IF pc[x] = chan THEN "enter" ELSE pc[x]]

WakeReaders_WrongChan(p, l) == wakeup("wsleep", p, l)  \* seeded fault
WakeReaders(p, l) == wakeup("rsleep", p, l)
WakeWriters(p, l) == wakeup("wsleep", p, l)

More(p) == i[p] < n[p]

\* Return to the caller.
Return(p) == /\ lock' = None
             /\ i' = [i EXCEPT ![p] = 0]
             /\ n' = [n EXCEPT ![p] = 0]

-----------------------------------------------------------------------------
\* A process that was not killed calls read() or write() with k bytes, which
\* reaches the pipe.
Call(p) ==
  /\ pc[p] = "idle"
  /\ fdopen[p] = 1 /\ killed[p] = 0
  /\ \E k \in 0..MaxN : n' = [n EXCEPT ![p] = k]
  /\ Goto(p, "enter")
  /\ UNCHANGED <<pipe, lock, i, proc, torn>>

\* acquire(&pi->lock), on entry and at the end of sleep().
Acquire(p) ==
  /\ pc[p] = "enter"
  /\ lock = None
  /\ lock' = p
  /\ Goto(p, IF p \in Writer THEN "loop" ELSE "rwait")
  /\ UNCHANGED <<pipe, args, proc, torn>>

-----------------------------------------------------------------------------
(* pipewrite() *)

\* The loop is done, or copyin() fails: wake the readers and return.
WriteDone(w) ==
  /\ At(w, "loop")
  /\ ~More(w) \/ (readopen = 1 /\ killed[w] = 0 /\ ~Full)
  /\ WakeReaders(w, "idle")
  /\ Return(w)
  /\ torn' = 0
  /\ UNCHANGED <<pipe, proc>>

\* No reader is left, or the writer was killed: return -1 without a wakeup.
WriteFail(w) ==
  /\ At(w, "loop")
  /\ More(w)
  /\ readopen = 0 \/ killed[w] = 1
  /\ Goto(w, "idle")
  /\ Return(w)
  /\ torn' = IF i[w] > 0 THEN 1 ELSE torn
  /\ UNCHANGED <<pipe, proc>>

\* One byte into the ring.
WriteByte(w) ==
  /\ At(w, "loop")
  /\ More(w)
  /\ readopen = 1 /\ killed[w] = 0
  /\ ~Full
  /\ \E b \in Byte : data' = [data EXCEPT ![nwrite % PIPESIZE] = b]
  /\ nwrite' = (nwrite + 1) % UMOD
  /\ i' = [i EXCEPT ![w] = @ + 1]
  /\ UNCHANGED <<nread, readopen, writeopen, freed, lock, pc, n, proc, torn>>

\* The ring is full: having looked at killed, wake the readers and sleep.
WriteFull(w) ==
  /\ At(w, "loop")
  /\ More(w)
  /\ readopen = 1 /\ killed[w] = 0
  /\ Full
  /\ Goto(w, "full")
  /\ UNCHANGED <<pipe, lock, args, proc, torn>>

WriteSleep(w) ==
  /\ At(w, "full")
  /\ WakeReaders(w, "wsleep")
  /\ lock' = None
  /\ torn' = 0
  /\ UNCHANGED <<pipe, args, proc>>
-----------------------------------------------------------------------------
(* piperead() *)

\* The ring is empty and a writer is left: return -1 if killed ...
ReadKilled(r) ==
  /\ At(r, "rwait")
  /\ Empty /\ writeopen = 1
  /\ killed[r] = 1
  /\ Goto(r, "idle")
  /\ Return(r)
  /\ UNCHANGED <<pipe, proc, torn>>

\* ... else sleep.
ReadEmpty(r) ==
  /\ At(r, "rwait")
  /\ Empty /\ writeopen = 1
  /\ killed[r] = 0
  /\ Goto(r, "empty")
  /\ UNCHANGED <<pipe, lock, args, proc, torn>>

ReadSleep(r) ==
  /\ At(r, "empty")
  /\ Goto(r, "rsleep")
  /\ lock' = None
  /\ UNCHANGED <<pipe, args, proc, torn>>

ReadStart(r) ==
  /\ At(r, "rwait")
  /\ ~Empty \/ writeopen = 0
  /\ Goto(r, "copy")
  /\ UNCHANGED <<pipe, lock, args, proc, torn>>

\* One byte out of the ring.
ReadByte(r) ==
  /\ At(r, "copy")
  /\ More(r)
  /\ ~Empty
  /\ nread' = (nread + 1) % UMOD
  /\ i' = [i EXCEPT ![r] = @ + 1]
  /\ torn' = IF nread' = nwrite THEN 0 ELSE torn
  /\ UNCHANGED <<data, nwrite, readopen, writeopen, freed, lock, pc, n, proc>>

\* The loop ends, also because copyout() fails: wake the writers and return.
ReadDone(r) ==
  /\ At(r, "copy")
  /\ WakeWriters(r, "idle")
  /\ Return(r)
  /\ UNCHANGED <<pipe, proc, torn>>

-----------------------------------------------------------------------------
(* pipeclose(), reached from fileclose() by the last close() of a file *)

Peers(p) == IF p \in Writer THEN Writer ELSE Reader

Close(p) ==
  /\ pc[p] = "idle"
  /\ fdopen[p] = 1 /\ killed[p] = 0
  /\ fdopen' = [fdopen EXCEPT ![p] = 0]
  /\ Goto(p, IF \E x \in Peers(p) \ {p} : fdopen[x] = 1 THEN "closed" ELSE "close")
  /\ UNCHANGED <<pipe, lock, args, killed, torn>>

LastClose_EitherEnd == readopen' = 0 \/ writeopen' = 0  \* seeded fault
LastClose == readopen' = 0 /\ writeopen' = 0

\* The critical section; both ends closed means that the caller frees the page.
PipeClose(p) ==
  /\ pc[p] = "close"
  /\ lock = None
  /\ writeopen' = IF p \in Writer THEN 0 ELSE writeopen
  /\ readopen' = IF p \in Writer THEN readopen ELSE 0
  /\ LET l == IF LastClose THEN "free" ELSE "closed"
     IN  IF p \in Writer THEN WakeReaders(p, l) ELSE WakeWriters(p, l)
  /\ torn' = IF p \in Writer THEN 0 ELSE torn
  /\ UNCHANGED <<data, nread, nwrite, freed, lock, args, proc>>

Free(p) ==
  /\ pc[p] = "free"
  /\ freed' = freed + 1
  /\ Goto(p, "closed")
  /\ UNCHANGED <<data, nread, nwrite, readopen, writeopen, lock, args, proc, torn>>

-----------------------------------------------------------------------------
(* The rest of the kernel *)

\* kkill(): a sleeping process goes on.
Kill(p) ==
  /\ killed[p] = 0 /\ pc[p] \notin {"closed", "dead"}
  /\ killed' = [killed EXCEPT ![p] = 1]
  /\ IF pc[p] \in {"rsleep", "wsleep"} THEN Goto(p, "enter") ELSE UNCHANGED pc
  /\ UNCHANGED <<pipe, lock, args, fdopen, torn>>

\* kexit(): the code that closes the files of the process is commented out.
Exit(p) ==
  /\ pc[p] = "idle"
  /\ Goto(p, "dead")
  /\ UNCHANGED <<pipe, lock, args, proc, torn>>

Write(w) == \/ WriteDone(w) \/ WriteFail(w) \/ WriteByte(w)
            \/ WriteFull(w) \/ WriteSleep(w)
Read(r)  == \/ ReadKilled(r) \/ ReadEmpty(r) \/ ReadSleep(r)
            \/ ReadStart(r) \/ ReadByte(r) \/ ReadDone(r)

Next ==
  \/ \E w \in Writer : Write(w)
  \/ \E r \in Reader : Read(r)
  \/ \E p \in Proc : Call(p) \/ Acquire(p) \/ Close(p) \/ PipeClose(p) \/ Free(p)
                       \/ Kill(p) \/ Exit(p)

Spec == Init /\ [][Next]_vars

\* A process in the kernel keeps running, and pi->lock comes round to it (ticks
\* make the scheduler fair, see Proc).  A reader that lives goes on reading, now
\* and then into memory that copyout() accepts.
Fairness ==
  /\ \A w \in Writer : WF_vars(Write(w)) /\ SF_vars(Acquire(w))
  /\ \A r \in Reader : /\ WF_vars(Read(r)) /\ SF_vars(Acquire(r))
                        /\ SF_vars(Call(r) /\ n'[r] > 0) /\ SF_vars(ReadByte(r))
  /\ \A p \in Proc : SF_vars(PipeClose(p)) /\ WF_vars(Free(p))

LiveSpec == Spec /\ Fairness

-----------------------------------------------------------------------------
(* Properties *)

TypeOK ==
  /\ data \in [0..(PIPESIZE - 1) -> Byte]
  /\ nread \in 0..(UMOD - 1) /\ nwrite \in 0..(UMOD - 1)
  /\ readopen \in {0, 1} /\ writeopen \in {0, 1}
  /\ lock \in Proc \cup {None}
  /\ freed \in 0..1
  /\ pc \in [Proc -> Inside \cup Outside]
  /\ i \in [Proc -> 0..MaxN] /\ n \in [Proc -> 0..MaxN]
  /\ killed \in [Proc -> {0, 1}] /\ fdopen \in [Proc -> {0, 1}]
  /\ torn \in {0, 1}

\* The bytes between the two counters, also when nwrite has wrapped and nread
\* has not.
Count == (nwrite - nread) % UMOD
Queue == [k \in 1..Count |-> data[(nread + k - 1) % PIPESIZE]]

Abs == INSTANCE PipeAbs WITH q <- Queue, Size <- PIPESIZE

\* Bytes leave the pipe in the order in which they entered it, none lost, none
\* twice, and never more than PIPESIZE at once: pipewrite() and piperead()
\* implement a bounded queue, whatever the interleaving and across the
\* wrap-around of the counters.
ImplementsFifo == Abs!Spec

\* No lost wakeup: while pi->lock is free, a writer sleeps only if the ring is
\* full and a reader is left, and a reader sleeps only if the ring is empty and a
\* writer is left.  The one exception is pipewrite()'s early return, where a
\* killed writer leaves bytes behind without wakeup(&pi->nread).
NoLostWakeup ==
  lock = None =>
    /\ \A w \in Writer : pc[w] = "wsleep" => Full /\ readopen = 1
    /\ \A r \in Reader : pc[r] = "rsleep" => (Empty /\ writeopen = 1) \/ torn = 1

\* pipeclose() frees the page once, and after that nobody is inside pipewrite(),
\* piperead() or pipeclose(), or could get there: the last closer of each end
\* may race the other.
NoUseAfterFree ==
  \A p \in Proc : freed = 1 => fdopen[p] = 0 /\ pc[p] \in {"closed", "dead"}

\* Nobody waits for nobody: once every writer has closed its file, a reader in
\* piperead() returns (end of file).
EndOfFile ==
  \A r \in Reader : (pc[r] \in Inside /\ \A w \in Writer : fdopen[w] = 0) ~> pc[r] = "idle"

\* A write returns as long as some reader lives to read or closes its file.
WriteReturns ==
  \A w \in Writer :
    pc[w] \in Inside ~> \/ pc[w] = "idle"
                         \/ /\ \E r \in Reader : pc[r] = "dead" \/ killed[r] = 1
                            /\ \A r \in Reader : pc[r] \in {"dead", "closed"} \/ killed[r] = 1
=============================================================================
