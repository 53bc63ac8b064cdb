-------------------------------- MODULE Files --------------------------------
(***************************************************************************)
(* Open files (kernel/file.c, the descriptor calls of kernel/sysfile.c,    *)
(* pipealloc and pipeclose of kernel/pipe.c): the descriptors of the       *)
(* processes, the file table they share, and the pipes and inodes behind   *)
(* it, with what fork, exit and wait do to them (kernel/proc.c).           *)
(*                                                                         *)
(* A critical section of ftable.lock is one step, and so is what a process *)
(* does to files only it can see.  Between them the processes interleave:  *)
(* pipealloc takes its two files one at a time, a fork duplicates the      *)
(* descriptors one at a time, and fileclose drops the reference first and  *)
(* closes the pipe or puts the inode afterwards.  A device file is opened  *)
(* and closed like an inode and is not told from one.                      *)
(***************************************************************************)
EXTENDS Integers, Sequences, FiniteSets, FiniteSetsExt

CONSTANTS
    NPROC, NFILE, NOFILE,
    Pipe,     \* the pages pipes are put in
    Inode,
    Null,     \* a null pointer
    MaxRef    \* bound: no new references once a count is this high

ASSUME FilesAssumption ==
    /\ NPROC \in Nat \ {0} /\ NFILE \in Nat \ {0} /\ NOFILE \in Nat \ {0}
    /\ MaxRef \in Nat
    /\ Null \notin Pipe \cup Inode

VARIABLES
    state, ofile, cwd,  \* struct proc, by slot; descriptor 0 is no file
    file,               \* ftable.file; end is "r" or "w", by writable
    ends,               \* the open ends of each pipe; {} when it is free
    iref,               \* the references to each inode
    pc,                 \* where the process of a slot is in its system call
    work,               \* the files its call has in hand
    ff,                 \* fileclose: the copy of the closed file
    np, i               \* kfork: the child and the loop counter

vars == <<state, ofile, cwd, file, ends, iref, pc, work, ff, np, i>>

Slot == 1..NPROC
File == 1..NFILE
Fd == 0..NOFILE - 1
initproc == 1

NoFile == [ref |-> 0, type |-> "NONE", end |-> "r", pipe |-> Null, ip |-> Null]

(* userinit: one process, without descriptors, in the root directory. *)
Init ==
    /\ state = [p \in Slot |-> IF p = initproc THEN "RUNNING" ELSE "UNUSED"]
    /\ ofile = [p \in Slot |-> [d \in Fd |-> 0]]
    /\ file = [f \in File |-> NoFile]
    /\ ends = [k \in Pipe |-> {}]
    /\ \E n \in Inode : /\ cwd = [p \in Slot |-> IF p = initproc THEN n ELSE Null]
                        /\ iref = [m \in Inode |-> IF m = n THEN 1 ELSE 0]
    /\ pc = [p \in Slot |-> "user"]
    /\ work = [p \in Slot |-> <<>>]
    /\ ff = [p \in Slot |-> NoFile]
    /\ np = [p \in Slot |-> p]
    /\ i = [p \in Slot |-> 0]

At(p, l) == state[p] = "RUNNING" /\ pc[p] = l
Goto(p, l) == pc' = [pc EXCEPT ![p] = l]
Have(p, s) == work' = [work EXCEPT ![p] = s]
Bounded == /\ \A f \in File : file[f].ref < MaxRef
           /\ \A n \in Inode : iref[n] < MaxRef

FreeFiles == {f \in File : file[f].ref = 0}
FreeFds(p) == {d \in Fd : ofile[p][d] = 0}

(* filealloc: the first file without a reference; fdalloc: the first       *)
(* descriptor without a file.                                              *)
filealloc(f) == FreeFiles # {} /\ f = Min(FreeFiles)
fdalloc(p, d) == FreeFds(p) # {} /\ d = Min(FreeFds(p))

(* iget and idup, iput: the counts r of the inodes with one more, one less *)
idup(r, n) == [r EXCEPT ![n] = @ + 1]
iput(r, n) == [r EXCEPT ![n] = @ - 1]
-----------------------------------------------------------------------------
(* sys_open: the inode is found, then a file and a descriptor for it. *)
Open(p, n) ==
    /\ At(p, "user")
    /\ Bounded
    /\ \E f \in File, d \in Fd :
        /\ filealloc(f)
        /\ fdalloc(p, d)
        /\ file' = [file EXCEPT ![f] = [@ EXCEPT !.ref = 1, !.type = "INODE", !.ip = n]]
        /\ ofile' = [ofile EXCEPT ![p][d] = f]
    /\ iref' = idup(iref, n)
    /\ UNCHANGED <<state, cwd, ends, pc, work, ff, np, i>>

(* sys_open without a descriptor: the file is closed, which has no type    *)
(* yet, and the inode put.                                                 *)
OpenFail(p) ==
    /\ At(p, "user")
    /\ FreeFds(p) = {}
    /\ \E f \in File : /\ filealloc(f)
                       /\ file' = [file EXCEPT ![f].ref = 1]
                       /\ Have(p, <<f>>)
    /\ Goto(p, "close")
    /\ UNCHANGED <<state, ofile, cwd, ends, iref, ff, np, i>>

(* Seeded fault: the new descriptor is not counted. *)
filedup_Forgets(f) == file[f].ref >= 1 /\ UNCHANGED file

(* filedup; it panics on a file without a reference. *)
filedup(f) == file[f].ref >= 1 /\ file' = [file EXCEPT ![f].ref = @ + 1]

(* sys_dup *)
Dup(p, d) ==
    /\ At(p, "user")
    /\ Bounded
    /\ ofile[p][d] # 0
    /\ \E e \in Fd : fdalloc(p, e) /\ ofile' = [ofile EXCEPT ![p][e] = ofile[p][d]]
    /\ filedup(ofile[p][d])
    /\ UNCHANGED <<state, cwd, ends, iref, pc, work, ff, np, i>>

(* sys_chdir: the old directory is put, the new one kept. *)
Chdir(p, n) ==
    /\ At(p, "user")
    /\ Bounded
    /\ iref' = iput(idup(iref, n), cwd[p])
    /\ cwd' = [cwd EXCEPT ![p] = n]
    /\ UNCHANGED <<state, ofile, file, ends, pc, work, ff, np, i>>
-----------------------------------------------------------------------------
(* sys_close: the descriptor goes first. *)
Close(p, d) ==
    /\ At(p, "user")
    /\ ofile[p][d] # 0
    /\ ofile' = [ofile EXCEPT ![p][d] = 0]
    /\ Have(p, <<ofile[p][d]>>)
    /\ Goto(p, "close")
    /\ UNCHANGED <<state, cwd, file, ends, iref, ff, np, i>>

(* A file without its last reference.  The fields the code leaves behind   *)
(* are not read while the type is FD_NONE, and set before it changes.      *)
Closed(f) == NoFile

Rest(p) == IF Tail(work[p]) = <<>> THEN "user" ELSE "close"

(* fileclose, under ftable.lock, of the first file in hand. *)
Fileclose(p) ==
    LET f == work[p][1] IN
    /\ At(p, "close")
    /\ file[f].ref >= 1
    /\ IF file[f].ref > 1
       THEN /\ file' = [file EXCEPT ![f].ref = @ - 1]
            /\ Have(p, Tail(work[p]))
            /\ Goto(p, Rest(p))
            /\ UNCHANGED ff
       ELSE /\ ff' = [ff EXCEPT ![p] = file[f]]
            /\ file' = [file EXCEPT ![f] = Closed(f)]
            /\ Goto(p, "put")
            /\ UNCHANGED work
    /\ UNCHANGED <<state, ofile, cwd, ends, iref, np, i>>

(* Seeded fault: the test of writable is inverted. *)
pipeclose_Inverted(S, e) == S \cap {e}

(* pipeclose: the open ends S without e; the page is freed with the last. *)
pipeclose(S, e) == S \ {e}

(* fileclose, after ftable.lock: pipeclose, or iput in a transaction. *)
Put(p) ==
    LET g == ff[p] IN
    /\ At(p, "put")
    /\ ends' = IF g.type = "PIPE" THEN [ends EXCEPT ![g.pipe] = pipeclose(@, g.end)] ELSE ends
    /\ iref' = IF g.type = "INODE" THEN iput(iref, g.ip) ELSE iref
    /\ ff' = [ff EXCEPT ![p] = NoFile]
    /\ Have(p, Tail(work[p]))
    /\ Goto(p, Rest(p))
    /\ UNCHANGED <<state, ofile, cwd, file, np, i>>
-----------------------------------------------------------------------------
(* pipealloc: the file for the read end. *)
PipeRead(p) ==
    /\ At(p, "user")
    /\ \E f \in File : /\ filealloc(f)
                       /\ file' = [file EXCEPT ![f].ref = 1]
                       /\ Have(p, <<f>>)
    /\ Goto(p, "pipe")
    /\ UNCHANGED <<state, ofile, cwd, ends, iref, ff, np, i>>

(* pipealloc: the file for the write end and a page for the pipe. *)
PipeWrite(p) ==
    /\ At(p, "pipe")
    /\ \E f \in File, k \in Pipe :
        /\ filealloc(f)
        /\ ends[k] = {}
        /\ ends' = [ends EXCEPT ![k] = {"r", "w"}]
        /\ file' = [file EXCEPT
             ![work[p][1]] = [@ EXCEPT !.type = "PIPE", !.end = "r", !.pipe = k],
             ![f] = [@ EXCEPT !.ref = 1, !.type = "PIPE", !.end = "w", !.pipe = k]]
        /\ Have(p, Append(work[p], f))
    /\ Goto(p, "pipe_fd")
    /\ UNCHANGED <<state, ofile, cwd, iref, ff, np, i>>

(* pipealloc: bad, without a second file or without a page. *)
PipeBad(p) ==
    /\ At(p, "pipe")
    /\ \/ FreeFiles = {} /\ UNCHANGED <<file, work>>
       \/ \E f \in File : /\ filealloc(f)
                          /\ file' = [file EXCEPT ![f].ref = 1]
                          /\ Have(p, Append(work[p], f))
    /\ Goto(p, "close")
    /\ UNCHANGED <<state, ofile, cwd, ends, iref, ff, np, i>>

(* sys_pipe: two descriptors ... *)
PipeFds(p) ==
    /\ At(p, "pipe_fd")
    /\ \E d, e \in Fd :
        /\ fdalloc(p, d)
        /\ e \in FreeFds(p) \ {d} /\ e = Min(FreeFds(p) \ {d})
        /\ ofile' = [ofile EXCEPT ![p][d] = work[p][1], ![p][e] = work[p][2]]
    /\ Have(p, <<>>)
    /\ Goto(p, "user")
    /\ UNCHANGED <<state, cwd, file, ends, iref, ff, np, i>>

(* ... or, without them or when copyout fails, both files are closed. *)
PipeFail(p) ==
    /\ At(p, "pipe_fd")
    /\ Goto(p, "close")
    /\ UNCHANGED <<state, ofile, cwd, file, ends, iref, work, ff, np, i>>
-----------------------------------------------------------------------------
(* kfork: allocproc finds a slot; it leaves the slot's ofile as it is. *)
Fork(p, q) ==
    /\ At(p, "user")
    /\ Bounded
    /\ state[q] = "UNUSED"
    /\ state' = [state EXCEPT ![q] = "USED"]
    /\ np' = [np EXCEPT ![p] = q]
    /\ Goto(p, "fork")
    /\ UNCHANGED <<ofile, cwd, file, ends, iref, work, ff, i>>

(* kfork: one turn of the loop over the descriptors. *)
ForkDup(p) ==
    LET f == ofile[p][i[p]] IN
    /\ At(p, "fork")
    /\ i[p] \in Fd
    /\ IF f = 0
       THEN UNCHANGED <<ofile, file>>
       ELSE filedup(f) /\ ofile' = [ofile EXCEPT ![np[p]][i[p]] = f]
    /\ i' = [i EXCEPT ![p] = @ + 1]
    /\ UNCHANGED <<state, cwd, ends, iref, pc, work, ff, np>>

(* Seeded fault: the child's directory is copied without idup. *)
ForkCwd_NoDup(p) == iref

ForkCwd(p) == idup(iref, cwd[p])

(* kfork: the child's directory; then it can run. *)
ForkEnd(p) ==
    /\ At(p, "fork")
    /\ i[p] = NOFILE
    /\ cwd' = [cwd EXCEPT ![np[p]] = cwd[p]]
    /\ iref' = ForkCwd(p)
    /\ state' = [state EXCEPT ![np[p]] = "RUNNING"]
    /\ i' = [i EXCEPT ![p] = 0]
    /\ np' = [np EXCEPT ![p] = p]
    /\ Goto(p, "user")
    /\ UNCHANGED <<ofile, file, ends, work, ff>>

(* kexit: the loop that closes the files and the iput of the directory are *)
(* commented out.                                                          *)
Exit(p) ==
    /\ At(p, "user")
    /\ p # initproc
    /\ state' = [state EXCEPT ![p] = "ZOMBIE"]
    /\ UNCHANGED <<ofile, cwd, file, ends, iref, pc, work, ff, np, i>>

(* kwait by the parent: freeproc clears neither ofile nor cwd. *)
Wait(q) ==
    /\ state[q] = "ZOMBIE"
    /\ state' = [state EXCEPT ![q] = "UNUSED"]
    /\ UNCHANGED <<ofile, cwd, file, ends, iref, pc, work, ff, np, i>>

Next == \E p \in Slot :
    \/ \E n \in Inode : Open(p, n) \/ Chdir(p, n)
    \/ OpenFail(p)
    \/ \E d \in Fd : Dup(p, d) \/ Close(p, d)
    \/ Fileclose(p) \/ Put(p)
    \/ PipeRead(p) \/ PipeWrite(p) \/ PipeBad(p) \/ PipeFds(p) \/ PipeFail(p)
    \/ \E q \in Slot : Fork(p, q)
    \/ ForkDup(p) \/ ForkEnd(p) \/ Exit(p) \/ Wait(p)

Spec == Init /\ [][Next]_vars
-----------------------------------------------------------------------------
(* The descriptors for file f, those left in slots without a process and   *)
(* those a call has in hand included.                                      *)
Entries(f) == {<<p, d>> \in Slot \X Fd : ofile[p][d] = f}
InHand(f) ==
    {<<p, k>> \in Slot \X {1, 2} :
        k \in DOMAIN work[p] /\ work[p][k] = f /\ ~(k = 1 /\ pc[p] = "put")}

InUse == {f \in File : file[f].ref > 0}

(* Every variable has its type; no count ever falls below zero, although   *)
(* fileclose and iput do not check the inode's.                            *)
TypeOK ==
    /\ state \in [Slot -> {"UNUSED", "USED", "RUNNING", "ZOMBIE"}]
    /\ ofile \in [Slot -> [Fd -> 0..NFILE]]
    /\ cwd \in [Slot -> Inode \cup {Null}]
    /\ file \in [File -> [ref : Nat, type : {"NONE", "PIPE", "INODE"}, end : {"r", "w"},
                          pipe : Pipe \cup {Null}, ip : Inode \cup {Null}]]
    /\ ends \in [Pipe -> SUBSET {"r", "w"}]
    /\ iref \in [Inode -> Nat]
    /\ pc \in [Slot -> {"user", "close", "put", "pipe", "pipe_fd", "fork"}]
    /\ work \in [Slot -> UNION {[1..n -> File] : n \in 0..2}]
    /\ np \in [Slot -> Slot]
    /\ i \in [Slot -> 0..NOFILE]

(* file.c filealloc, filedup, fileclose: no descriptor ever points to a    *)
(* file that has been freed or given to somebody else: a file has at least *)
(* a reference for every descriptor, so that filedup and fileclose do not  *)
(* panic.  It holds although exit closes nothing and fork overwrites what  *)
(* an earlier process left in the child's slot.                            *)
RefsCover ==
    \A f \in File : file[f].ref >= Cardinality(Entries(f)) + Cardinality(InHand(f))

(* pipe.c pipealloc and pipeclose: an end of a pipe is open as long as a   *)
(* file stands for it, or a fileclose on its way to pipeclose, and one     *)
(* file only; the page is free when both are gone.  The error paths, which *)
(* close files that never became pipes, close nobody else's.               *)
PipeEnds ==
    /\ \A k \in Pipe : ends[k] =
          {file[f].end : f \in {g \in InUse : file[g].type = "PIPE" /\ file[g].pipe = k}}
            \cup {ff[p].end : p \in {q \in Slot : ff[q].type = "PIPE" /\ ff[q].pipe = k}}
    /\ \A f, g \in InUse : /\ file[f].type = "PIPE" /\ file[g].type = "PIPE"
                           /\ file[f].pipe = file[g].pipe /\ file[f].end = file[g].end
                           => f = g

(* file.c, sysfile.c, proc.c: an inode has at least a reference for every  *)
(* open file and every working directory, so that iput never drops one     *)
(* that is in use, or closes it twice.                                     *)
InodesHeld ==
    \A n \in Inode :
        iref[n] >= Cardinality({f \in InUse : file[f].type = "INODE" /\ file[f].ip = n})
                   + Cardinality({p \in Slot : ff[p].type = "INODE" /\ ff[p].ip = n})
                   + Cardinality({p \in Slot : cwd[p] = n})
-----------------------------------------------------------------------------
(* What the comments of proc.c say and the code does not do *)

(* proc.c:574, kexit: the resources of a process are released when its     *)
(* parent calls wait().  Its descriptors would be gone with the process.   *)
ReleasedByWait ==
    \A p \in Slot : state[p] = "UNUSED" => \A d \in Fd : ofile[p][d] = 0

(* proc.c:459, kfork: create a new process, copying the parent.  The child *)
(* would start with the descriptors of its parent and no others.           *)
CopiesParent ==
    [][\A p \in Slot : pc[p] = "fork" /\ pc'[p] = "user" => ofile'[np[p]] = ofile[p]]_vars
=============================================================================
