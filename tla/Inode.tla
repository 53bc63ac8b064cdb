-------------------------------- MODULE Inode --------------------------------
(***************************************************************************)
(* Inodes (kernel/fs.c: ialloc, iget, ilock, iput, iupdate, ireclaim; the  *)
(* calls open, close, link and unlink of kernel/sysfile.c): disk inodes    *)
(* with a link count, the table of those in use in memory with a reference *)
(* count, and one directory of names.                                      *)
(*                                                                         *)
(* A critical section of itable.lock is one step, and so is the change of  *)
(* an inode or of the directory under its sleep lock (SleepLock shows that *)
(* it is a lock).  The changes of the transactions reach the disk together *)
(* when the last of them ends (Log shows that they do), and a crash goes   *)
(* back to what was there.  Inodes are files; what they contain is left    *)
(* out, and itrunc with it.                                                *)
(***************************************************************************)
EXTENDS Naturals, FiniteSets

CONSTANTS
    Proc, None, Name,
    NInum,     \* sb.ninodes - 1: the disk inodes are 1..NInum
    NINODE,    \* entries in the inode table
    MaxLink,   \* bound: no link to an inode with this many
    MaxCrash   \* bound on the crashes

ASSUME InodeAssumption ==
    /\ NInum \in Nat \ {0} /\ NINODE \in Nat \ {0}
    /\ MaxLink \in Nat /\ MaxCrash \in Nat
    /\ IsFiniteSet(Proc) /\ IsFiniteSet(Name)
    /\ None \notin Proc \cup Name

VARIABLES
    type, nlink, dir,   \* the disk, as the transactions have left it
    durable,            \* the disk a crash goes back to
    active,             \* the processes in a transaction
    booting,            \* fsinit is not done yet
    table,              \* itable.inode
    dirlock,            \* the process that holds the directory's lock
    pc,                 \* where each process is
    op, name, inum, e,  \* its call, and the call's variables
    crashes

disk == [type |-> type, nlink |-> nlink, dir |-> dir]
fs == <<type, nlink, dir>>
locals == <<op, name, inum, e>>
vars == <<fs, durable, active, booting, table, dirlock, pc, locals, crashes>>

Inum == 1..NInum
Entry == 1..NINODE

(* An entry: type and nlink are the copy of the disk's, as of ilock. *)
NoEntry ==
    [inum |-> 0, ref |-> 0, valid |-> FALSE, type |-> 0, nlink |-> 0, lock |-> None]

(* What only memory holds, at rest. *)
Rest == [op |-> [p \in Proc |-> "close"], pc |-> [p \in Proc |-> "idle"],
         name |-> [p \in Proc |-> None], inum |-> [p \in Proc |-> 0],
         e |-> [p \in Proc |-> 1], table |-> [x \in Entry |-> NoEntry]]

(* The disk mkfs made, and fsinit about to run. *)
Init ==
    /\ type = [k \in Inum |-> 0] /\ nlink = [k \in Inum |-> 0] /\ dir = [n \in Name |-> 0]
    /\ durable = disk
    /\ active = {} /\ booting = TRUE /\ dirlock = None
    /\ table = Rest.table /\ pc = Rest.pc /\ op = Rest.op
    /\ name = Rest.name /\ inum = Rest.inum /\ e = Rest.e
    /\ crashes = 0

At(p, l) == pc[p] = l
Goto(p, l) == pc' = [pc EXCEPT ![p] = l]
Fail(p) == op' = [op EXCEPT ![p] = "fail"]
-----------------------------------------------------------------------------
(* iget: the entry of inode k in use, or the first free one. *)
InTable(k) == {x \in Entry : table[x].ref > 0 /\ table[x].inum = k}

More(n) == n + 1

Empty == {x \in Entry : table[x].ref = 0}

iget(p, k) ==
    \E x \in Entry :
        /\ IF InTable(k) # {}
           THEN x \in InTable(k) /\ table' = [table EXCEPT ![x].ref = More(@)]
           ELSE /\ x \in Empty /\ \A y \in Empty : x <= y
                /\ table' = [table EXCEPT ![x] =
                     [@ EXCEPT !.inum = k, !.ref = 1, !.valid = FALSE]]
        /\ e' = [e EXCEPT ![p] = x]

(* begin_op, at the start of a call; a process closes the file it opened. *)
Begin(p, o) ==
    /\ ~booting
    /\ pc[p] = IF o = "close" THEN "open" ELSE "idle"
    /\ active' = active \cup {p}
    /\ op' = [op EXCEPT ![p] = o]
    /\ Goto(p, CASE o = "close" -> "put"
                 [] o \in {"open", "link"} -> "look"
                 [] o \in {"create", "unlink"} -> "dir")
    /\ UNCHANGED <<fs, durable, booting, table, dirlock, name, inum, e, crashes>>

(* namei, of open and link: dirlookup under the directory's lock. *)
Look(p) ==
    /\ At(p, "look")
    /\ dirlock = None
    /\ \E n \in Name :
        IF dir[n] = 0
        THEN Goto(p, "end") /\ Fail(p) /\ UNCHANGED <<table, e>>
        ELSE Goto(p, "ilock") /\ iget(p, dir[n]) /\ UNCHANGED op
    /\ UNCHANGED <<fs, durable, active, booting, dirlock, name, inum, crashes>>

(* create finds the name: the directory is unlocked, the file opened. *)
CreateFound(p, n) ==
    /\ At(p, "dir") /\ op[p] = "create"
    /\ dirlock = None
    /\ dir[n] # 0
    /\ iget(p, dir[n])
    /\ op' = [op EXCEPT ![p] = "open"]
    /\ Goto(p, "ilock")
    /\ UNCHANGED <<fs, durable, active, booting, dirlock, name, inum, crashes>>

(* create and sys_unlink go on with the directory locked. *)
LockDir(p, n) ==
    /\ At(p, "dir")
    /\ dirlock = None
    /\ (op[p] = "create") <=> (dir[n] = 0)
    /\ dirlock' = p
    /\ name' = [name EXCEPT ![p] = n]
    /\ IF op[p] = "create"
       THEN Goto(p, "ialloc") /\ UNCHANGED <<table, e>>
       ELSE Goto(p, "ilock") /\ iget(p, dir[n])
    /\ UNCHANGED <<fs, durable, active, booting, op, inum, crashes>>

UnlinkNone(p, n) ==
    /\ At(p, "dir") /\ op[p] = "unlink"
    /\ dirlock = None
    /\ dir[n] = 0
    /\ Goto(p, "end")
    /\ UNCHANGED <<fs, durable, active, booting, table, dirlock, locals, crashes>>

(* ialloc: an inode that is free on the disk is marked allocated. *)
ialloc(p) ==
    /\ At(p, "ialloc")
    /\ \E k \in Inum :
        /\ type[k] = 0
        /\ type' = [type EXCEPT ![k] = 1]
        /\ nlink' = [nlink EXCEPT ![k] = 0]
        /\ inum' = [inum EXCEPT ![p] = k]
    /\ Goto(p, "iget")
    /\ UNCHANGED <<dir, durable, active, booting, table, dirlock, op, name, e, crashes>>

NoInodes(p) ==
    /\ At(p, "ialloc")
    /\ \A k \in Inum : type[k] # 0
    /\ dirlock' = None
    /\ name' = [name EXCEPT ![p] = None]
    /\ Fail(p)
    /\ Goto(p, "end")
    /\ UNCHANGED <<fs, durable, active, booting, table, inum, e, crashes>>

(* ialloc: iget, after the block was released. *)
Iget(p) ==
    /\ At(p, "iget")
    /\ iget(p, inum[p])
    /\ inum' = [inum EXCEPT ![p] = 0]
    /\ Goto(p, "ilock")
    /\ UNCHANGED <<fs, durable, active, booting, dirlock, op, name, crashes>>

(* ilock: the sleep lock, then the copy of the disk unless it is valid. *)
ilock(p) ==
    LET x == table[e[p]] IN
    /\ At(p, "ilock")
    /\ x.lock = None
    /\ table' = [table EXCEPT ![e[p]] = [x EXCEPT !.lock = p, !.valid = TRUE,
                     !.type = IF x.valid THEN @ ELSE type[x.inum],
                     !.nlink = IF x.valid THEN @ ELSE nlink[x.inum]]]
    /\ Goto(p, "locked")
    /\ UNCHANGED <<fs, durable, active, booting, dirlock, locals, crashes>>

(* The inode p has locked gets n links, is written back and unlocked. *)
Update(p, n) ==
    /\ nlink' = [nlink EXCEPT ![table[e[p]].inum] = n]
    /\ table' = [table EXCEPT ![e[p]] = [@ EXCEPT !.nlink = n, !.lock = None]]

Links(p) == table[e[p]].nlink

UnlockDir(p) ==
    /\ dirlock' = None
    /\ name' = [name EXCEPT ![p] = None]

(* sys_open and ireclaim just unlock the inode. *)
Unlock(p) ==
    /\ At(p, "locked")
    /\ op[p] \in {"open", "reclaim"}
    /\ table' = [table EXCEPT ![e[p]].lock = None]
    /\ Goto(p, IF op[p] = "open" THEN "end" ELSE "put")
    /\ UNCHANGED <<fs, durable, active, booting, dirlock, locals, crashes>>

(* create: one link, and dirlink ... *)
Create(p) ==
    /\ At(p, "locked") /\ op[p] = "create"
    /\ Update(p, 1)
    /\ dir' = [dir EXCEPT ![name[p]] = table[e[p]].inum]
    /\ UnlockDir(p)
    /\ Goto(p, "end")
    /\ UNCHANGED <<type, durable, active, booting, op, inum, e, crashes>>

(* ... or, when dirlink has no block for the entry, none again. *)
CreateFail(p) ==
    /\ At(p, "locked") /\ op[p] = "create"
    /\ Update(p, 0)
    /\ UnlockDir(p)
    /\ Fail(p)
    /\ Goto(p, "put")
    /\ UNCHANGED <<type, dir, durable, active, booting, inum, e, crashes>>

(* sys_unlink: the entry goes, and a link with it. *)
Unlink(p) ==
    /\ At(p, "locked") /\ op[p] = "unlink"
    /\ Update(p, Links(p) - 1)
    /\ dir' = [dir EXCEPT ![name[p]] = 0]
    /\ UnlockDir(p)
    /\ Goto(p, "put")
    /\ UNCHANGED <<type, durable, active, booting, op, inum, e, crashes>>

(* sys_link: the link is counted first ... *)
Link(p) ==
    /\ At(p, "locked") /\ op[p] = "link"
    /\ Links(p) < MaxLink
    /\ Update(p, Links(p) + 1)
    /\ Goto(p, "dirlink")
    /\ UNCHANGED <<type, dir, durable, active, booting, dirlock, locals, crashes>>

(* ... then entered in the directory, or taken back if that fails. *)
Dirlink(p, n) ==
    /\ At(p, "dirlink")
    /\ dirlock = None
    /\ IF dir[n] = 0
       THEN /\ dir' = [dir EXCEPT ![n] = table[e[p]].inum]
            /\ Goto(p, "put")
            /\ UNCHANGED op
       ELSE /\ op' = [op EXCEPT ![p] = "undo"]
            /\ Goto(p, "ilock")
            /\ UNCHANGED dir
    /\ UNCHANGED <<type, nlink, durable, active, booting, table, dirlock, name, inum, e, crashes>>

Undo(p) ==
    /\ At(p, "locked") /\ op[p] = "undo"
    /\ Update(p, Links(p) - 1)
    /\ Goto(p, "put")
    /\ UNCHANGED <<type, dir, durable, active, booting, dirlock, locals, crashes>>
-----------------------------------------------------------------------------
(* Seeded fault: iput does not look at the other references. *)
Unused_Referenced(x) == x.valid /\ x.nlink = 0

(* iput's test, under itable.lock *)
Unused(x) == x.ref = 1 /\ x.valid /\ x.nlink = 0

(* iput: to free the inode, its lock is taken before itable.lock is given  *)
(* up; otherwise the reference is dropped.                                 *)
iput(p) ==
    LET x == table[e[p]] IN
    /\ At(p, "put")
    /\ IF Unused(x)
       THEN /\ x.lock = None
            /\ table' = [table EXCEPT ![e[p]].lock = p]
            /\ Goto(p, "free")
       ELSE /\ table' = [table EXCEPT ![e[p]].ref = @ - 1]
            /\ Goto(p, "end")
    /\ UNCHANGED <<fs, durable, active, booting, dirlock, locals, crashes>>

(* iput: itrunc, type = 0, iupdate *)
Free(p) ==
    /\ At(p, "free")
    /\ type' = [type EXCEPT ![table[e[p]].inum] = 0]
    /\ table' = [table EXCEPT ![e[p]].type = 0]
    /\ Goto(p, "invalidate")
    /\ UNCHANGED <<nlink, dir, durable, active, booting, dirlock, locals, crashes>>

(* Seeded fault: the copy of a freed inode stays valid. *)
Invalid_Kept(x) == [x EXCEPT !.lock = None]

Invalid(x) == [x EXCEPT !.valid = FALSE, !.lock = None]

(* iput: valid = 0, releasesleep *)
Invalidate(p) ==
    /\ At(p, "invalidate")
    /\ table' = [table EXCEPT ![e[p]] = Invalid(@)]
    /\ Goto(p, "unref")
    /\ UNCHANGED <<fs, durable, active, booting, dirlock, locals, crashes>>

Unref(p) ==
    /\ At(p, "unref")
    /\ table' = [table EXCEPT ![e[p]].ref = @ - 1]
    /\ Goto(p, "end")
    /\ UNCHANGED <<fs, durable, active, booting, dirlock, locals, crashes>>

(* Seeded fault: a transaction is committed while others are under way. *)
Commits_Always(p) == TRUE

(* end_op: the last transaction to end commits them all. *)
Commits(p) == active = {p}

End(p) ==
    LET opened == op[p] \in {"open", "create"} IN
    /\ At(p, "end")
    /\ active' = active \ {p}
    /\ durable' = IF Commits(p) THEN disk ELSE durable
    /\ e' = IF opened THEN e ELSE [e EXCEPT ![p] = 1]
    /\ op' = [op EXCEPT ![p] = "close"]
    /\ Goto(p, IF opened THEN "open" ELSE "idle")
    /\ UNCHANGED <<fs, booting, table, dirlock, name, inum, crashes>>
-----------------------------------------------------------------------------
Orphans == {k \in Inum : type[k] # 0 /\ nlink[k] = 0}

(* ireclaim, at boot: an inode that was open without a name at the crash   *)
(* goes through ilock, iunlock and iput in a transaction.                  *)
Reclaim(p) ==
    /\ booting
    /\ \A q \in Proc : At(q, "idle")
    /\ \E k \in Orphans : iget(p, k)
    /\ active' = {p}
    /\ op' = [op EXCEPT ![p] = "reclaim"]
    /\ Goto(p, "ilock")
    /\ UNCHANGED <<fs, durable, booting, dirlock, name, inum, crashes>>

Booted ==
    /\ booting
    /\ \A q \in Proc : At(q, "idle")
    /\ Orphans = {}
    /\ booting' = FALSE
    /\ UNCHANGED <<fs, durable, active, table, dirlock, pc, locals, crashes>>

(* A crash: memory is lost, and initlog recovers the committed disk. *)
Crash ==
    /\ crashes < MaxCrash
    /\ crashes' = crashes + 1
    /\ type' = durable.type /\ nlink' = durable.nlink /\ dir' = durable.dir
    /\ active' = {} /\ booting' = TRUE /\ dirlock' = None
    /\ table' = Rest.table /\ pc' = Rest.pc /\ op' = Rest.op
    /\ name' = Rest.name /\ inum' = Rest.inum /\ e' = Rest.e
    /\ UNCHANGED durable

Step(p) ==
    \/ \E o \in {"open", "create", "link", "unlink", "close"} : Begin(p, o)
    \/ Look(p) \/ ialloc(p) \/ NoInodes(p) \/ Iget(p) \/ ilock(p)
    \/ \E n \in Name : CreateFound(p, n) \/ LockDir(p, n) \/ UnlinkNone(p, n) \/ Dirlink(p, n)
    \/ Unlock(p) \/ Create(p) \/ CreateFail(p) \/ Unlink(p) \/ Link(p) \/ Undo(p)
    \/ iput(p) \/ Free(p) \/ Invalidate(p) \/ Unref(p) \/ End(p)
    \/ Reclaim(p)

Next == (\E p \in Proc : Step(p)) \/ Booted \/ Crash

Spec == Init /\ [][Next]_vars
-----------------------------------------------------------------------------

(* Process p has a reference to its entry. *)
Holds(p) ==
    \/ pc[p] \in {"ilock", "locked", "dirlink", "put", "free", "invalidate", "unref", "open"}
    \/ At(p, "end") /\ op[p] \in {"open", "create"}

(* Every variable has its type. *)
TypeOK ==
    /\ type \in [Inum -> {0, 1}]
    /\ nlink \in [Inum -> 0..MaxLink]
    /\ dir \in [Name -> 0..NInum]
    /\ active \subseteq Proc
    /\ table \in [Entry -> [inum : 0..NInum, ref : 0..Cardinality(Proc), valid : BOOLEAN,
                            type : {0, 1}, nlink : 0..MaxLink, lock : Proc \cup {None}]]
    /\ dirlock \in Proc \cup {None}
    /\ name \in [Proc -> Name \cup {None}]
    /\ inum \in [Proc -> 0..NInum]
    /\ e \in [Proc -> Entry]

(* fs.c:349, iput: an inode with one reference is locked by nobody, so     *)
(* that the acquiresleep under itable.lock does not block.                 *)
IputNoBlock ==
    \A p \in Proc : At(p, "put") /\ Unused(table[e[p]]) => table[e[p]].lock = None

(* fs.c ilock, ialloc, iput: a process that has an inode locked, or open,  *)
(* finds it allocated on the disk and its copy up to date: nobody frees    *)
(* it, or allocates it again, under that process.  ilock does not panic    *)
(* with "no type".                                                         *)
NotFreed ==
    \A p \in Proc : pc[p] \in {"locked", "open"} =>
        LET x == table[e[p]] IN
        /\ type[x.inum] # 0 /\ x.valid
        /\ x.type = type[x.inum] /\ x.nlink = nlink[x.inum]

(* sysfile.c create, sys_link, sys_unlink: on the disk a crash leaves, the *)
(* link count of an inode is the number of its names, and no name is of a  *)
(* free inode, whatever calls were under way.                              *)
DiskConsistent ==
    \A k \in Inum :
        LET names == {n \in Name : durable.dir[n] = k} IN
        IF durable.type[k] = 0 THEN names = {} ELSE durable.nlink[k] = Cardinality(names)

-----------------------------------------------------------------------------
(* What a comment of fs.c says and the code does not do *)

(* fs.c:338, iput: if that was the last reference and the inode has no     *)
(* links to it, free the inode on disk.  When nobody uses an inode, the    *)
(* ones allocated would be the ones with a name.                           *)
FreedByLast ==
    (~booting /\ \A p \in Proc : At(p, "idle")) =>
        \A k \in Inum : type[k] # 0 => \E n \in Name : dir[n] = k
=============================================================================
