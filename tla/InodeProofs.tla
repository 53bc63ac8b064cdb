----------------------------- MODULE InodeProofs ----------------------------
(*****************************************************************************)
(* Inodes for any number of processes, names, disk inodes, table entries and *)
(* crashes: iput() does not block, nobody frees an inode that is in use, and *)
(* the link counts of the disk that a crash leaves are right.                *)
(*****************************************************************************)
EXTENDS Inode, FiniteSetTheorems, TLAPS

Labels == {"idle", "open", "look", "dir", "ialloc", "iget", "ilock", "locked",
           "dirlink", "put", "free", "invalidate", "unref", "end"}
Ops == {"open", "create", "link", "unlink", "close", "fail", "undo", "reclaim"}
EntryType ==
  [inum : 0..NInum, ref : Nat, valid : BOOLEAN, type : {0, 1}, nlink : Nat,
   lock : Proc \cup {None}]
DiskType ==
  [type : [Inum -> {0, 1}], nlink : [Inum -> Nat], dir : [Name -> 0..NInum]]

Types ==
  /\ type \in [Inum -> {0, 1}] /\ nlink \in [Inum -> Nat] /\ dir \in [Name -> 0..NInum]
  /\ durable \in DiskType
  /\ active \subseteq Proc
  /\ table \in [Entry -> EntryType]
  /\ dirlock \in Proc \cup {None}
  /\ pc \in [Proc -> Labels] /\ op \in [Proc -> Ops]
  /\ name \in [Proc -> Name \cup {None}]
  /\ inum \in [Proc -> 0..NInum]
  /\ e \in [Proc -> Entry]

\* The processes that have entry x, and the inode of process p.
Refs(x) == {p \in Proc : Holds(p) /\ e[p] = x}
Num(p) == table[e[p]].inum

\* The reference count counts the processes; an inode has one entry.
RefInv == \A x \in Entry : table[x].ref = Cardinality(Refs(x))
EntryInv ==
  /\ \A x \in Entry : table[x].ref > 0 => table[x].inum \in Inum
  /\ \A x, y \in Entry :
       table[x].ref > 0 /\ table[y].ref > 0 /\ table[x].inum = table[y].inum => x = y

\* The sleep lock of an entry is held by the process that works on it.
Locks == {"locked", "free", "invalidate"}
LockInv ==
  \A p \in Proc, x \in Entry : table[x].lock = p <=> (pc[p] \in Locks /\ e[p] = x)

\* A process is in a transaction from begin_op() to end_op().
ActiveInv == \A p \in Proc : p \in active <=> pc[p] \notin {"idle", "open"}

\* Which calls come to a place.
OpInv ==
  \A p \in Proc :
    /\ pc[p] = "look" => op[p] \in {"open", "link"}
    /\ pc[p] = "dir" => op[p] \in {"create", "unlink"}
    /\ pc[p] \in {"ialloc", "iget"} => op[p] = "create"
    /\ pc[p] = "dirlink" => op[p] = "link"
    /\ pc[p] \in {"put", "free", "invalidate", "unref"} => op[p] \notin {"open", "create"}

\* The directory is locked while create() or sys_unlink() works on a name.
HasDir(p) ==
  \/ pc[p] \in {"ialloc", "iget"}
  \/ pc[p] \in {"ilock", "locked"} /\ op[p] \in {"create", "unlink"}
DirInv ==
  \A p \in Proc :
    /\ dirlock = p <=> HasDir(p)
    /\ HasDir(p) => name[p] \in Name /\ dir[name[p]] = IF op[p] = "create" THEN 0 ELSE Num(p)

\* An inode in use is allocated, until it has been freed; its copy is valid once it has
\* been locked, and equals what the disk has but while it is being invalidated.
Live(p) == Holds(p) /\ pc[p] \notin {"invalidate", "unref"}
AllocInv == \A p \in Proc : Live(p) => type[Num(p)] # 0
ValidInv == \A p \in Proc : Live(p) /\ pc[p] # "ilock" => table[e[p]].valid
Copied(x) == table[x].type = type[table[x].inum] /\ table[x].nlink = nlink[table[x].inum]
CopyAt(x) ==
  /\ table[x].ref > 0 /\ table[x].valid
  /\ \A p \in Proc : e[p] = x => pc[p] # "invalidate"
  => type[table[x].inum] # 0 /\ Copied(x)
CopyInv == \A x \in Entry : CopyAt(x)

\* iput() frees an inode that no other process has; only a create() that is waiting
\* for the lock can have it before it is invalid.
FreeAt(p) ==
  /\ pc[p] \in {"free", "invalidate"} => type[Num(p)] = 0 \/ nlink[Num(p)] = 0
  /\ pc[p] = "free" => \A q \in Proc : Holds(q) /\ e[q] = e[p] => q = p
  /\ pc[p] = "invalidate" =>
       \A q \in Proc : Holds(q) /\ e[q] = e[p] /\ q # p => pc[q] = "ilock" /\ op[q] = "create"
FreeInv == \A p \in Proc : FreeAt(p)

\* A new inode has no links, and is used by nobody else.
Fresh(p) == pc[p] \in {"ilock", "locked"} /\ op[p] = "create"
NewInv ==
  \A p \in Proc :
    /\ pc[p] = "iget" =>
         /\ inum[p] \in Inum /\ type[inum[p]] # 0 /\ nlink[inum[p]] = 0
         /\ \A q \in Proc : Live(q) => Num(q) # inum[p]
    /\ Fresh(p) =>
         /\ nlink[Num(p)] = 0
         /\ \A q \in Proc : Live(q) /\ e[q] = e[p] => q = p

\* The link count counts the names, and the links that sys_link() has still to enter
\* or to take back.
Names(k) == {n \in Name : dir[n] = k}
Pends(p) == pc[p] = "dirlink" \/ (pc[p] \in {"ilock", "locked"} /\ op[p] = "undo")
Pending(k) == {p \in Proc : Pends(p) /\ Num(p) = k}
LinkInv ==
  \A k \in Inum :
    IF type[k] = 0 THEN Names(k) = {}
    ELSE nlink[k] = Cardinality(Names(k)) + Cardinality(Pending(k))

IInv ==
  /\ Types /\ RefInv /\ EntryInv /\ LockInv /\ ActiveInv /\ OpInv /\ DirInv
  /\ AllocInv /\ ValidInv /\ CopyInv /\ FreeInv /\ NewInv /\ LinkInv /\ DiskConsistent

\* The leaves are for Zenon, but for those that name the SMT solver.
USE ZenonT(120)

-----------------------------------------------------------------------------
(* Counting                                                                *)

\* The users of an entry, the names and the pending links of an inode are finite sets.
LEMMA Finite ==
  /\ \A x : IsFiniteSet(Refs(x)) /\ Cardinality(Refs(x)) \in Nat
  /\ \A k : IsFiniteSet(Names(k)) /\ Cardinality(Names(k)) \in Nat
  /\ \A k : IsFiniteSet(Pending(k)) /\ Cardinality(Pending(k)) \in Nat
<1>1. /\ \A x : Refs(x) \in SUBSET Proc
      /\ \A k : Names(k) \in SUBSET Name /\ Pending(k) \in SUBSET Proc
  BY DEF Refs, Names, Pending
<1>2. IsFiniteSet(Proc) /\ IsFiniteSet(Name)
  BY InodeAssumption
<1>3. /\ \A x : IsFiniteSet(Refs(x))
      /\ \A k : IsFiniteSet(Names(k)) /\ IsFiniteSet(Pending(k))
  BY <1>1, <1>2, FS_Subset
<1> QED
  BY <1>3, FS_CardinalityType

\* The entry of a process is in use, and of an inode.
LEMMA HoldFacts ==
  ASSUME IInv, NEW p \in Proc, Holds(p)
  PROVE  e[p] \in Entry /\ table[e[p]].ref > 0 /\ Num(p) \in Inum
<1>1. e[p] \in Entry /\ p \in Refs(e[p])
  BY DEF IInv, Types, Refs
<1>2. Cardinality(Refs(e[p])) # 0 /\ Cardinality(Refs(e[p])) \in Nat
  BY <1>1, Finite, FS_EmptySet
<1>3. table[e[p]].ref > 0
  BY SMTT(300), <1>1, <1>2 DEF IInv, RefInv
<1> QED
  BY <1>1, <1>3 DEF IInv, EntryInv, Num

\* Two processes with the same inode have the same entry.
LEMMA SameEntry ==
  ASSUME IInv, NEW p \in Proc, NEW q \in Proc, Holds(p), Holds(q), Num(p) = Num(q)
  PROVE  e[p] = e[q]
<1>1. /\ e[p] \in Entry /\ table[e[p]].ref > 0
      /\ e[q] \in Entry /\ table[e[q]].ref > 0
  BY HoldFacts
<1> QED
  BY <1>1 DEF IInv, EntryInv, Num

\* Nobody has an entry without references.
LEMMA NoRefs ==
  ASSUME IInv, NEW x \in Entry, table[x].ref = 0
  PROVE  /\ \A p \in Proc : Holds(p) => e[p] # x
         /\ Cardinality(Refs(x)) = 0
<1>1. Cardinality(Refs(x)) = 0
  BY DEF IInv, RefInv
<1>2. Refs(x) = {}
  BY <1>1, Finite, FS_EmptySet
<1> QED
  BY <1>1, <1>2 DEF Refs

\* An entry with one reference has one user.
LEMMA OneRef ==
  ASSUME IInv, NEW p \in Proc, Holds(p), table[e[p]].ref = 1
  PROVE  \A q \in Proc : Holds(q) /\ e[q] = e[p] => q = p
<1>1. e[p] \in Entry /\ p \in Refs(e[p])
  BY DEF IInv, Types, Refs
<1>2. Cardinality(Refs(e[p])) = 1
  BY <1>1 DEF IInv, RefInv
<1>3. PICK y : Refs(e[p]) = {y}
  BY <1>2, Finite, FS_Singleton
<1> QED
  BY <1>1, <1>3 DEF Refs

\* An inode with a name is allocated and has a link; one without links has no name,
\* and no link is pending.
LEMMA LinkFacts ==
  ASSUME IInv, NEW k \in Inum
  PROVE  /\ \A n \in Name : dir[n] = k => type[k] # 0 /\ nlink[k] # 0
         /\ type[k] # 0 /\ nlink[k] = 0 => Names(k) = {} /\ Pending(k) = {}
<1>1. IF type[k] = 0 THEN Names(k) = {}
      ELSE nlink[k] = Cardinality(Names(k)) + Cardinality(Pending(k))
  BY DEF IInv, LinkInv
<1>2. type[k] # 0 /\ nlink[k] = 0 => Cardinality(Names(k)) = 0 /\ Cardinality(Pending(k)) = 0
  BY SMTT(300), <1>1, Finite
<1>3. type[k] # 0 /\ nlink[k] = 0 => Names(k) = {} /\ Pending(k) = {}
  BY <1>2, Finite, FS_EmptySet
<1>4. \A n \in Name : dir[n] = k => n \in Names(k)
  BY DEF Names
<1> QED
  BY <1>1, <1>3, <1>4

\* A step of p as the other processes see it.
Only(p) ==
  \A q \in Proc : q # p =>
    /\ pc'[q] = pc[q] /\ op'[q] = op[q] /\ e'[q] = e[q]
    /\ name'[q] = name[q] /\ inum'[q] = inum[q]

\* What it leaves of them.
LEMMA Others ==
  ASSUME NEW p \in Proc, Only(p), NEW q \in Proc, q # p
  PROVE  /\ Holds(q)' <=> Holds(q)
         /\ Live(q)' <=> Live(q)
         /\ HasDir(q)' <=> HasDir(q)
         /\ Pends(q)' <=> Pends(q)
         /\ Fresh(q)' <=> Fresh(q)
<1>1. pc'[q] = pc[q] /\ op'[q] = op[q]
  BY DEF Only
<1>2. Holds(q)' <=> Holds(q)
  BY <1>1 DEF Holds, At
<1> QED
  BY <1>1, <1>2 DEF Live, HasDir, Pends, Fresh

\* A process takes one more reference, keeps what it has, or gives one back.
LEMMA RefsMore ==
  ASSUME NEW p \in Proc, Only(p), ~Holds(p), Holds(p)', NEW x, e'[p] = x
  PROVE  /\ Cardinality(Refs(x)') = Cardinality(Refs(x)) + 1
         /\ \A y : y # x => Refs(y)' = Refs(y)
<1>1. \A q \in Proc : q # p => (Holds(q)' <=> Holds(q)) /\ e'[q] = e[q]
  BY Others DEF Only
<1>2. Refs(x)' = Refs(x) \cup {p} /\ p \notin Refs(x)
  BY <1>1 DEF Refs
<1>3. \A y : y # x => Refs(y)' = Refs(y)
  BY <1>1 DEF Refs
<1> QED
  BY <1>2, <1>3, Finite, FS_AddElement

\* When process p lets go of entry x, as at the end of iput(), one process fewer has it.
LEMMA RefsLess ==
  ASSUME NEW p \in Proc, Only(p), Holds(p), ~Holds(p)', NEW x, e[p] = x
  PROVE  /\ Cardinality(Refs(x)') = Cardinality(Refs(x)) - 1
         /\ Cardinality(Refs(x)') \in Nat
         /\ \A y : y # x => Refs(y)' = Refs(y)
<1>1. \A q \in Proc : q # p => (Holds(q)' <=> Holds(q)) /\ e'[q] = e[q]
  BY Others DEF Only
<1>2. Refs(x)' = Refs(x) \ {p} /\ p \in Refs(x)
  BY <1>1 DEF Refs
<1>3. \A y : y # x => Refs(y)' = Refs(y)
  BY <1>1 DEF Refs
<1>4. Cardinality(Refs(x)') \in Nat
  BY <1>2, Finite, FS_RemoveElement, FS_CardinalityType
<1> QED
  BY <1>2, <1>3, <1>4, Finite, FS_RemoveElement

\* A step that neither takes nor drops a reference leaves the holders of every entry.
LEMMA RefsSame ==
  ASSUME NEW p \in Proc, Only(p), Holds(p)' <=> Holds(p), Holds(p) => e'[p] = e[p]
  PROVE  \A y : Refs(y)' = Refs(y)
<1>1. \A q \in Proc : q # p => (Holds(q)' <=> Holds(q)) /\ e'[q] = e[q]
  BY Others DEF Only
<1> QED
  BY <1>1 DEF Refs

-----------------------------------------------------------------------------
(* What a step leaves alone                                                *)

\* No entry changes its inode or its count, and p keeps the entry it has.
KeepsRefs(p) ==
  /\ Holds(p)' <=> Holds(p)
  /\ Holds(p) => e'[p] = e[p]
  /\ \A x \in Entry : table'[x].inum = table[x].inum /\ table'[x].ref = table[x].ref

\* Then the counts stay right, and every process has the inode it had.
LEMMA KeepRefs ==
  ASSUME IInv, NEW p \in Proc, Only(p), KeepsRefs(p)
  PROVE  /\ RefInv' /\ EntryInv'
         /\ \A q \in Proc : Holds(q)' <=> Holds(q)
         /\ \A q \in Proc : Holds(q) => e'[q] = e[q] /\ Num(q)' = Num(q)
<1>1. \A y : Refs(y)' = Refs(y)
  BY RefsSame DEF KeepsRefs
<1>2. RefInv'
  BY <1>1 DEF IInv, RefInv, KeepsRefs
<1>3. EntryInv'
  BY DEF IInv, EntryInv, KeepsRefs
<1>4. \A q \in Proc : Holds(q)' <=> Holds(q)
  BY Others DEF KeepsRefs
<1>5. \A q \in Proc : Holds(q) => e'[q] = e[q]
  BY DEF Only, KeepsRefs
<1>6. \A q \in Proc : e[q] \in Entry
  BY DEF IInv, Types
<1>7. \A q \in Proc : Holds(q) => Num(q)' = Num(q)
  BY <1>5, <1>6 DEF KeepsRefs, Num
<1> QED
  BY <1>2, <1>3, <1>4, <1>5, <1>7

\* The sleep locks: all stay as they are, p takes one, or p gives one back.
LEMMA LockSame ==
  ASSUME IInv, NEW p \in Proc, Only(p), \A x \in Entry : table'[x].lock = table[x].lock,
         pc'[p] \in Locks <=> pc[p] \in Locks, pc[p] \in Locks => e'[p] = e[p]
  PROVE  LockInv'
BY SMTT(300) DEF IInv, LockInv, Only

\* acquiresleep() on the entry of p preserves LockInv.
LEMMA LockTake ==
  ASSUME IInv, NEW p \in Proc, Only(p), NEW x \in Entry, e[p] = x, e'[p] = x,
         \A y \in Entry : y # x => table'[y].lock = table[y].lock,
         table[x].lock = None, table'[x].lock = p, pc'[p] \in Locks
  PROVE  LockInv'
<1>1. None \notin Proc
  BY InodeAssumption
<1> QED
  BY SMTT(300), <1>1 DEF IInv, LockInv, Only

\* releasesleep() on the entry of p preserves LockInv.
LEMMA LockDrop ==
  ASSUME IInv, NEW p \in Proc, Only(p), NEW x \in Entry, e[p] = x, pc[p] \in Locks,
         \A y \in Entry : y # x => table'[y].lock = table[y].lock,
         table'[x].lock = None, pc'[p] \notin Locks
  PROVE  LockInv'
<1>1. None \notin Proc
  BY InodeAssumption
<1> QED
  BY SMTT(300), <1>1 DEF IInv, LockInv, Only

\* Being in a transaction.
LEMMA ActiveSame ==
  ASSUME IInv, NEW p \in Proc, Only(p), active' = active,
         pc[p] \notin {"idle", "open"}, pc'[p] \notin {"idle", "open"}
  PROVE  ActiveInv'
BY DEF IInv, ActiveInv, Only

\* The directory's lock stays with its holder, or it is or becomes free.
LEMMA DirSame ==
  ASSUME IInv, NEW p \in Proc, Only(p), dirlock' = dirlock, dir' = dir,
         HasDir(p)' <=> HasDir(p),
         HasDir(p) => /\ op'[p] = op[p] /\ name'[p] = name[p]
                      /\ op[p] = "create" \/ Num(p)' = Num(p),
         \A q \in Proc : q # p /\ Holds(q) => Num(q)' = Num(q)
  PROVE  DirInv'
<1> SUFFICES ASSUME NEW q \in Proc
             PROVE  /\ dirlock' = q <=> HasDir(q)'
                    /\ HasDir(q)' => /\ name'[q] \in Name
                                     /\ dir'[name'[q]] = IF op'[q] = "create" THEN 0 ELSE Num(q)'
  BY DEF DirInv
<1>1. /\ dirlock = q <=> HasDir(q)
      /\ HasDir(q) => name[q] \in Name /\ dir[name[q]] = IF op[q] = "create" THEN 0 ELSE Num(q)
  BY DEF IInv, DirInv
<1>2. CASE q = p
  BY <1>1, <1>2
<1>3. CASE q # p
  <2>1. (HasDir(q)' <=> HasDir(q)) /\ op'[q] = op[q] /\ name'[q] = name[q]
    BY <1>3, Others DEF Only
  <2>2. HasDir(q) /\ op[q] # "create" => Holds(q)
    BY DEF IInv, OpInv, HasDir, Holds
  <2> QED
    BY <1>1, <1>3, <2>1, <2>2
<1> QED
  BY <1>2, <1>3

\* iunlockput() of the directory preserves DirInv.
LEMMA DirFree ==
  ASSUME IInv, NEW p \in Proc, Only(p), dirlock \in {None, p}, dirlock' = None, ~HasDir(p)'
  PROVE  DirInv'
<1>1. None \notin Proc
  BY InodeAssumption
<1>2. \A q \in Proc : q # p => ~HasDir(q)
  BY <1>1 DEF IInv, DirInv
<1>3. \A q \in Proc : ~HasDir(q)'
  BY <1>2, Others
<1> QED
  BY <1>1, <1>3 DEF DirInv

\* The disk a crash goes back to.
LEMMA DurableSame ==
  ASSUME IInv, durable' = durable
  PROVE  DiskConsistent'
BY DEF IInv, DiskConsistent

\* Besides, nobody gets a new inode, a link to enter or an inode that is freed.
Steady(p) ==
  /\ UNCHANGED <<type, nlink, dir>>
  /\ KeepsRefs(p)
  /\ Live(p)' => Live(p)
  /\ Pends(p)' <=> Pends(p)
  /\ Fresh(p)' => Fresh(p)
  /\ pc'[p] # "iget"

\* Such a step preserves what IInv says of counts, entries, allocation and links.
LEMMA SteadyStep ==
  ASSUME IInv, NEW p \in Proc, Only(p), Steady(p)
  PROVE  RefInv' /\ EntryInv' /\ AllocInv' /\ NewInv' /\ LinkInv'
<1>1. UNCHANGED <<type, nlink, dir>> /\ KeepsRefs(p)
  BY DEF Steady
<1>2. /\ RefInv' /\ EntryInv'
      /\ \A q \in Proc : Holds(q)' <=> Holds(q)
      /\ \A q \in Proc : Holds(q) => e'[q] = e[q] /\ Num(q)' = Num(q)
  BY <1>1, KeepRefs
<1>3. \A q \in Proc : /\ Live(q)' => Live(q)
                      /\ Pends(q)' <=> Pends(q)
                      /\ Fresh(q)' => Fresh(q)
  BY Others DEF Steady
<1>4. \A q \in Proc : /\ Live(q) => Holds(q)
                      /\ Pends(q) => Holds(q)
                      /\ Fresh(q) => Holds(q)
  BY DEF Live, Pends, Fresh, Holds
<1>5. \A q \in Proc : pc'[q] = "iget" => pc[q] = "iget" /\ inum'[q] = inum[q]
  BY DEF Steady, Only
<1>6. AllocInv'
  BY <1>1, <1>2, <1>3, <1>4 DEF IInv, AllocInv
<1>7. NewInv'
  BY SMTT(300), <1>1, <1>2, <1>3, <1>4, <1>5 DEF IInv, NewInv
<1>8. \A k : Names(k)' = Names(k) /\ Pending(k)' = Pending(k)
  BY <1>1, <1>2, <1>3, <1>4 DEF Names, Pending
<1>9. LinkInv'
  BY <1>1, <1>8 DEF IInv, LinkInv
<1> QED
  BY <1>2, <1>6, <1>7, <1>9

\* Nobody meets an inode that another process is freeing.
LEMMA FreeOthers ==
  ASSUME IInv, NEW p \in Proc, Only(p), KeepsRefs(p),
         Holds(p) => \A q \in Proc : q # p /\ pc[q] = "invalidate" => e[q] # e[p],
         NEW q \in Proc, q # p,
         pc[q] \in {"free", "invalidate"} => type'[Num(q)] = 0 \/ nlink'[Num(q)] = 0
  PROVE  FreeAt(q)'
<1>1. /\ \A r \in Proc : Holds(r)' <=> Holds(r)
      /\ \A r \in Proc : Holds(r) => e'[r] = e[r] /\ Num(r)' = Num(r)
  BY KeepRefs
<1> SUFFICES ASSUME pc'[q] \in {"free", "invalidate"}
             PROVE  /\ type'[Num(q)'] = 0 \/ nlink'[Num(q)'] = 0
                    /\ pc'[q] = "free" => \A r \in Proc : Holds(r)' /\ e'[r] = e'[q] => r = q
                    /\ pc'[q] = "invalidate" =>
                         \A r \in Proc : Holds(r)' /\ e'[r] = e'[q] /\ r # q =>
                           pc'[r] = "ilock" /\ op'[r] = "create"
  BY DEF FreeAt
<1>2. pc'[q] = pc[q] /\ Holds(q)
  BY DEF Only, Holds
<1>3. type'[Num(q)'] = 0 \/ nlink'[Num(q)'] = 0
  BY <1>1, <1>2
<1>4. pc'[q] = "free" => \A r \in Proc : Holds(r)' /\ e'[r] = e'[q] => r = q
  BY <1>1, <1>2 DEF IInv, FreeInv, FreeAt
<1>5. ASSUME pc'[q] = "invalidate", NEW r \in Proc, Holds(r)', e'[r] = e'[q], r # q
      PROVE  pc'[r] = "ilock" /\ op'[r] = "create"
  <2>1. Holds(r) /\ e[r] = e[q] /\ pc[r] = "ilock" /\ op[r] = "create"
    BY <1>1, <1>2, <1>5 DEF IInv, FreeInv, FreeAt
  <2>2. r # p
    BY <1>2, <1>5, <2>1
  <2> QED
    BY <2>1, <2>2 DEF Only
<1> QED
  BY <1>3, <1>4, <1>5

\* A step that changes no inode of the disk preserves FreeInv when it holds for p
\* afterwards.
LEMMA FreeSame ==
  ASSUME IInv, NEW p \in Proc, Only(p), KeepsRefs(p), UNCHANGED <<type, nlink>>,
         Holds(p) => \A q \in Proc : q # p /\ pc[q] = "invalidate" => e[q] # e[p],
         FreeAt(p)'
  PROVE  FreeInv'
<1>1. \A q \in Proc : pc[q] \in {"free", "invalidate"} => type[Num(q)] = 0 \/ nlink[Num(q)] = 0
  BY DEF IInv, FreeInv, FreeAt
<1>2. \A q \in Proc : q # p => FreeAt(q)'
  BY <1>1, FreeOthers
<1> QED
  BY <1>2 DEF FreeInv

\* Places where a process works on no entry.
QuietLabels == {"idle", "open", "look", "dir", "ialloc", "put", "end"}

\* A process that moves between them and keeps the entry it has, if any.
Quiet(p) ==
  /\ UNCHANGED <<type, nlink, dir, table>>
  /\ pc[p] \in QuietLabels /\ pc'[p] \in QuietLabels
  /\ Holds(p)' <=> Holds(p)
  /\ Holds(p) => e'[p] = e[p]

\* Such a step preserves every part of IInv that is about entries and inodes.
LEMMA QuietStep ==
  ASSUME IInv, NEW p \in Proc, Only(p), Quiet(p)
  PROVE  /\ RefInv' /\ EntryInv' /\ LockInv' /\ AllocInv' /\ ValidInv' /\ CopyInv' /\ FreeInv'
         /\ NewInv' /\ LinkInv'
         /\ \A q \in Proc : Holds(q) => Num(q)' = Num(q)
<1>1. UNCHANGED <<type, nlink, dir, table>> /\ KeepsRefs(p)
  BY DEF Quiet, KeepsRefs
<1>2. /\ \A q \in Proc : Holds(q)' <=> Holds(q)
      /\ \A q \in Proc : Holds(q) => e'[q] = e[q] /\ Num(q)' = Num(q)
  BY <1>1, KeepRefs
<1>3. /\ pc[p] \notin {"iget", "ilock", "locked", "dirlink", "free", "invalidate", "unref"}
      /\ pc'[p] \notin {"iget", "ilock", "locked", "dirlink", "free", "invalidate", "unref"}
  BY DEF Quiet, QuietLabels
<1>4. Live(p)' => Live(p)
  BY <1>2, <1>3 DEF Live
<1>5. ~Pends(p) /\ ~Pends(p)' /\ ~Fresh(p)'
  BY <1>3 DEF Pends, Fresh
<1>6. Steady(p)
  BY <1>1, <1>3, <1>4, <1>5 DEF Steady
<1>7. pc[p] \notin Locks /\ pc'[p] \notin Locks
  BY <1>3 DEF Locks
<1>8. LockInv'
  BY <1>1, <1>7, LockSame
<1>9. ValidInv'
  <2>1. \A q \in Proc : Live(q)' /\ pc'[q] # "ilock" => Live(q) /\ pc[q] # "ilock"
    BY <1>3, <1>4, Others DEF Only
  <2> QED
    BY <1>1, <1>2, <2>1 DEF IInv, ValidInv, Live
<1>10. CopyInv'
  <2>1. \A q \in Proc : pc[q] = "invalidate" => pc'[q] = "invalidate" /\ e'[q] = e[q]
    BY <1>3 DEF Only
  <2> QED
    BY SMTT(300), <1>1, <2>1 DEF IInv, CopyInv, CopyAt, Copied
<1>11. FreeInv'
  <2>1. Holds(p) => \A q \in Proc : q # p /\ pc[q] = "invalidate" => e[q] # e[p]
    BY <1>3 DEF IInv, FreeInv, FreeAt
  <2> QED
    BY <1>1, <1>3, <2>1, FreeSame DEF FreeAt
<1> QED
  BY <1>2, <1>6, <1>8, <1>9, <1>10, <1>11, SteadyStep

-----------------------------------------------------------------------------
(* Transactions begin and end                                              *)

\* begin_op() at the start of a call.
LEMMA BeginInv ==
  ASSUME IInv, NEW p \in Proc, NEW o \in {"open", "create", "link", "unlink", "close"},
         Begin(p, o)
  PROVE  IInv'
<1>1. PICK l \in {"put", "look", "dir"} :
        /\ Goto(p, l)
        /\ l = "put" => o = "close"
        /\ l = "look" => o \in {"open", "link"}
        /\ l = "dir" => o \in {"create", "unlink"}
        /\ o = "close" => l = "put"
  BY DEF Begin
<1>2. /\ op' = [op EXCEPT ![p] = o] /\ active' = active \cup {p}
      /\ pc[p] = IF o = "close" THEN "open" ELSE "idle"
      /\ UNCHANGED <<type, nlink, dir, durable, table, dirlock, name, inum, e>>
  BY DEF Begin, fs
<1>3. pc'[p] = l /\ op'[p] = o /\ Only(p)
  BY <1>1, <1>2 DEF Goto, Only, IInv, Types
<1>4. Types'
  <2>1. l \in Labels /\ o \in Ops
    BY DEF Labels, Ops
  <2> QED
    BY <1>1, <1>2, <2>1 DEF Goto, IInv, Types
<1>5. Quiet(p)
  <2>1. Holds(p)' <=> Holds(p)
    BY <1>1, <1>2, <1>3 DEF Holds, At
  <2> QED
    BY <1>2, <1>3, <2>1 DEF Quiet, QuietLabels
<1>6. ActiveInv'
  BY <1>2, <1>3 DEF IInv, ActiveInv, Only
<1>7. OpInv'
  BY SMTT(300), <1>1, <1>3 DEF IInv, OpInv, Only
<1>8. DirInv'
  <2>1. ~HasDir(p) /\ ~HasDir(p)'
    BY <1>2, <1>3 DEF HasDir
  <2> QED
    BY <1>2, <1>3, <1>5, <2>1, QuietStep, DirSame
<1> QED
  BY <1>2, <1>3, <1>4, <1>5, <1>6, <1>7, <1>8, QuietStep, DurableSame DEF IInv

\* A call that has found nothing: namei() or nameiparent() fails, sys_unlink() finds no
\* such name, ialloc() no free inode.
LEMMA FailInv ==
  ASSUME IInv, NEW p \in Proc,
         pc[p] \in {"look", "dir", "ialloc"}, Goto(p, "end"),
         NEW o \in {"fail", "unlink"}, op' = [op EXCEPT ![p] = o],
         UNCHANGED <<type, nlink, dir, durable, active, table, inum, e>>,
         \/ pc[p] # "ialloc" /\ UNCHANGED <<dirlock, name>>
         \/ pc[p] = "ialloc" /\ dirlock' = None /\ name' = [name EXCEPT ![p] = None]
  PROVE  IInv'
<1>1. pc'[p] = "end" /\ op'[p] = o /\ Only(p)
  BY DEF Goto, Only, IInv, Types
<1>2. Types'
  <2>1. "end" \in Labels /\ o \in Ops
    BY DEF Labels, Ops
  <2> QED
    BY <2>1 DEF Goto, IInv, Types
<1>3. Quiet(p)
  <2>1. ~Holds(p)' /\ ~Holds(p)
    BY <1>1 DEF Holds, At
  <2> QED
    BY <1>1, <2>1 DEF Quiet, QuietLabels
<1>4. ActiveInv'
  BY <1>1, ActiveSame
<1>5. OpInv'
  BY SMTT(300), <1>1 DEF IInv, OpInv, Only
<1>6. DirInv'
  <2>1. ~HasDir(p)'
    BY <1>1 DEF HasDir
  <2>2. CASE pc[p] # "ialloc"
    <3>1. ~HasDir(p)
      BY <2>2 DEF HasDir
    <3> QED
      BY <1>1, <1>3, <2>1, <2>2, <3>1, QuietStep, DirSame
  <2>3. CASE pc[p] = "ialloc"
    <3>1. dirlock = p
      BY <2>3 DEF IInv, DirInv, HasDir
    <3> QED
      BY <1>1, <2>1, <2>3, <3>1, DirFree
  <2> QED
    BY <2>2, <2>3
<1> QED
  BY <1>1, <1>2, <1>3, <1>4, <1>5, <1>6, QuietStep, DurableSame DEF IInv

\* When p is the only process in a transaction, no link is pending, and the disk of the
\* transactions is consistent.
LEMMA AloneConsistent ==
  ASSUME IInv, NEW p \in Proc, active = {p}, pc[p] = "end"
  PROVE  \A k \in Inum : IF type[k] = 0 THEN Names(k) = {} ELSE nlink[k] = Cardinality(Names(k))
<1>1. \A q \in Proc : ~Pends(q)
  BY DEF IInv, ActiveInv, Pends
<1>2. \A k : Pending(k) = {}
  BY <1>1 DEF Pending
<1>3. \A k : Cardinality(Pending(k)) = 0
  BY <1>2, FS_EmptySet
<1> QED
  BY SMTT(300), <1>3, Finite DEF IInv, LinkInv

\* end_op(): the last one commits.
LEMMA EndInv ==
  ASSUME IInv, NEW p \in Proc, End(p)
  PROVE  IInv'
<1>1. PICK l \in {"open", "idle"} :
        /\ pc[p] = "end" /\ Goto(p, l)
        /\ l = "open" <=> op[p] \in {"open", "create"}
        /\ e' = IF l = "open" THEN e ELSE [e EXCEPT ![p] = 1]
  BY DEF End, At
<1>2. /\ op' = [op EXCEPT ![p] = "close"] /\ active' = active \ {p}
      /\ durable' = IF active = {p} THEN disk ELSE durable
      /\ UNCHANGED <<type, nlink, dir, table, dirlock, name, inum>>
  BY DEF End, fs, Commits
<1>3. pc'[p] = l /\ op'[p] = "close" /\ Only(p) /\ (l = "open" => e'[p] = e[p])
  BY <1>1, <1>2 DEF Goto, Only, IInv, Types
<1>4. Types'
  <2>1. l \in Labels /\ "close" \in Ops /\ disk \in DiskType
    BY DEF Labels, Ops, disk, DiskType, IInv, Types
  <2>2. 1 \in Entry
    BY SMTT(300), InodeAssumption DEF Entry
  <2>3. e' \in [Proc -> Entry]
    BY <1>1, <2>2 DEF IInv, Types
  <2>4. durable' \in DiskType
    BY <1>2, <2>1 DEF IInv, Types
  <2> QED
    BY <1>1, <1>2, <2>1, <2>3, <2>4 DEF Goto, IInv, Types
<1>5. Quiet(p)
  <2>1. (Holds(p)' <=> l = "open") /\ (Holds(p) <=> l = "open")
    BY <1>1, <1>3 DEF Holds, At
  <2> QED
    BY <1>1, <1>2, <1>3, <2>1 DEF Quiet, QuietLabels
<1>6. ActiveInv'
  BY <1>2, <1>3 DEF IInv, ActiveInv, Only
<1>7. OpInv'
  BY SMTT(300), <1>1, <1>3 DEF IInv, OpInv, Only
<1>8. DirInv'
  <2>1. ~HasDir(p) /\ ~HasDir(p)'
    BY <1>1, <1>3 DEF HasDir
  <2> QED
    BY <1>2, <1>3, <1>5, <2>1, QuietStep, DirSame
<1>9. DiskConsistent'
  <2>1. CASE active = {p}
    <3>1. durable'.type = type /\ durable'.nlink = nlink /\ durable'.dir = dir
      BY <1>2, <2>1 DEF disk
    <3>2. \A k : {n \in Name : durable'.dir[n] = k} = Names(k)
      BY <3>1 DEF Names
    <3> QED
      BY <1>1, <2>1, <3>1, <3>2, AloneConsistent DEF DiskConsistent
  <2>2. CASE active # {p}
    BY <1>2, <2>2, DurableSame
  <2> QED
    BY <2>1, <2>2
<1> QED
  BY <1>3, <1>4, <1>5, <1>6, <1>7, <1>8, <1>9, QuietStep DEF IInv

-----------------------------------------------------------------------------
(* iget()                                                                  *)

\* The entry x that iget() returns for inode k, as the process and others see it.
Got(p, k, x) ==
  /\ e'[p] = x
  /\ \A y \in Entry : y # x => table'[y] = table[y]
  /\ table'[x].inum = k /\ table'[x].ref = table[x].ref + 1
  /\ table'[x].lock = table[x].lock
  /\ table'[x].type = table[x].type /\ table'[x].nlink = table[x].nlink
  /\ \/ /\ table[x].ref > 0 /\ table[x].inum = k /\ table'[x].valid = table[x].valid
     \/ /\ table[x].ref = 0 /\ ~table'[x].valid
        /\ \A y \in Entry : table[y].ref > 0 => table[y].inum # k

\* iget() ends in Got for some entry, whether the inode was in the table or not.
LEMMA GotFacts ==
  ASSUME IInv, NEW p \in Proc, NEW k \in Inum, iget(p, k)
  PROVE  /\ \E x \in Entry : Got(p, k, x)
         /\ table' \in [Entry -> EntryType] /\ e' \in [Proc -> Entry]
         /\ \A q \in Proc : q # p => e'[q] = e[q]
<1>1. PICK x \in Entry :
        /\ IF InTable(k) # {}
           THEN x \in InTable(k) /\ table' = [table EXCEPT ![x].ref = More(@)]
           ELSE /\ x \in Empty
                /\ table' = [table EXCEPT ![x] =
                     [@ EXCEPT !.inum = k, !.ref = 1, !.valid = FALSE]]
        /\ e' = [e EXCEPT ![p] = x]
  BY DEF iget
<1>2. table \in [Entry -> EntryType] /\ e \in [Proc -> Entry] /\ k \in 0..NInum
  BY SMTT(300) DEF IInv, Types, Inum
<1>3. table[x] \in EntryType
  BY <1>2
<1>4. e' \in [Proc -> Entry] /\ e'[p] = x /\ \A q \in Proc : q # p => e'[q] = e[q]
  BY <1>1, <1>2
<1>5. CASE InTable(k) # {}
  <2>1. x \in InTable(k) /\ table' = [table EXCEPT ![x].ref = More(@)]
    BY <1>1, <1>5
  <2>2. table[x].ref > 0 /\ table[x].inum = k
    BY <2>1 DEF InTable
  <2>3. [table[x] EXCEPT !.ref = table[x].ref + 1] \in EntryType
    BY SMTT(300), <1>3 DEF EntryType
  <2>5. table' = [table EXCEPT ![x] = [table[x] EXCEPT !.ref = table[x].ref + 1]]
    BY <1>2, <2>1 DEF More
  <2>4. Got(p, k, x)
    BY <1>2, <1>3, <1>4, <2>2, <2>5 DEF Got, EntryType
  <2> QED
    BY <1>2, <1>4, <2>3, <2>4, <2>5
<1>6. CASE InTable(k) = {}
  <2>1. /\ x \in Empty
        /\ table' = [table EXCEPT ![x] =
             [table[x] EXCEPT !.inum = k, !.ref = 1, !.valid = FALSE]]
    BY <1>1, <1>2, <1>6
  <2>2. table[x].ref = 0 /\ \A y \in Entry : table[y].ref > 0 => table[y].inum # k
    BY <1>6, <2>1 DEF Empty, InTable
  <2>3. [table[x] EXCEPT !.inum = k, !.ref = 1, !.valid = FALSE] \in EntryType
    BY <1>2, <1>3 DEF EntryType
  <2>4. Got(p, k, x)
    BY SMTT(300), <1>2, <1>3, <1>4, <2>1, <2>2 DEF Got, EntryType
  <2> QED
    BY <1>2, <1>4, <2>1, <2>3, <2>4
<1> QED
  BY <1>5, <1>6

\* Two processes do not have the directory locked.
LEMMA OneHasDir ==
  ASSUME IInv, NEW p \in Proc, NEW q \in Proc, HasDir(p), HasDir(q)
  PROVE  p = q
BY DEF IInv, DirInv

\* A process without an entry gets one for the allocated inode k, and goes on to lock
\* it: k is the new inode of its create(), or one with a name, or nobody is about.
Igets(p, k) ==
  /\ ~Holds(p) /\ pc'[p] = "ilock"
  /\ type[k] # 0 /\ iget(p, k)
  /\ UNCHANGED <<type, nlink, dir>>
  /\ \/ op'[p] = "create" /\ pc[p] = "iget" /\ inum[p] = k
     \/ /\ op'[p] \notin {"create", "undo"}
        /\ nlink[k] # 0 \/ \A q \in Proc : pc[q] = "idle"

\* What the others have stays theirs, and the counts are right.
LEMMA IgetKeeps ==
  ASSUME IInv, NEW p \in Proc, Only(p), NEW k \in Inum, Igets(p, k),
         NEW x \in Entry, Got(p, k, x)
  PROVE  /\ RefInv' /\ EntryInv'
         /\ \A q \in Proc : Holds(q) =>
              /\ q # p /\ Holds(q)' /\ e'[q] = e[q] /\ Num(q)' = Num(q)
              /\ e[q] = x => Num(q) = k
              /\ table'[e[q]].valid = table[e[q]].valid
         /\ Holds(p)' /\ Num(p)' = k
<1>1. Holds(p)' /\ Num(p)' = k
  BY DEF Igets, Holds, Num, Got
<1>2. RefInv'
  <2>1. /\ Cardinality(Refs(x)') = Cardinality(Refs(x)) + 1
        /\ \A y : y # x => Refs(y)' = Refs(y)
    BY SMTT(300), <1>1, RefsMore DEF Igets, Got
  <2>2. table'[x].ref = Cardinality(Refs(x)')
    BY <2>1 DEF IInv, RefInv, Got
  <2> QED
    BY SMTT(300), <2>1, <2>2 DEF IInv, RefInv, Got
<1>3. EntryInv'
  <2>1. \A y \in Entry : table'[y].ref > 0 => table'[y].inum \in Inum
    BY DEF IInv, EntryInv, Got
  <2>2. \A y \in Entry : y # x /\ table[y].ref > 0 => table[y].inum # k
    BY DEF IInv, EntryInv, Got
  <2>3. \A y, z \in Entry :
          table'[y].ref > 0 /\ table'[z].ref > 0 /\ table'[y].inum = table'[z].inum => y = z
    BY SMTT(300), <2>2 DEF IInv, EntryInv, Got
  <2> QED
    BY <2>1, <2>3 DEF EntryInv
<1>4. ASSUME NEW q \in Proc, Holds(q)
      PROVE  /\ q # p /\ Holds(q)' /\ e'[q] = e[q] /\ Num(q)' = Num(q)
             /\ e[q] = x => Num(q) = k
             /\ table'[e[q]].valid = table[e[q]].valid
  <2>1. q # p /\ Holds(q)' /\ e'[q] = e[q]
    BY <1>4, Others DEF Igets, Only
  <2>2. e[q] \in Entry /\ table[e[q]].ref > 0
    BY <1>4, HoldFacts
  <2>3. e[q] = x => table[x].inum = k /\ table'[x].inum = k /\ table'[x].valid = table[x].valid
    BY SMTT(300), <2>2 DEF Got
  <2>4. e[q] # x => table'[e[q]] = table[e[q]]
    BY <2>2 DEF Got
  <2> QED
    BY <2>1, <2>3, <2>4 DEF Num
<1> QED
  BY <1>1, <1>2, <1>3, <1>4

\* The inode is not being freed, unless create() has just allocated it again; and it is not
\* new to another process.
LEMMA IgetMeets ==
  ASSUME IInv, NEW p \in Proc, NEW k \in Inum, Igets(p, k), NEW q \in Proc, q # p
  PROVE  /\ pc[q] \in {"free", "invalidate"} /\ Num(q) = k =>
              pc[q] = "invalidate" /\ op'[p] = "create"
         /\ pc[q] = "iget" => inum[q] # k
         /\ Fresh(q) => Num(q) # k
         /\ op'[p] = "create" /\ Live(q) => Num(q) # k
<1>1. CASE op'[p] = "create"
  <2>1. pc[p] = "iget" /\ inum[p] = k /\ HasDir(p)
    BY <1>1 DEF Igets, HasDir
  <2>2. Live(q) => Num(q) # k
    BY <2>1 DEF IInv, NewInv
  <2>3. pc[q] = "free" => Live(q)
    BY DEF Live, Holds
  <2>4. ~HasDir(q)
    BY <2>1, OneHasDir
  <2>5. pc[q] # "iget" /\ ~Fresh(q)
    BY <2>4 DEF HasDir, Fresh
  <2> QED
    BY <1>1, <2>2, <2>3, <2>5
<1>2. CASE op'[p] # "create" /\ nlink[k] # 0
  BY <1>2 DEF Igets, IInv, FreeInv, FreeAt, NewInv
<1>3. CASE op'[p] # "create" /\ \A r \in Proc : pc[r] = "idle"
  BY <1>3 DEF Fresh
<1> QED
  BY <1>1, <1>2, <1>3 DEF Igets

\* iget() preserves what IInv says of entries and inodes.
LEMMA IgetStep ==
  ASSUME IInv, NEW p \in Proc, Only(p), NEW k \in Inum, Igets(p, k)
  PROVE  /\ RefInv' /\ EntryInv' /\ LockInv' /\ AllocInv' /\ ValidInv' /\ CopyInv' /\ FreeInv'
         /\ NewInv' /\ LinkInv'
         /\ \A q \in Proc : Holds(q) => Num(q)' = Num(q)
         /\ Num(p)' = k
<1>1. PICK x \in Entry : Got(p, k, x)
  BY GotFacts DEF Igets
<1>2. UNCHANGED <<type, nlink, dir>> /\ type[k] # 0 /\ ~Holds(p) /\ pc'[p] = "ilock"
  BY DEF Igets
<1>3. /\ RefInv' /\ EntryInv'
      /\ \A q \in Proc : Holds(q) =>
           /\ q # p /\ Holds(q)' /\ e'[q] = e[q] /\ Num(q)' = Num(q)
           /\ e[q] = x => Num(q) = k
           /\ table'[e[q]].valid = table[e[q]].valid
      /\ Holds(p)' /\ Num(p)' = k /\ e'[p] = x
  BY SMTT(300), <1>1, IgetKeeps DEF Got
<1>4. \A q \in Proc : q # p =>
        /\ (Holds(q)' <=> Holds(q)) /\ (Live(q)' <=> Live(q))
        /\ (Pends(q)' <=> Pends(q)) /\ (Fresh(q)' <=> Fresh(q))
        /\ pc'[q] = pc[q] /\ op'[q] = op[q] /\ inum'[q] = inum[q] /\ e'[q] = e[q]
  BY Others DEF Only
<1>5. \A q \in Proc : /\ Live(q) => Holds(q)
                      /\ Pends(q) => Holds(q)
                      /\ Fresh(q) => Holds(q)
                      /\ pc[q] \in {"free", "invalidate"} => Holds(q)
  BY DEF Live, Pends, Fresh, Holds
<1>6. LockInv'
  <2>1. pc[p] \notin Locks /\ pc'[p] \notin Locks
    BY <1>2 DEF Locks, Holds
  <2>2. \A y \in Entry : table'[y].lock = table[y].lock
    BY <1>1 DEF Got
  <2> QED
    BY <2>1, <2>2, LockSame
<1>7. AllocInv'
  BY SMTT(300), <1>2, <1>3, <1>4, <1>5 DEF IInv, AllocInv
<1>8. ValidInv'
  BY <1>2, <1>3, <1>4, <1>5 DEF IInv, ValidInv
<1>9. CopyInv'
  <2> SUFFICES ASSUME NEW y \in Entry, table'[y].ref > 0, table'[y].valid,
                      \A q \in Proc : e'[q] = y => pc'[q] # "invalidate"
               PROVE  /\ type'[table'[y].inum] # 0
                      /\ table'[y].type = type'[table'[y].inum]
                      /\ table'[y].nlink = nlink'[table'[y].inum]
    BY DEF CopyInv, CopyAt, Copied
  <2>1. \A q \in Proc : e[q] = y => pc[q] # "invalidate"
    BY <1>2, <1>4, <1>5
  <2>2. /\ table[y].ref > 0 /\ table[y].valid
        /\ table'[y].inum = table[y].inum
        /\ table'[y].type = table[y].type /\ table'[y].nlink = table[y].nlink
    BY <1>1 DEF Got
  <2>3. /\ type[table[y].inum] # 0
        /\ table[y].type = type[table[y].inum] /\ table[y].nlink = nlink[table[y].inum]
    BY <2>1, <2>2 DEF IInv, CopyInv, CopyAt, Copied
  <2> QED
    BY <1>2, <2>2, <2>3
<1>10. FreeInv'
  <2> SUFFICES ASSUME NEW q \in Proc, pc'[q] \in {"free", "invalidate"}
               PROVE  /\ type'[Num(q)'] = 0 \/ nlink'[Num(q)'] = 0
                      /\ pc'[q] = "free" => \A r \in Proc : Holds(r)' /\ e'[r] = e'[q] => r = q
                      /\ pc'[q] = "invalidate" =>
                           \A r \in Proc : Holds(r)' /\ e'[r] = e'[q] /\ r # q =>
                             pc'[r] = "ilock" /\ op'[r] = "create"
    BY DEF FreeInv, FreeAt
  <2>1. q # p /\ pc[q] = pc'[q] /\ Holds(q) /\ e'[q] = e[q] /\ Num(q)' = Num(q)
    BY <1>2, <1>3, <1>4, <1>5
  <2>2. type'[Num(q)'] = 0 \/ nlink'[Num(q)'] = 0
    BY <1>2, <2>1 DEF IInv, FreeInv, FreeAt
  <2>3. e'[p] = e'[q] => pc[q] = "invalidate" /\ op'[p] = "create"
    BY SMTT(300), <1>3, <2>1, IgetMeets
  <2>4. ASSUME pc'[q] = "free", NEW r \in Proc, Holds(r)', e'[r] = e'[q] PROVE r = q
    BY SMTT(300), <1>4, <2>1, <2>3, <2>4 DEF IInv, FreeInv, FreeAt
  <2>5. ASSUME pc'[q] = "invalidate", NEW r \in Proc, Holds(r)', e'[r] = e'[q], r # q
        PROVE  pc'[r] = "ilock" /\ op'[r] = "create"
    BY SMTT(300), <1>2, <1>4, <2>1, <2>3, <2>5 DEF IInv, FreeInv, FreeAt
  <2> QED
    BY <2>2, <2>4, <2>5
<1>11. NewInv'
  <2>1. ASSUME NEW q \in Proc, pc'[q] = "iget"
        PROVE  /\ inum'[q] \in Inum /\ type'[inum'[q]] # 0 /\ nlink'[inum'[q]] = 0
               /\ \A r \in Proc : Live(r)' => Num(r)' # inum'[q]
    <3>1. q # p /\ pc[q] = "iget" /\ inum'[q] = inum[q]
      BY <1>2, <1>4, <2>1
    <3>2. inum[q] # k
      BY <3>1, IgetMeets
    <3> QED
      BY SMTT(300), <1>2, <1>3, <1>4, <1>5, <3>1, <3>2 DEF IInv, NewInv
  <2>2. ASSUME NEW q \in Proc, Fresh(q)'
        PROVE  /\ nlink'[Num(q)'] = 0
               /\ \A r \in Proc : Live(r)' /\ e'[r] = e'[q] => r = q
    <3>1. CASE q = p
      <4>1. op'[p] = "create" /\ nlink[k] = 0
        BY <2>2, <3>1 DEF Fresh, Igets, IInv, NewInv
      <4>2. \A r \in Proc : r # p /\ Live(r) => Num(r) # k
        BY <4>1, IgetMeets
      <4> QED
        BY <1>2, <1>3, <1>4, <1>5, <3>1, <4>1, <4>2
    <3>2. CASE q # p
      <4>1. Fresh(q) /\ Holds(q) /\ e'[q] = e[q] /\ Num(q)' = Num(q) /\ Num(q) # k
        BY SMTT(300), <1>3, <1>4, <1>5, <2>2, <3>2, IgetMeets
      <4>2. e'[q] # x
        BY <1>3, <4>1
      <4> QED
        BY SMTT(300), <1>2, <1>3, <1>4, <4>1, <4>2 DEF IInv, NewInv
    <3> QED
      BY <3>1, <3>2
  <2> QED
    BY <2>1, <2>2 DEF NewInv
<1>12. LinkInv'
  <2>1. ~Pends(p) /\ ~Pends(p)'
    BY <1>2, <1>5 DEF Pends, Igets
  <2>2. \A n : Names(n)' = Names(n) /\ Pending(n)' = Pending(n)
    BY SMTT(300), <1>2, <1>3, <1>4, <1>5, <2>1 DEF Names, Pending
  <2> QED
    BY <1>2, <2>2 DEF IInv, LinkInv
<1> QED
  BY <1>3, <1>6, <1>7, <1>8, <1>9, <1>10, <1>11, <1>12

\* So a call of it preserves IInv, with the directory's lock and the transaction as they
\* should be.
LEMMA IgetInv ==
  ASSUME IInv, NEW p \in Proc, Only(p), NEW k \in Inum, Igets(p, k), durable' = durable,
         active' \subseteq Proc, dirlock' \in Proc \cup {None},
         name' \in [Proc -> Name \cup {None}], inum' \in [Proc -> 0..NInum],
         op' \in [Proc -> Ops], Goto(p, "ilock"), DirInv', ActiveInv'
  PROVE  IInv'
<1>1. Types'
  <2>1. table' \in [Entry -> EntryType] /\ e' \in [Proc -> Entry]
    BY GotFacts DEF Igets
  <2>2. pc' \in [Proc -> Labels]
    BY DEF Goto, IInv, Types, Labels
  <2> QED
    BY <2>1, <2>2 DEF IInv, Types, Igets
<1>2. OpInv'
  BY SMTT(300) DEF IInv, OpInv, Only, Igets
<1> QED
  BY <1>1, <1>2, IgetStep, DurableSame DEF IInv

\* An inode with a name is allocated and has links.
LEMMA NamedInode ==
  ASSUME IInv, NEW n \in Name, dir[n] # 0
  PROVE  dir[n] \in Inum /\ type[dir[n]] # 0 /\ nlink[dir[n]] # 0
<1>1. dir[n] \in Inum
  BY SMTT(300), InodeAssumption DEF IInv, Types, Inum
<1> QED
  BY <1>1, LinkFacts

\* namei() of open and link.
LEMMA LookInv ==
  ASSUME IInv, NEW p \in Proc, Look(p)
  PROVE  IInv'
<1>1. PICK n \in Name :
        IF dir[n] = 0
        THEN Goto(p, "end") /\ Fail(p) /\ UNCHANGED <<table, e>>
        ELSE Goto(p, "ilock") /\ iget(p, dir[n]) /\ UNCHANGED op
  BY DEF Look
<1>2. /\ pc[p] = "look"
      /\ UNCHANGED <<type, nlink, dir, durable, active, dirlock, name, inum>>
  BY DEF Look, At, fs
<1>3. CASE dir[n] = 0
  BY <1>1, <1>2, <1>3, FailInv DEF Fail
<1>4. CASE dir[n] # 0
  <2>1. Goto(p, "ilock") /\ iget(p, dir[n]) /\ op' = op
    BY <1>1, <1>4
  <2>2. dir[n] \in Inum /\ type[dir[n]] # 0 /\ nlink[dir[n]] # 0
    BY <1>4, NamedInode
  <2>3. Only(p) /\ pc'[p] = "ilock" /\ op'[p] = op[p] /\ op[p] \in {"open", "link"}
    BY <1>2, <2>1, <2>2, GotFacts DEF Only, Goto, IInv, Types, OpInv
  <2>4. Igets(p, dir[n])
    BY <1>2, <2>1, <2>2, <2>3 DEF Igets, Holds, At
  <2>5. DirInv'
    <3>1. ~HasDir(p) /\ ~HasDir(p)'
      BY <1>2, <2>3 DEF HasDir
    <3> QED
      BY <1>2, <2>2, <2>3, <2>4, <3>1, IgetStep, DirSame
  <2>6. ActiveInv'
    BY <1>2, <2>3, ActiveSame
  <2>7. /\ active' \subseteq Proc /\ dirlock' \in Proc \cup {None}
        /\ name' \in [Proc -> Name \cup {None}] /\ inum' \in [Proc -> 0..NInum]
        /\ op' \in [Proc -> Ops]
    BY <1>2, <2>1 DEF IInv, Types
  <2> QED
    BY <1>2, <2>1, <2>2, <2>3, <2>4, <2>5, <2>6, <2>7, IgetInv
<1> QED
  BY <1>3, <1>4

\* create() finds the name.
LEMMA CreateFoundInv ==
  ASSUME IInv, NEW p \in Proc, NEW n \in Name, CreateFound(p, n)
  PROVE  IInv'
<1>1. /\ pc[p] = "dir" /\ dir[n] # 0 /\ iget(p, dir[n])
      /\ op' = [op EXCEPT ![p] = "open"] /\ Goto(p, "ilock")
      /\ UNCHANGED <<type, nlink, dir, durable, active, dirlock, name, inum>>
  BY DEF CreateFound, At, fs
<1>2. dir[n] \in Inum /\ type[dir[n]] # 0 /\ nlink[dir[n]] # 0
  BY <1>1, NamedInode
<1>3. Only(p) /\ pc'[p] = "ilock" /\ op'[p] = "open"
  BY <1>1, <1>2, GotFacts DEF Only, Goto, IInv, Types
<1>4. Igets(p, dir[n])
  BY <1>1, <1>2, <1>3 DEF Igets, Holds, At
<1>5. DirInv'
  <2>1. ~HasDir(p) /\ ~HasDir(p)'
    BY <1>1, <1>3 DEF HasDir
  <2> QED
    BY <1>1, <1>2, <1>3, <1>4, <2>1, IgetStep, DirSame
<1>6. ActiveInv'
  BY <1>1, <1>3, ActiveSame
<1>7. /\ active' \subseteq Proc /\ dirlock' \in Proc \cup {None}
      /\ name' \in [Proc -> Name \cup {None}] /\ inum' \in [Proc -> 0..NInum]
      /\ op' \in [Proc -> Ops]
  BY <1>1 DEF IInv, Types, Ops
<1> QED
  BY <1>1, <1>2, <1>3, <1>4, <1>5, <1>6, <1>7, IgetInv

\* ialloc()'s iget(), after the block of the inode was released.
LEMMA IallocGetInv ==
  ASSUME IInv, NEW p \in Proc, Iget(p)
  PROVE  IInv'
<1>1. /\ pc[p] = "iget" /\ iget(p, inum[p]) /\ inum' = [inum EXCEPT ![p] = 0]
      /\ Goto(p, "ilock")
      /\ UNCHANGED <<type, nlink, dir, durable, active, dirlock, op, name>>
  BY DEF Iget, At, fs
<1>2. inum[p] \in Inum /\ type[inum[p]] # 0 /\ op[p] = "create"
  BY <1>1 DEF IInv, NewInv, OpInv
<1>3. Only(p) /\ pc'[p] = "ilock" /\ op'[p] = "create"
  BY <1>1, <1>2, GotFacts DEF Only, Goto, IInv, Types
<1>4. Igets(p, inum[p])
  BY <1>1, <1>2, <1>3 DEF Igets, Holds, At
<1>5. DirInv'
  <2>1. HasDir(p) /\ HasDir(p)'
    BY <1>1, <1>3 DEF HasDir
  <2> QED
    BY <1>1, <1>2, <1>3, <1>4, <2>1, IgetStep, DirSame
<1>6. ActiveInv'
  BY <1>1, <1>3, ActiveSame
<1>7. /\ active' \subseteq Proc /\ dirlock' \in Proc \cup {None}
      /\ name' \in [Proc -> Name \cup {None}] /\ op' \in [Proc -> Ops]
  BY <1>1 DEF IInv, Types
<1>8. inum' \in [Proc -> 0..NInum]
  <2>1. 0 \in 0..NInum
    BY SMTT(300), InodeAssumption
  <2> QED
    BY <1>1, <2>1 DEF IInv, Types
<1> QED
  BY <1>1, <1>2, <1>3, <1>4, <1>5, <1>6, <1>7, <1>8, IgetInv


\* create() and sys_unlink() lock the directory.
LEMMA DirTake ==
  ASSUME IInv, NEW p \in Proc, Only(p), dirlock = None, dirlock' = p, dir' = dir,
         HasDir(p)', NEW n \in Name, name'[p] = n,
         dir[n] = IF op'[p] = "create" THEN 0 ELSE Num(p)'
  PROVE  DirInv'
<1>1. None \notin Proc
  BY InodeAssumption
<1>2. \A q \in Proc : ~HasDir(q)
  BY <1>1 DEF IInv, DirInv
<1>3. \A q \in Proc : q # p => ~HasDir(q)'
  BY <1>2, Others
<1> QED
  BY <1>3 DEF DirInv

\* create() and sys_unlink(), once the directory is locked and the name looked up,
\* preserve IInv.
LEMMA LockDirInv ==
  ASSUME IInv, NEW p \in Proc, NEW n \in Name, LockDir(p, n)
  PROVE  IInv'
<1>1. /\ pc[p] = "dir" /\ dirlock = None /\ dirlock' = p
      /\ (op[p] = "create") <=> (dir[n] = 0)
      /\ name' = [name EXCEPT ![p] = n]
      /\ UNCHANGED <<type, nlink, dir, durable, active, op, inum>>
  BY DEF LockDir, At, fs
<1>2. op[p] \in {"create", "unlink"}
  BY <1>1 DEF IInv, OpInv
<1>3. /\ active' \subseteq Proc /\ dirlock' \in Proc \cup {None}
      /\ name' \in [Proc -> Name \cup {None}] /\ op' \in [Proc -> Ops]
      /\ inum' \in [Proc -> 0..NInum] /\ name'[p] = n
  BY <1>1 DEF IInv, Types
<1>4. CASE op[p] = "create"
  <2>1. Goto(p, "ialloc") /\ UNCHANGED <<table, e>>
    BY <1>4 DEF LockDir
  <2>2. Only(p) /\ pc'[p] = "ialloc" /\ op'[p] = "create"
    BY <1>1, <1>4, <2>1 DEF Only, Goto, IInv, Types
  <2>3. Quiet(p)
    <3>1. ~Holds(p) /\ ~Holds(p)'
      BY <1>1, <2>2 DEF Holds, At
    <3> QED
      BY <1>1, <2>1, <2>2, <3>1 DEF Quiet, QuietLabels
  <2>4. Types'
    <3>1. pc' \in [Proc -> Labels]
      BY <2>1 DEF Goto, IInv, Types, Labels
    <3> QED
      BY <1>1, <1>3, <2>1, <3>1 DEF IInv, Types
  <2>5. DirInv'
    <3>1. HasDir(p)' /\ dir[n] = 0
      BY <1>1, <1>4, <2>2 DEF HasDir
    <3> QED
      BY <1>1, <1>3, <2>2, <3>1, DirTake
  <2>6. ActiveInv'
    BY <1>1, <2>2, ActiveSame
  <2>7. OpInv'
    BY <2>2 DEF IInv, OpInv, Only
  <2> QED
    BY <1>1, <2>2, <2>3, <2>4, <2>5, <2>6, <2>7, QuietStep, DurableSame
       DEF IInv
<1>5. CASE op[p] = "unlink"
  <2>1. Goto(p, "ilock") /\ iget(p, dir[n]) /\ dir[n] # 0
    BY <1>1, <1>5 DEF LockDir
  <2>2. dir[n] \in Inum /\ type[dir[n]] # 0 /\ nlink[dir[n]] # 0
    BY <2>1, NamedInode
  <2>3. Only(p) /\ pc'[p] = "ilock" /\ op'[p] = "unlink"
    BY <1>1, <1>5, <2>1, <2>2, GotFacts DEF Only, Goto, IInv, Types
  <2>4. Igets(p, dir[n])
    BY <1>1, <2>1, <2>2, <2>3 DEF Igets, Holds, At
  <2>5. DirInv'
    <3>1. HasDir(p)' /\ dir[n] = Num(p)'
      BY <2>2, <2>3, <2>4, IgetStep DEF HasDir
    <3> QED
      BY <1>1, <1>3, <2>3, <3>1, DirTake
  <2>6. ActiveInv'
    BY <1>1, <2>3, ActiveSame
  <2> QED
    BY <1>1, <1>3, <2>1, <2>2, <2>3, <2>4, <2>5, <2>6, IgetInv
<1> QED
  BY <1>2, <1>4, <1>5

\* ireclaim() gets an orphan, while nothing else runs.
LEMMA ReclaimInv ==
  ASSUME IInv, NEW p \in Proc, Reclaim(p)
  PROVE  IInv'
<1>1. PICK k \in Inum : type[k] # 0 /\ iget(p, k)
  BY DEF Reclaim, Orphans
<1>2. /\ \A q \in Proc : pc[q] = "idle"
      /\ active' = {p} /\ op' = [op EXCEPT ![p] = "reclaim"] /\ Goto(p, "ilock")
      /\ UNCHANGED <<type, nlink, dir, durable, dirlock, name, inum>>
  BY DEF Reclaim, At, fs
<1>3. Only(p) /\ pc'[p] = "ilock" /\ op'[p] = "reclaim"
  BY <1>1, <1>2, GotFacts DEF Only, Goto, IInv, Types
<1>4. Igets(p, k)
  BY <1>1, <1>2, <1>3 DEF Igets, Holds, At
<1>5. DirInv'
  <2>1. ~HasDir(p) /\ ~HasDir(p)'
    BY <1>2, <1>3 DEF HasDir
  <2> QED
    BY <1>2, <1>3, <1>4, <2>1, IgetStep, DirSame
<1>6. ActiveInv'
  BY <1>2, <1>3 DEF ActiveInv, Only
<1>7. /\ active' \subseteq Proc /\ dirlock' \in Proc \cup {None}
      /\ name' \in [Proc -> Name \cup {None}] /\ inum' \in [Proc -> 0..NInum]
      /\ op' \in [Proc -> Ops]
  BY <1>2 DEF IInv, Types, Ops
<1> QED
  BY <1>1, <1>2, <1>3, <1>4, <1>5, <1>6, <1>7, IgetInv


-----------------------------------------------------------------------------
(* Steps of a process on its entry                                         *)

\* Process p changes its entry x, and what the disk has of that inode.
Work(p, x) ==
  /\ Holds(p) /\ Holds(p)' /\ e[p] = x /\ e'[p] = x
  /\ \A y \in Entry : y # x => table'[y] = table[y]
  /\ table'[x].inum = table[x].inum /\ table'[x].ref = table[x].ref
  /\ \A k \in Inum : k # table[x].inum => type'[k] = type[k] /\ nlink'[k] = nlink[k]

\* Work on entry x leaves the references and the entries, and is about an inode that
\* no other entry has.
LEMMA WorkFacts ==
  ASSUME IInv, NEW p \in Proc, Only(p), NEW x \in Entry, Work(p, x)
  PROVE  /\ RefInv' /\ EntryInv' /\ KeepsRefs(p)
         /\ \A q \in Proc : Holds(q)' <=> Holds(q)
         /\ \A q \in Proc : Holds(q) => /\ e'[q] = e[q] /\ Num(q)' = Num(q)
                                        /\ e[q] # x => Num(q) # table[x].inum
         /\ Num(p) = table[x].inum /\ Num(p) \in Inum
<1>1. KeepsRefs(p)
  BY DEF Work, KeepsRefs
<1>2. Num(p) = table[x].inum /\ Num(p) \in Inum
  BY HoldFacts DEF Work, Num
<1>3. \A q \in Proc : Holds(q) /\ Num(q) = Num(p) => e[q] = e[p]
  BY SameEntry DEF Work
<1> QED
  BY <1>1, <1>2, <1>3, KeepRefs DEF Work

\* The other copies are as good as before, and x by the last assumption.
LEMMA WorkCopy ==
  ASSUME IInv, NEW p \in Proc, Only(p), NEW x \in Entry, Work(p, x), CopyAt(x)'
  PROVE  CopyInv'
<1> SUFFICES ASSUME NEW y \in Entry, y # x PROVE CopyAt(y)'
  BY DEF CopyInv
<1>1. table'[y] = table[y]
  BY DEF Work
<1>2. (\A q \in Proc : e'[q] = y => pc'[q] # "invalidate") =>
        \A q \in Proc : e[q] = y => pc[q] # "invalidate"
  BY DEF Work, Only
<1>3. CASE table[y].ref > 0
  <2>1. table[y].inum \in Inum
    BY <1>3 DEF IInv, EntryInv
  <2>2. table[x].ref > 0
    BY HoldFacts DEF Work
  <2>3. table[y].inum # table[x].inum
    BY <1>3, <2>2 DEF IInv, EntryInv
  <2>4. type'[table[y].inum] = type[table[y].inum] /\ nlink'[table[y].inum] = nlink[table[y].inum]
    BY <2>1, <2>3 DEF Work
  <2>5. CopyAt(y)
    BY DEF IInv, CopyInv
  <2> QED
    BY <1>1, <1>2, <2>4, <2>5 DEF CopyAt, Copied
<1>4. CASE ~(table[y].ref > 0)
  BY <1>1, <1>4 DEF CopyAt
<1> QED
  BY <1>3, <1>4

\* A valid copy stays valid, and p's is if it has to be.
LEMMA WorkValid ==
  ASSUME IInv, NEW p \in Proc, Only(p), NEW x \in Entry, Work(p, x),
         table[x].valid => table'[x].valid,
         Live(p)' /\ pc'[p] # "ilock" => table'[x].valid
  PROVE  ValidInv'
<1> SUFFICES ASSUME NEW q \in Proc, Live(q)', pc'[q] # "ilock" PROVE table'[e'[q]].valid
  BY DEF ValidInv
<1>1. CASE q = p
  BY <1>1 DEF Work
<1>2. CASE q # p
  <2>1. Live(q) /\ pc[q] # "ilock" /\ e'[q] = e[q] /\ e[q] \in Entry
    BY <1>2, Others DEF Only, IInv, Types
  <2>2. table[e[q]].valid
    BY <2>1 DEF IInv, ValidInv
  <2> QED
    BY <2>1, <2>2 DEF Work
<1> QED
  BY <1>1, <1>2

\* Inodes that other processes have stay allocated.
LEMMA WorkAlloc ==
  ASSUME IInv, NEW p \in Proc, Only(p), NEW x \in Entry, Work(p, x),
         type' = type, Live(p)' => Live(p)
  PROVE  AllocInv'
<1>1. \A q \in Proc : Live(q)' => Live(q)
  BY Others
<1>2. \A q \in Proc : Live(q) => Num(q)' = Num(q)
  BY WorkFacts DEF Live
<1> QED
  BY <1>1, <1>2 DEF IInv, AllocInv

\* The new inodes of other processes are not concerned.
LEMMA WorkNew ==
  ASSUME IInv, NEW p \in Proc, Only(p), NEW x \in Entry, Work(p, x), Live(p),
         Fresh(p)' => Fresh(p) /\ nlink'[Num(p)] = 0
  PROVE  NewInv'
<1>1. /\ \A q \in Proc : Holds(q) => /\ e'[q] = e[q] /\ Num(q)' = Num(q)
                                     /\ e[q] # x => Num(q) # table[x].inum
      /\ Num(p) = table[x].inum
  BY WorkFacts
<1>2. \A q \in Proc : Live(q)' => Live(q)
  BY Others
<1>3. \A q \in Proc : (Live(q) => Holds(q)) /\ (Fresh(q) => Holds(q))
  BY DEF Live, Fresh, Holds
<1>4. ASSUME NEW q \in Proc, pc'[q] = "iget"
      PROVE  /\ inum'[q] \in Inum /\ type'[inum'[q]] # 0 /\ nlink'[inum'[q]] = 0
             /\ \A r \in Proc : Live(r)' => Num(r)' # inum'[q]
  <2>1. q # p
    BY <1>4 DEF Work, Holds, At
  <2>2. pc[q] = "iget" /\ inum'[q] = inum[q]
    BY <1>4, <2>1 DEF Only
  <2>3. /\ inum[q] \in Inum /\ type[inum[q]] # 0 /\ nlink[inum[q]] = 0
        /\ \A r \in Proc : Live(r) => Num(r) # inum[q]
    BY <2>2 DEF IInv, NewInv
  <2>4. type'[inum[q]] = type[inum[q]] /\ nlink'[inum[q]] = nlink[inum[q]]
    BY <1>1, <2>3 DEF Work
  <2> QED
    BY <1>1, <1>2, <1>3, <2>2, <2>3, <2>4
<1>5. ASSUME NEW q \in Proc, Fresh(q)'
      PROVE  /\ nlink'[Num(q)'] = 0
             /\ \A r \in Proc : Live(r)' /\ e'[r] = e'[q] => r = q
  <2>1. Fresh(q)
    BY <1>5, Others
  <2>2. /\ nlink[Num(q)] = 0
        /\ \A r \in Proc : Live(r) /\ e[r] = e[q] => r = q
    BY <2>1 DEF IInv, NewInv
  <2>3. \A r \in Proc : Live(r)' /\ e'[r] = e'[q] => r = q
    BY <1>1, <1>2, <1>3, <2>1, <2>2
  <2>4. nlink'[Num(q)] = 0
    <3>1. CASE q = p
      BY <1>5, <3>1
    <3>2. CASE q # p
      <4>1. e[q] # x
        BY <2>2, <3>2 DEF Work
      <4>2. Num(q) # table[x].inum /\ Num(q) \in Inum
        BY <1>1, <1>3, <2>1, <4>1, HoldFacts
      <4> QED
        BY <2>2, <4>2 DEF Work
    <3> QED
      BY <3>1, <3>2
  <2> QED
    BY <1>1, <1>3, <2>1, <2>3, <2>4
<1> QED
  BY <1>4, <1>5 DEF NewInv


\* The links that other inodes wait for stay pending, and p's inode may get one more or
\* one less.
LEMMA WorkPending ==
  ASSUME IInv, NEW p \in Proc, Only(p), NEW x \in Entry, Work(p, x), NEW k, k = Num(p)
  PROVE  /\ \A j : j # k => Pending(j)' = Pending(j)
         /\ (Pends(p)' <=> Pends(p)) => Pending(k)' = Pending(k)
         /\ Pends(p)' /\ ~Pends(p) => Cardinality(Pending(k)') = Cardinality(Pending(k)) + 1
         /\ Pends(p) /\ ~Pends(p)' => Cardinality(Pending(k)') = Cardinality(Pending(k)) - 1
<1>1. \A q \in Proc : Pends(q) => Holds(q)
  BY DEF Pends, Holds
<1>2. \A q \in Proc : q # p => (Pends(q)' <=> Pends(q)) /\ (Pends(q) => Num(q)' = Num(q))
  BY <1>1, Others, WorkFacts
<1>3. Num(p)' = k
  BY WorkFacts DEF Work
<1>4. \A j : j # k => Pending(j)' = Pending(j)
  BY <1>2, <1>3 DEF Pending
<1>5. (Pends(p)' <=> Pends(p)) => Pending(k)' = Pending(k)
  BY <1>2, <1>3 DEF Pending
<1>6. ASSUME Pends(p)', ~Pends(p)
      PROVE  Cardinality(Pending(k)') = Cardinality(Pending(k)) + 1
  <2>1. Pending(k)' = Pending(k) \cup {p} /\ p \notin Pending(k)
    BY <1>2, <1>3, <1>6 DEF Pending
  <2> QED
    BY <2>1, Finite, FS_AddElement
<1>7. ASSUME Pends(p), ~Pends(p)'
      PROVE  Cardinality(Pending(k)') = Cardinality(Pending(k)) - 1
  <2>1. Pending(k)' = Pending(k) \ {p} /\ p \in Pending(k)
    BY <1>2, <1>3, <1>7 DEF Pending
  <2> QED
    BY SMTT(300), <2>1, Finite, FS_RemoveElement
<1> QED
  BY <1>4, <1>5, <1>6, <1>7

\* A name is entered for an inode, or removed.
LEMMA NameEntered ==
  ASSUME IInv, NEW n \in Name, NEW k, k # 0, dir[n] = 0, dir' = [dir EXCEPT ![n] = k]
  PROVE  /\ Cardinality(Names(k)') = Cardinality(Names(k)) + 1
         /\ \A j : j # k /\ j # 0 => Names(j)' = Names(j)
<1>1. dir'[n] = k /\ \A m \in Name : m # n => dir'[m] = dir[m]
  BY DEF IInv, Types
<1>2. Names(k)' = Names(k) \cup {n} /\ n \notin Names(k)
  BY <1>1 DEF Names
<1>3. \A j : j # k /\ j # 0 => Names(j)' = Names(j)
  BY <1>1 DEF Names
<1> QED
  BY <1>2, <1>3, Finite, FS_AddElement

\* The name that sys_unlink() clears was one of the names of its inode.
LEMMA NameRemoved ==
  ASSUME IInv, NEW n \in Name, NEW k, k # 0, dir[n] = k, dir' = [dir EXCEPT ![n] = 0]
  PROVE  /\ Cardinality(Names(k)') = Cardinality(Names(k)) - 1
         /\ \A j : j # k /\ j # 0 => Names(j)' = Names(j)
<1>1. dir'[n] = 0 /\ \A m \in Name : m # n => dir'[m] = dir[m]
  BY DEF IInv, Types
<1>2. Names(k)' = Names(k) \ {n} /\ n \in Names(k)
  BY <1>1 DEF Names
<1>3. \A j : j # k /\ j # 0 => Names(j)' = Names(j)
  BY <1>1 DEF Names
<1> QED
  BY <1>2, <1>3, Finite, FS_RemoveElement

\* ilock(): the lock, and the copy of the disk unless it is valid.
LEMMA IlockInv ==
  ASSUME IInv, NEW p \in Proc, ilock(p)
  PROVE  IInv'
<1>1. PICK x \in Entry : e[p] = x
  BY DEF IInv, Types
<1> DEFINE r == [table[x] EXCEPT !.lock = p, !.valid = TRUE,
                   !.type = IF table[x].valid THEN @ ELSE type[table[x].inum],
                   !.nlink = IF table[x].valid THEN @ ELSE nlink[table[x].inum]]
<1>2. /\ pc[p] = "ilock" /\ table[x].lock = None /\ Goto(p, "locked")
      /\ table' = [table EXCEPT ![x] = r]
      /\ UNCHANGED <<type, nlink, dir, durable, active, dirlock, op, name, inum, e>>
  BY <1>1 DEF ilock, At, fs, locals
<1>3. Only(p) /\ pc'[p] = "locked" /\ op'[p] = op[p] /\ e'[p] = x
  BY <1>1, <1>2 DEF Only, Goto, IInv, Types
<1>4. Holds(p) /\ Holds(p)' /\ Live(p) /\ Live(p)'
  BY <1>2, <1>3 DEF Holds, Live
<1>5. table[x] \in EntryType /\ table[x].inum \in Inum
  BY <1>1, <1>4, HoldFacts DEF IInv, Types, Num
<1>6. r \in EntryType
  <2>1. type[table[x].inum] \in {0, 1} /\ nlink[table[x].inum] \in Nat
    BY <1>5 DEF IInv, Types
  <2> QED
    BY <1>5, <2>1 DEF EntryType
<1>7. /\ table'[x].inum = table[x].inum /\ table'[x].ref = table[x].ref
      /\ table'[x].lock = p /\ table'[x].valid
      /\ table[x].valid => table'[x].type = table[x].type /\ table'[x].nlink = table[x].nlink
      /\ ~table[x].valid => /\ table'[x].type = type[table[x].inum]
                            /\ table'[x].nlink = nlink[table[x].inum]
      /\ \A y \in Entry : y # x => table'[y] = table[y]
  BY <1>2, <1>5 DEF IInv, Types, EntryType
<1> HIDE DEF r
<1>8. Types'
  <2>1. table' \in [Entry -> EntryType]
    BY <1>2, <1>6 DEF IInv, Types
  <2>2. pc' \in [Proc -> Labels]
    BY <1>2 DEF Goto, IInv, Types, Labels
  <2> QED
    BY <1>2, <2>1, <2>2 DEF IInv, Types
<1>9. Work(p, x)
  BY <1>1, <1>2, <1>3, <1>4, <1>7 DEF Work
<1>10. KeepsRefs(p)
  BY <1>3, <1>9, WorkFacts
<1>11. Steady(p)
  <2>1. (Pends(p)' <=> Pends(p)) /\ (Fresh(p)' <=> Fresh(p))
    BY <1>2, <1>3 DEF Pends, Fresh
  <2> QED
    BY <1>2, <1>3, <1>4, <1>10, <2>1 DEF Steady
<1>12. LockInv'
  <2>1. pc'[p] \in Locks
    BY <1>3 DEF Locks
  <2> QED
    BY <1>1, <1>2, <1>3, <1>7, <2>1, LockTake
<1>13. \A q \in Proc : e[q] = x => pc[q] # "invalidate"
  <2>1. None \notin Proc
    BY InodeAssumption
  <2> QED
    BY SMTT(300), <1>2, <2>1 DEF IInv, LockInv, Locks
<1>14. CopyInv'
  <2>1. type[table[x].inum] # 0
    BY <1>1, <1>4 DEF IInv, AllocInv, Num
  <2>2. table[x].ref > 0
    BY <1>1, <1>4, HoldFacts
  <2>3. table[x].valid => Copied(x)
    BY <1>13, <2>2 DEF IInv, CopyInv, CopyAt
  <2>4. CopyAt(x)'
    BY <1>2, <1>7, <2>1, <2>3 DEF CopyAt, Copied
  <2> QED
    BY <1>3, <1>9, <2>4, WorkCopy
<1>15. ValidInv'
  BY <1>3, <1>7, <1>9, WorkValid
<1>16. FreeInv'
  BY <1>1, <1>2, <1>3, <1>10, <1>13, FreeSame DEF FreeAt
<1>17. DirInv'
  <2>1. HasDir(p)' <=> HasDir(p)
    BY <1>2, <1>3 DEF HasDir
  <2> QED
    BY <1>2, <1>3, <1>4, <1>9, <2>1, WorkFacts, DirSame
<1>18. ActiveInv' /\ OpInv'
  BY <1>2, <1>3, ActiveSame DEF IInv, OpInv, Only
<1> QED
  BY <1>2, <1>3, <1>8, <1>11, <1>12, <1>14, <1>15, <1>16, <1>17, <1>18,
     SteadyStep, DurableSame
     DEF IInv


\* A field of an entry is assigned.
LEMMA SetLock ==
  ASSUME Types, NEW x \in Entry, NEW v \in Proc \cup {None},
         table' = [table EXCEPT ![x].lock = v]
  PROVE  /\ table' \in [Entry -> EntryType]
         /\ \A y \in Entry : y # x => table'[y] = table[y]
         /\ table'[x] = [table[x] EXCEPT !.lock = v]
         /\ table'[x].lock = v /\ table'[x].valid = table[x].valid
         /\ table'[x].inum = table[x].inum /\ table'[x].ref = table[x].ref
         /\ table'[x].type = table[x].type /\ table'[x].nlink = table[x].nlink
<1>1. table \in [Entry -> EntryType] /\ table[x] \in EntryType
  BY DEF Types
<1>2. [table[x] EXCEPT !.lock = v] \in EntryType
  BY <1>1 DEF EntryType
<1>3. table' = [table EXCEPT ![x] = [table[x] EXCEPT !.lock = v]]
  BY <1>1
<1> QED
  BY <1>1, <1>2, <1>3 DEF EntryType

\* What the decrement of ref in iput() leaves of the table.
LEMMA DropRef ==
  ASSUME Types, NEW x \in Entry, table[x].ref > 0,
         table' = [table EXCEPT ![x].ref = @ - 1]
  PROVE  /\ table' \in [Entry -> EntryType]
         /\ \A y \in Entry : y # x => table'[y] = table[y]
         /\ table'[x].lock = table[x].lock /\ table'[x].valid = table[x].valid
         /\ table'[x].inum = table[x].inum /\ table'[x].ref = table[x].ref - 1
         /\ table'[x].type = table[x].type /\ table'[x].nlink = table[x].nlink
<1>1. table \in [Entry -> EntryType] /\ table[x] \in EntryType
  BY DEF Types
<1>2. [table[x] EXCEPT !.ref = table[x].ref - 1] \in EntryType
  BY SMTT(300), <1>1 DEF EntryType
<1>3. table' = [table EXCEPT ![x] = [table[x] EXCEPT !.ref = table[x].ref - 1]]
  BY <1>1
<1> QED
  BY <1>1, <1>2, <1>3 DEF EntryType

\* A process that is neither waiting for the lock of its entry nor freeing its inode
\* meets nobody who is freeing it.
LEMMA NotMet ==
  ASSUME IInv, NEW p \in Proc, Holds(p), pc[p] \notin {"ilock", "free", "invalidate"}
  PROVE  /\ \A q \in Proc : pc[q] \in {"free", "invalidate"} => e[q] # e[p]
         /\ \A q \in Proc : pc[q] \in {"free", "invalidate"} => Num(q) # Num(p)
<1>1. \A q \in Proc : pc[q] \in {"free", "invalidate"} => e[q] # e[p]
  BY DEF IInv, FreeInv, FreeAt
<1>2. \A q \in Proc : pc[q] \in {"free", "invalidate"} => Holds(q)
  BY DEF Holds
<1> QED
  BY <1>1, <1>2, SameEntry

\* sys_open() and ireclaim() unlock the inode.
LEMMA UnlockInv ==
  ASSUME IInv, NEW p \in Proc, Unlock(p)
  PROVE  IInv'
<1>1. PICK x \in Entry : e[p] = x
  BY DEF IInv, Types
<1>2. PICK l \in {"end", "put"} :
        /\ pc[p] = "locked" /\ op[p] \in {"open", "reclaim"} /\ Goto(p, l)
        /\ l = "end" <=> op[p] = "open"
        /\ table' = [table EXCEPT ![x].lock = None]
        /\ UNCHANGED <<type, nlink, dir, durable, active, dirlock, op, name, inum, e>>
  BY <1>1 DEF Unlock, At, fs, locals
<1>3. Only(p) /\ pc'[p] = l /\ op'[p] = op[p] /\ e'[p] = x
  BY <1>1, <1>2 DEF Only, Goto, IInv, Types
<1>4. Holds(p) /\ Holds(p)' /\ Live(p) /\ Live(p)'
  BY <1>2, <1>3 DEF Holds, Live, At
<1>5. /\ table' \in [Entry -> EntryType]
      /\ \A y \in Entry : y # x => table'[y] = table[y]
      /\ table'[x].lock = None /\ table'[x].valid = table[x].valid
      /\ table'[x].inum = table[x].inum /\ table'[x].ref = table[x].ref
      /\ table'[x].type = table[x].type /\ table'[x].nlink = table[x].nlink
  BY <1>2, SetLock DEF IInv
<1>6. Types'
  <2>1. pc' \in [Proc -> Labels]
    BY <1>2 DEF Goto, IInv, Types, Labels
  <2> QED
    BY <1>2, <1>5, <2>1 DEF IInv, Types
<1>7. Work(p, x)
  BY <1>1, <1>2, <1>3, <1>4, <1>5 DEF Work
<1>8. KeepsRefs(p)
  BY <1>3, <1>7, WorkFacts
<1>9. Steady(p)
  <2>1. ~Pends(p)' /\ ~Pends(p) /\ ~Fresh(p)'
    BY <1>2, <1>3 DEF Pends, Fresh
  <2> QED
    BY <1>2, <1>3, <1>4, <1>8, <2>1 DEF Steady
<1>10. LockInv'
  <2>1. pc[p] \in Locks /\ pc'[p] \notin Locks
    BY <1>2, <1>3 DEF Locks
  <2> QED
    BY <1>1, <1>3, <1>5, <2>1, LockDrop
<1>11. \A q \in Proc : pc[q] = "invalidate" => e[q] # x
  BY <1>1, <1>2, <1>4, NotMet
<1>12. CopyInv'
  <2>1. CopyAt(x)
    BY DEF IInv, CopyInv
  <2>2. CopyAt(x)'
    BY <1>2, <1>5, <1>11, <2>1 DEF CopyAt, Copied
  <2> QED
    BY <1>3, <1>7, <2>2, WorkCopy
<1>13. ValidInv'
  <2>1. table[x].valid
    BY <1>1, <1>2, <1>4 DEF IInv, ValidInv
  <2> QED
    BY <1>3, <1>5, <1>7, <2>1, WorkValid
<1>14. FreeInv'
  BY <1>1, <1>2, <1>3, <1>8, <1>11, FreeSame DEF FreeAt
<1>15. DirInv'
  <2>1. ~HasDir(p)' /\ ~HasDir(p)
    BY <1>2, <1>3 DEF HasDir
  <2> QED
    BY <1>2, <1>3, <1>7, <2>1, WorkFacts, DirSame
<1>16. ActiveInv' /\ OpInv'
  BY <1>2, <1>3, ActiveSame DEF IInv, OpInv, Only
<1> QED
  BY <1>2, <1>3, <1>6, <1>9, <1>10, <1>12, <1>13, <1>14, <1>15, <1>16,
     SteadyStep, DurableSame
     DEF IInv


\* iput() takes the lock of an inode to free it.
LEMMA IputLockInv ==
  ASSUME IInv, NEW p \in Proc, iput(p), Unused(table[e[p]])
  PROVE  IInv'
<1>1. PICK x \in Entry : e[p] = x
  BY DEF IInv, Types
<1>2. /\ pc[p] = "put" /\ table[x].lock = None /\ Goto(p, "free")
      /\ table[x].ref = 1 /\ table[x].valid /\ table[x].nlink = 0
      /\ table' = [table EXCEPT ![x].lock = p]
      /\ UNCHANGED <<type, nlink, dir, durable, active, dirlock, op, name, inum, e>>
  BY <1>1 DEF iput, At, fs, locals, Unused
<1>3. Only(p) /\ pc'[p] = "free" /\ op'[p] = op[p] /\ e'[p] = x
  BY <1>1, <1>2 DEF Only, Goto, IInv, Types
<1>4. Holds(p) /\ Holds(p)' /\ Live(p) /\ Live(p)'
  BY <1>2, <1>3 DEF Holds, Live
<1>5. /\ table' \in [Entry -> EntryType]
      /\ \A y \in Entry : y # x => table'[y] = table[y]
      /\ table'[x].lock = p /\ table'[x].valid = table[x].valid
      /\ table'[x].inum = table[x].inum /\ table'[x].ref = table[x].ref
      /\ table'[x].type = table[x].type /\ table'[x].nlink = table[x].nlink
  BY <1>2, SetLock DEF IInv
<1>6. Types'
  <2>1. pc' \in [Proc -> Labels]
    BY <1>2 DEF Goto, IInv, Types, Labels
  <2> QED
    BY <1>2, <1>5, <2>1 DEF IInv, Types
<1>7. Work(p, x)
  BY <1>1, <1>2, <1>3, <1>4, <1>5 DEF Work
<1>8. KeepsRefs(p)
  BY <1>3, <1>7, WorkFacts
<1>9. Steady(p)
  <2>1. ~Pends(p)' /\ ~Pends(p) /\ ~Fresh(p)'
    BY <1>2, <1>3 DEF Pends, Fresh
  <2> QED
    BY <1>2, <1>3, <1>4, <1>8, <2>1 DEF Steady
<1>10. LockInv'
  <2>1. pc'[p] \in Locks
    BY <1>3 DEF Locks
  <2> QED
    BY <1>1, <1>2, <1>3, <1>5, <2>1, LockTake
<1>11. \A q \in Proc : pc[q] = "invalidate" => e[q] # x
  BY <1>1, <1>2, <1>4, NotMet
<1>12. CopyAt(x) /\ CopyInv'
  <2>1. CopyAt(x)
    BY DEF IInv, CopyInv
  <2>2. CopyAt(x)'
    BY <1>2, <1>5, <1>11, <2>1 DEF CopyAt, Copied
  <2> QED
    BY <1>3, <1>7, <2>1, <2>2, WorkCopy
<1>13. ValidInv'
  BY <1>2, <1>3, <1>5, <1>7, WorkValid
<1>14. FreeInv'
  <2>1. nlink[table[x].inum] = 0
    BY SMTT(300), <1>2, <1>11, <1>12 DEF CopyAt, Copied
  <2>2. \A q \in Proc : Holds(q) /\ e[q] = x => q = p
    BY <1>1, <1>2, <1>4, OneRef
  <2>3. /\ \A q \in Proc : Holds(q)' <=> Holds(q)
        /\ \A q \in Proc : Holds(q) => e'[q] = e[q]
        /\ Num(p)' = table[x].inum
    BY <1>3, <1>4, <1>7, WorkFacts
  <2>4. FreeAt(p)'
    BY <1>2, <1>3, <2>1, <2>2, <2>3 DEF FreeAt
  <2> QED
    BY <1>1, <1>2, <1>3, <1>8, <1>11, <2>4, FreeSame
<1>15. DirInv'
  <2>1. ~HasDir(p)' /\ ~HasDir(p)
    BY <1>2, <1>3 DEF HasDir
  <2> QED
    BY <1>2, <1>3, <1>7, <2>1, WorkFacts, DirSame
<1>16. ActiveInv' /\ OpInv'
  BY SMTT(300), <1>2, <1>3, ActiveSame DEF IInv, OpInv, Only
<1> QED
  BY <1>2, <1>3, <1>6, <1>9, <1>10, <1>12, <1>13, <1>14, <1>15, <1>16,
     SteadyStep, DurableSame
     DEF IInv

\* iput() drops a reference: at once, or after it has freed the inode.
LEMMA DropInv ==
  ASSUME IInv, NEW p \in Proc, pc[p] \in {"put", "unref"}, Goto(p, "end"),
         table' = [table EXCEPT ![e[p]].ref = @ - 1],
         UNCHANGED <<type, nlink, dir, durable, active, dirlock, op, name, inum, e>>
  PROVE  IInv'
<1>1. PICK x \in Entry : e[p] = x
  BY DEF IInv, Types
<1>2. Only(p) /\ pc'[p] = "end" /\ op'[p] = op[p] /\ e' = e
  BY DEF Only, Goto, IInv, Types
<1>3. op[p] \notin {"open", "create"}
  BY DEF IInv, OpInv
<1>4. Holds(p) /\ ~Holds(p)'
  BY <1>2, <1>3 DEF Holds, At
<1>5. table[x].ref > 0
  BY <1>1, <1>4, HoldFacts
<1>6. /\ table' \in [Entry -> EntryType]
      /\ \A y \in Entry : y # x => table'[y] = table[y]
      /\ table'[x].lock = table[x].lock /\ table'[x].valid = table[x].valid
      /\ table'[x].inum = table[x].inum /\ table'[x].ref = table[x].ref - 1
      /\ table'[x].type = table[x].type /\ table'[x].nlink = table[x].nlink
  BY <1>1, <1>5, DropRef DEF IInv
<1>7. /\ \A y \in Entry : table'[y].inum = table[y].inum /\ table'[y].valid = table[y].valid
      /\ \A y \in Entry : table'[y].lock = table[y].lock
      /\ \A y \in Entry : table'[y].type = table[y].type /\ table'[y].nlink = table[y].nlink
      /\ \A y \in Entry : table'[y].ref > 0 => table[y].ref > 0
  BY <1>5, <1>6
<1>8. Types'
  <2>1. pc' \in [Proc -> Labels]
    BY DEF Goto, IInv, Types, Labels
  <2> QED
    BY <1>6, <2>1 DEF IInv, Types
<1>9. RefInv'
  <2>1. /\ Cardinality(Refs(x)') = Cardinality(Refs(x)) - 1
        /\ \A y : y # x => Refs(y)' = Refs(y)
    BY <1>1, <1>2, <1>4, RefsLess
  <2>2. table'[x].ref = Cardinality(Refs(x)')
    BY <1>6, <2>1 DEF IInv, RefInv
  <2>3. ASSUME NEW y \in Entry, y # x PROVE table'[y].ref = Cardinality(Refs(y)')
    <3>1. table'[y] = table[y] /\ Refs(y)' = Refs(y)
      BY <1>6, <2>1, <2>3
    <3>2. table[y].ref = Cardinality(Refs(y))
      BY DEF IInv, RefInv
    <3> QED
      BY <3>1, <3>2
  <2> QED
    BY <2>2, <2>3 DEF RefInv
<1>10. EntryInv'
  BY SMTT(300), <1>7 DEF IInv, EntryInv
<1>11. LockInv'
  <2>1. pc[p] \notin Locks /\ pc'[p] \notin Locks
    BY <1>2 DEF Locks
  <2> QED
    BY <1>2, <1>7, <2>1, LockSame
<1>12. \A q \in Proc : e[q] \in Entry /\ Num(q)' = Num(q)
  BY SMTT(300), <1>2, <1>7 DEF IInv, Types, Num
<1>13. /\ \A q \in Proc : Holds(q)' => Holds(q) /\ q # p
       /\ \A q \in Proc : Live(q)' => Live(q) /\ q # p
       /\ \A q \in Proc : Fresh(q)' => Fresh(q) /\ q # p
       /\ \A q \in Proc : Pends(q)' <=> Pends(q)
  <2>1. ~Live(p)' /\ ~Fresh(p)' /\ ~Pends(p)' /\ ~Pends(p)
    BY <1>2, <1>4 DEF Live, Fresh, Pends
  <2> QED
    BY <1>2, <1>4, <2>1, Others
<1>14. \A q \in Proc : q # p => pc'[q] = pc[q] /\ op'[q] = op[q] /\ inum'[q] = inum[q]
  BY <1>2 DEF Only
<1>15. AllocInv' /\ ValidInv'
  BY SMTT(300), <1>2, <1>7, <1>12, <1>13, <1>14 DEF IInv, AllocInv, ValidInv
<1>16. CopyInv'
  <2>1. \A q \in Proc : pc[q] = "invalidate" => pc'[q] = "invalidate"
    BY <1>14
  <2> QED
    BY SMTT(300), <1>2, <1>7, <2>1 DEF IInv, CopyInv, CopyAt, Copied
<1>17. FreeInv'
  BY SMTT(300), <1>2, <1>12, <1>13, <1>14 DEF IInv, FreeInv, FreeAt
<1>18. NewInv'
  BY SMTT(300), <1>2, <1>12, <1>13, <1>14 DEF IInv, NewInv
<1>19. LinkInv'
  <2>1. \A k : Names(k)' = Names(k) /\ Pending(k)' = Pending(k)
    BY <1>12, <1>13 DEF Names, Pending
  <2> QED
    BY <2>1 DEF IInv, LinkInv
<1>20. DirInv'
  <2>1. ~HasDir(p)' /\ ~HasDir(p)
    BY <1>2 DEF HasDir
  <2> QED
    BY <1>2, <1>12, <2>1, DirSame
<1>21. ActiveInv' /\ OpInv'
  BY <1>2, <1>3, ActiveSame DEF IInv, OpInv, Only
<1> QED
  BY <1>8, <1>9, <1>10, <1>11, <1>15, <1>16, <1>17, <1>18, <1>19, <1>20,
     <1>21, DurableSame
     DEF IInv


\* Both ways through the rest of iput().
LEMMA IputInv ==
  ASSUME IInv, NEW p \in Proc, iput(p) \/ Unref(p)
  PROVE  IInv'
<1>1. CASE iput(p) /\ Unused(table[e[p]])
  BY <1>1, IputLockInv
<1>2. CASE iput(p) /\ ~Unused(table[e[p]])
  <2>1. /\ pc[p] = "put" /\ Goto(p, "end") /\ table' = [table EXCEPT ![e[p]].ref = @ - 1]
        /\ UNCHANGED <<type, nlink, dir, durable, active, dirlock, op, name, inum, e>>
    BY <1>2 DEF iput, At, fs, locals
  <2> QED
    BY <2>1, DropInv
<1>3. CASE Unref(p)
  <2>1. /\ pc[p] = "unref" /\ Goto(p, "end") /\ table' = [table EXCEPT ![e[p]].ref = @ - 1]
        /\ UNCHANGED <<type, nlink, dir, durable, active, dirlock, op, name, inum, e>>
    BY <1>3 DEF Unref, At, fs, locals
  <2> QED
    BY <2>1, DropInv
<1> QED
  BY <1>1, <1>2, <1>3

\* iput() marks the copy of the freed inode invalid, and unlocks it: whoever has the entry
\* waits for the lock and reads the disk again.
LEMMA InvalidateInv ==
  ASSUME IInv, NEW p \in Proc, Invalidate(p)
  PROVE  IInv'
<1>1. PICK x \in Entry : e[p] = x
  BY DEF IInv, Types
<1>2. /\ pc[p] = "invalidate" /\ Goto(p, "unref")
      /\ table' = [table EXCEPT ![x] = Invalid(table[x])]
      /\ UNCHANGED <<type, nlink, dir, durable, active, dirlock, op, name, inum, e>>
  BY <1>1 DEF Invalidate, At, fs, locals, IInv, Types
<1>3. Only(p) /\ pc'[p] = "unref" /\ op'[p] = op[p] /\ e'[p] = x
  BY <1>1, <1>2 DEF Only, Goto, IInv, Types
<1>4. Holds(p) /\ Holds(p)' /\ ~Live(p)'
  BY <1>2, <1>3 DEF Holds, Live
<1>5. /\ Invalid(table[x]) \in EntryType
      /\ Invalid(table[x]).lock = None /\ ~Invalid(table[x]).valid
      /\ Invalid(table[x]).inum = table[x].inum /\ Invalid(table[x]).ref = table[x].ref
  <2>1. table[x] \in EntryType
    BY DEF IInv, Types
  <2> QED
    BY <2>1 DEF Invalid, EntryType
<1>6. /\ table' \in [Entry -> EntryType]
      /\ table'[x] = Invalid(table[x])
      /\ \A y \in Entry : y # x => table'[y] = table[y]
  BY <1>2, <1>5 DEF IInv, Types
<1>7. Types'
  <2>1. pc' \in [Proc -> Labels]
    BY <1>2 DEF Goto, IInv, Types, Labels
  <2> QED
    BY <1>2, <1>6, <2>1 DEF IInv, Types
<1>8. Work(p, x)
  BY <1>1, <1>2, <1>3, <1>4, <1>5, <1>6 DEF Work
<1>9. KeepsRefs(p)
  BY <1>3, <1>8, WorkFacts
<1>10. Steady(p)
  <2>1. ~Pends(p)' /\ ~Pends(p) /\ ~Fresh(p)'
    BY <1>2, <1>3 DEF Pends, Fresh
  <2> QED
    BY <1>2, <1>3, <1>4, <1>9, <2>1 DEF Steady
<1>11. LockInv'
  <2>1. pc[p] \in Locks /\ pc'[p] \notin Locks
    BY <1>2, <1>3 DEF Locks
  <2> QED
    BY <1>1, <1>3, <1>5, <1>6, <2>1, LockDrop
<1>12. \A q \in Proc : q # p /\ pc[q] = "invalidate" => e[q] # x
  <2>1. \A q \in Proc : pc[q] = "invalidate" /\ e[q] = x => table[x].lock = q
    BY DEF IInv, LockInv, Locks
  <2> QED
    BY <1>1, <1>2, <2>1
<1>13. CopyInv'
  <2>1. CopyAt(x)'
    BY <1>5, <1>6 DEF CopyAt
  <2> QED
    BY <1>3, <1>8, <2>1, WorkCopy
<1>14. ValidInv'
  <2> SUFFICES ASSUME NEW q \in Proc, Live(q)', pc'[q] # "ilock" PROVE table'[e'[q]].valid
    BY DEF ValidInv
  <2>1. q # p
    BY <1>4
  <2>2. Live(q) /\ Holds(q) /\ pc[q] # "ilock" /\ e'[q] = e[q] /\ e[q] \in Entry
    BY <1>3, <2>1, Others DEF Only, Live, IInv, Types
  <2>3. e[q] # x
    BY <1>1, <1>2, <2>1, <2>2 DEF IInv, FreeInv, FreeAt
  <2> QED
    BY <1>6, <2>2, <2>3 DEF IInv, ValidInv
<1>15. FreeInv'
  BY <1>1, <1>2, <1>3, <1>9, <1>12, FreeSame DEF FreeAt
<1>16. DirInv'
  <2>1. ~HasDir(p)' /\ ~HasDir(p)
    BY <1>2, <1>3 DEF HasDir
  <2> QED
    BY <1>2, <1>3, <1>8, <2>1, WorkFacts, DirSame
<1>17. ActiveInv' /\ OpInv'
  BY <1>2, <1>3, ActiveSame DEF IInv, OpInv, Only
<1> QED
  BY <1>2, <1>3, <1>7, <1>10, <1>11, <1>13, <1>14, <1>15, <1>16, <1>17,
     SteadyStep, DurableSame
     DEF IInv


-----------------------------------------------------------------------------
(* The link count changes                                                  *)

\* iupdate() of a link count and iunlock() preserve what IInv says of the entries.
Updates(p, x, n) ==
  /\ e[p] = x /\ e' = e /\ pc[p] = "locked" /\ pc'[p] \in {"end", "put", "dirlink"}
  /\ Holds(p)' /\ Update(p, n) /\ type' = type

\* iupdate() is work on the entry, and leaves the new link count in both places.
LEMMA UpdateFacts ==
  ASSUME IInv, NEW p \in Proc, Only(p), NEW x \in Entry, NEW n \in Nat, Updates(p, x, n)
  PROVE  /\ Work(p, x) /\ Live(p)
         /\ nlink' \in [Inum -> Nat] /\ nlink'[Num(p)] = n
         /\ table' \in [Entry -> EntryType]
         /\ table'[x].nlink = n /\ table'[x].lock = None
         /\ table'[x].valid = table[x].valid /\ table'[x].type = table[x].type
<1>1. /\ e[p] = x /\ e'[p] = x /\ pc[p] = "locked" /\ Holds(p)'
      /\ nlink' = [nlink EXCEPT ![table[x].inum] = n]
      /\ table' = [table EXCEPT ![x] = [@ EXCEPT !.nlink = n, !.lock = None]]
  BY DEF Updates, Update
<1>2. Holds(p) /\ Live(p)
  BY <1>1 DEF Holds, Live
<1>3. table \in [Entry -> EntryType] /\ table[x] \in EntryType /\ nlink \in [Inum -> Nat]
  BY DEF IInv, Types
<1>4. table[x].inum \in Inum /\ Num(p) = table[x].inum
  BY <1>1, <1>2, HoldFacts DEF Num
<1>5. /\ nlink' \in [Inum -> Nat] /\ nlink'[table[x].inum] = n
      /\ \A k \in Inum : k # table[x].inum => nlink'[k] = nlink[k]
  BY <1>1, <1>3, <1>4
<1>6. [table[x] EXCEPT !.nlink = n, !.lock = None] \in EntryType
  BY <1>3 DEF EntryType
<1>7. table' = [table EXCEPT ![x] = [table[x] EXCEPT !.nlink = n, !.lock = None]]
  BY <1>1, <1>3
<1>8. /\ table' \in [Entry -> EntryType]
      /\ \A y \in Entry : y # x => table'[y] = table[y]
      /\ table'[x] = [table[x] EXCEPT !.nlink = n, !.lock = None]
  BY <1>3, <1>6, <1>7
<1>9. /\ table'[x].nlink = n /\ table'[x].lock = None
      /\ table'[x].valid = table[x].valid /\ table'[x].type = table[x].type
      /\ table'[x].inum = table[x].inum /\ table'[x].ref = table[x].ref
  BY <1>3, <1>8 DEF EntryType
<1>10. Work(p, x)
  BY <1>1, <1>2, <1>5, <1>8, <1>9 DEF Work, Updates
<1> QED
  BY <1>2, <1>4, <1>5, <1>8, <1>9, <1>10

\* iupdate() preserves all that IInv says of entries and copies.
LEMMA UpdateStep ==
  ASSUME IInv, NEW p \in Proc, Only(p), NEW x \in Entry, NEW n \in Nat, Updates(p, x, n)
  PROVE  /\ RefInv' /\ EntryInv' /\ LockInv' /\ AllocInv' /\ ValidInv' /\ CopyInv' /\ FreeInv'
         /\ NewInv'
<1>1. /\ Work(p, x) /\ Live(p)
      /\ nlink'[Num(p)] = n /\ table'[x].nlink = n /\ table'[x].lock = None
      /\ table'[x].valid = table[x].valid /\ table'[x].type = table[x].type
  BY UpdateFacts
<1>2. /\ e[p] = x /\ e'[p] = x /\ pc[p] = "locked" /\ pc'[p] \in {"end", "put", "dirlink"}
      /\ type' = type /\ Holds(p)
  BY <1>1 DEF Updates, Work
<1>3. /\ RefInv' /\ EntryInv' /\ KeepsRefs(p)
      /\ Num(p) = table[x].inum /\ Num(p) \in Inum
  BY <1>1, WorkFacts
<1>4. LockInv'
  <2>1. pc[p] \in Locks /\ pc'[p] \notin Locks
    BY <1>2 DEF Locks
  <2> QED
    BY <1>1, <1>2, <2>1, LockDrop DEF Work
<1>5. AllocInv'
  BY <1>1, <1>2, WorkAlloc
<1>6. table[x].valid
  BY <1>1, <1>2 DEF IInv, ValidInv
<1>7. ValidInv'
  BY <1>1, <1>6, WorkValid
<1>8. /\ \A q \in Proc : pc[q] \in {"free", "invalidate"} => e[q] # x
      /\ \A q \in Proc : pc[q] \in {"free", "invalidate"} => Num(q) # Num(p)
  BY <1>2, NotMet
<1>9. CopyInv'
  <2>1. table[x].ref > 0 /\ CopyAt(x)
    BY <1>2, HoldFacts DEF IInv, CopyInv
  <2>2. type[table[x].inum] # 0 /\ table[x].type = type[table[x].inum]
    BY <1>6, <1>8, <2>1 DEF CopyAt, Copied
  <2>3. table'[x].inum = table[x].inum
    BY <1>1 DEF Work
  <2>4. CopyAt(x)'
    BY <1>1, <1>2, <1>3, <2>2, <2>3 DEF CopyAt, Copied
  <2> QED
    BY <1>1, <2>4, WorkCopy
<1>10. FreeInv'
  <2>1. FreeAt(p)'
    BY <1>2 DEF FreeAt
  <2>2. ASSUME NEW q \in Proc, pc[q] \in {"free", "invalidate"}
        PROVE  type'[Num(q)] = 0 \/ nlink'[Num(q)] = 0
    <3>1. Num(q) # Num(p) /\ Num(q) \in Inum
      BY <1>8, <2>2, HoldFacts DEF Holds
    <3>2. type'[Num(q)] = type[Num(q)] /\ nlink'[Num(q)] = nlink[Num(q)]
      BY <1>1, <1>3, <3>1 DEF Work
    <3> QED
      BY <2>2, <3>2 DEF IInv, FreeInv, FreeAt
  <2>3. \A q \in Proc : q # p => FreeAt(q)'
    BY <1>2, <1>3, <1>8, <2>2, FreeOthers
  <2> QED
    BY <2>1, <2>3 DEF FreeInv
<1>11. NewInv'
  <2>1. ~Fresh(p)'
    BY <1>2 DEF Fresh
  <2> QED
    BY <1>1, <2>1, WorkNew
<1> QED
  BY <1>3, <1>4, <1>5, <1>7, <1>9, <1>10, <1>11

\* The links of other inodes are as before, and those of p's are what it has written.
LEMMA UpdateLinks ==
  ASSUME IInv, NEW p \in Proc, Only(p), NEW x \in Entry, Work(p, x), type' = type,
         NEW k \in Inum, k = Num(p), \A j \in Inum : j # k => Names(j)' = Names(j),
         type[k] # 0, nlink'[k] = Cardinality(Names(k)') + Cardinality(Pending(k)')
  PROVE  LinkInv'
<1> SUFFICES ASSUME NEW j \in Inum, j # k
             PROVE  IF type'[j] = 0 THEN Names(j)' = {}
                    ELSE nlink'[j] = Cardinality(Names(j)') + Cardinality(Pending(j)')
  BY DEF LinkInv
<1>1. Names(j)' = Names(j) /\ Pending(j)' = Pending(j)
  BY WorkPending
<1>2. nlink'[j] = nlink[j]
  BY SMTT(300), WorkFacts DEF Work
<1>3. IF type[j] = 0 THEN Names(j) = {}
      ELSE nlink[j] = Cardinality(Names(j)) + Cardinality(Pending(j))
  BY DEF IInv, LinkInv
<1> QED
  BY <1>1, <1>2, <1>3

\* The process that has the lock of an inode has its link count.
LEMMA LinksKnown ==
  ASSUME IInv, NEW p \in Proc, pc[p] = "locked"
  PROVE  /\ Holds(p) /\ Live(p) /\ Num(p) \in Inum
         /\ type[Num(p)] # 0 /\ Links(p) = nlink[Num(p)] /\ nlink[Num(p)] \in Nat
<1>1. Holds(p) /\ Live(p)
  BY DEF Holds, Live
<1>2. e[p] \in Entry /\ table[e[p]].ref > 0 /\ Num(p) \in Inum
  BY <1>1, HoldFacts
<1>3. table[e[p]].valid /\ CopyAt(e[p])
  BY <1>1, <1>2 DEF IInv, ValidInv, CopyInv
<1>4. \A q \in Proc : e[q] = e[p] => pc[q] # "invalidate"
  BY <1>1, NotMet
<1>5. type[Num(p)] # 0 /\ Links(p) = nlink[Num(p)]
  BY <1>2, <1>3, <1>4 DEF CopyAt, Copied, Num, Links
<1> QED
  BY <1>1, <1>2, <1>5 DEF IInv, Types

\* Types of what create(), sys_link() and sys_unlink() change.
LEMMA UpdateTypes ==
  ASSUME IInv, NEW p \in Proc, Only(p), NEW x \in Entry, NEW n \in Nat, Updates(p, x, n),
         NEW l \in Labels, Goto(p, l), UNCHANGED <<durable, active, inum>>,
         dir' \in [Name -> 0..NInum], dirlock' \in {dirlock, None},
         name' \in {name, [name EXCEPT ![p] = None]},
         NEW o \in Ops, op' \in {op, [op EXCEPT ![p] = o]}
  PROVE  Types'
<1>1. nlink' \in [Inum -> Nat] /\ table' \in [Entry -> EntryType] /\ type' = type /\ e' = e
  BY UpdateFacts DEF Updates
<1>2. /\ pc' \in [Proc -> Labels] /\ op' \in [Proc -> Ops]
      /\ name' \in [Proc -> Name \cup {None}] /\ dirlock' \in Proc \cup {None}
  BY DEF Goto, IInv, Types
<1> QED
  BY <1>1, <1>2 DEF IInv, Types

\* create() gives the new inode its link and its name.
LEMMA CreateInv ==
  ASSUME IInv, NEW p \in Proc, Create(p)
  PROVE  IInv'
<1>1. PICK x \in Entry : e[p] = x
  BY DEF IInv, Types
<1>2. PICK k \in Inum : k = Num(p) /\ type[k] # 0
  BY LinksKnown DEF Create, At
<1>3. /\ pc[p] = "locked" /\ op[p] = "create" /\ Update(p, 1) /\ Goto(p, "end")
      /\ dir' = [dir EXCEPT ![name[p]] = k]
      /\ dirlock' = None /\ name' = [name EXCEPT ![p] = None]
      /\ UNCHANGED <<type, durable, active, op, inum, e>>
  BY <1>2 DEF Create, At, UnlockDir, Num
<1>4. Only(p) /\ pc'[p] = "end" /\ op'[p] = "create"
  BY <1>3 DEF Only, Goto, IInv, Types
<1>5. Updates(p, x, 1)
  BY <1>1, <1>3, <1>4 DEF Updates, Holds, At
<1>6. 1 \in Nat /\ k # 0 /\ k \in 0..NInum
  BY SMTT(300), InodeAssumption DEF Inum
<1>7. HasDir(p) /\ ~HasDir(p)' /\ ~Pends(p) /\ ~Pends(p)' /\ Fresh(p)
  BY <1>3, <1>4 DEF HasDir, Pends, Fresh
<1>8. dirlock = p /\ name[p] \in Name /\ dir[name[p]] = 0
  BY <1>3, <1>7 DEF IInv, DirInv
<1>9. Work(p, x) /\ nlink'[k] = 1
  BY <1>2, <1>4, <1>5, <1>6, UpdateFacts
<1>10. LinkInv'
  <2>1. nlink[k] = 0
    BY <1>2, <1>7 DEF IInv, NewInv
  <2>2. Names(k) = {} /\ Pending(k) = {}
    BY <1>2, <2>1, LinkFacts
  <2>3. Cardinality(Names(k)) = 0 /\ Cardinality(Pending(k)) = 0
    BY <2>2, FS_EmptySet
  <2>4. /\ Cardinality(Names(k)') = Cardinality(Names(k)) + 1
        /\ \A j : j # k /\ j # 0 => Names(j)' = Names(j)
    BY <1>3, <1>6, <1>8, NameEntered
  <2>5. Pending(k)' = Pending(k)
    BY <1>2, <1>4, <1>7, <1>9, WorkPending
  <2>6. nlink'[k] = Cardinality(Names(k)') + Cardinality(Pending(k)')
    BY SMTT(300), <1>9, <2>3, <2>4, <2>5
  <2>7. \A j \in Inum : j # 0
    BY SMTT(300), InodeAssumption DEF Inum
  <2> QED
    BY SMTT(300), <1>2, <1>3, <1>4, <1>9, <2>4, <2>6, <2>7, UpdateLinks
<1>11. Types'
  <2>1. dir' \in [Name -> 0..NInum]
    BY <1>3, <1>6 DEF IInv, Types
  <2>2. "end" \in Labels /\ "create" \in Ops
    BY DEF Labels, Ops
  <2> QED
    BY <1>3, <1>4, <1>5, <1>6, <2>1, <2>2, UpdateTypes
<1>12. DirInv'
  BY <1>3, <1>4, <1>7, <1>8, DirFree
<1>13. ActiveInv' /\ OpInv'
  BY <1>3, <1>4, ActiveSame DEF IInv, OpInv, Only
<1> QED
  BY <1>3, <1>4, <1>5, <1>6, <1>10, <1>11, <1>12, <1>13, UpdateStep,
     DurableSame DEF IInv

\* create() takes the link back when dirlink() fails.
LEMMA CreateFailInv ==
  ASSUME IInv, NEW p \in Proc, CreateFail(p)
  PROVE  IInv'
<1>1. PICK x \in Entry : e[p] = x
  BY DEF IInv, Types
<1>2. PICK k \in Inum : k = Num(p) /\ type[k] # 0
  BY LinksKnown DEF CreateFail, At
<1>3. /\ pc[p] = "locked" /\ op[p] = "create" /\ Update(p, 0) /\ Goto(p, "put")
      /\ dirlock' = None /\ name' = [name EXCEPT ![p] = None]
      /\ op' = [op EXCEPT ![p] = "fail"]
      /\ UNCHANGED <<type, dir, durable, active, inum, e>>
  BY DEF CreateFail, At, UnlockDir, Fail
<1>4. Only(p) /\ pc'[p] = "put" /\ op'[p] = "fail"
  BY <1>3 DEF Only, Goto, IInv, Types
<1>5. Updates(p, x, 0) /\ 0 \in Nat
  BY <1>1, <1>3, <1>4 DEF Updates, Holds, At
<1>6. HasDir(p) /\ ~HasDir(p)' /\ ~Pends(p) /\ ~Pends(p)' /\ Fresh(p)
  BY <1>3, <1>4 DEF HasDir, Pends, Fresh
<1>7. Work(p, x) /\ nlink'[k] = 0
  BY <1>2, <1>4, <1>5, UpdateFacts
<1>8. LinkInv'
  <2>1. nlink[k] = 0
    BY <1>2, <1>6 DEF IInv, NewInv
  <2>2. nlink[k] = Cardinality(Names(k)) + Cardinality(Pending(k))
    BY <1>2 DEF IInv, LinkInv
  <2>3. Pending(k)' = Pending(k) /\ \A j : Names(j)' = Names(j)
    BY <1>2, <1>3, <1>4, <1>6, <1>7, WorkPending DEF Names
  <2> QED
    BY <1>2, <1>3, <1>4, <1>7, <2>1, <2>2, <2>3, UpdateLinks
<1>9. Types'
  <2>1. dir' \in [Name -> 0..NInum] /\ "put" \in Labels /\ "fail" \in Ops
    BY <1>3 DEF IInv, Types, Labels, Ops
  <2> QED
    BY <1>3, <1>4, <1>5, <2>1, UpdateTypes
<1>10. DirInv'
  <2>1. dirlock = p
    BY <1>6 DEF IInv, DirInv
  <2> QED
    BY <1>3, <1>4, <1>6, <2>1, DirFree
<1>11. ActiveInv' /\ OpInv'
  BY SMTT(300), <1>3, <1>4, ActiveSame DEF IInv, OpInv, Only
<1> QED
  BY <1>3, <1>4, <1>5, <1>8, <1>9, <1>10, <1>11, UpdateStep, DurableSame
     DEF IInv


\* sys_unlink() removes the name and a link.
LEMMA UnlinkInv ==
  ASSUME IInv, NEW p \in Proc, Unlink(p)
  PROVE  IInv'
<1>1. PICK x \in Entry : e[p] = x
  BY DEF IInv, Types
<1>2. PICK k \in Inum : k = Num(p) /\ type[k] # 0 /\ Links(p) = nlink[k] /\ nlink[k] \in Nat
  BY LinksKnown DEF Unlink, At
<1>3. /\ pc[p] = "locked" /\ op[p] = "unlink" /\ Update(p, nlink[k] - 1) /\ Goto(p, "put")
      /\ dir' = [dir EXCEPT ![name[p]] = 0]
      /\ dirlock' = None /\ name' = [name EXCEPT ![p] = None]
      /\ UNCHANGED <<type, durable, active, op, inum, e>>
  BY <1>2 DEF Unlink, At, UnlockDir
<1>4. Only(p) /\ pc'[p] = "put" /\ op'[p] = "unlink"
  BY <1>3 DEF Only, Goto, IInv, Types
<1>5. Updates(p, x, nlink[k] - 1)
  BY <1>1, <1>3, <1>4 DEF Updates, Holds, At
<1>6. HasDir(p) /\ ~HasDir(p)' /\ ~Pends(p) /\ ~Pends(p)'
  BY <1>3, <1>4 DEF HasDir, Pends
<1>7. dirlock = p /\ name[p] \in Name /\ dir[name[p]] = k
  BY <1>2, <1>3, <1>6 DEF IInv, DirInv
<1>8. nlink[k] # 0 /\ nlink[k] - 1 \in Nat
  BY SMTT(300), <1>2, <1>7, LinkFacts
<1>9. Work(p, x) /\ nlink'[k] = nlink[k] - 1
  BY <1>2, <1>4, <1>5, <1>8, UpdateFacts
<1>10. \A j \in Inum : j # 0
  BY SMTT(300), InodeAssumption DEF Inum
<1>11. LinkInv'
  <2>1. nlink[k] = Cardinality(Names(k)) + Cardinality(Pending(k))
    BY <1>2 DEF IInv, LinkInv
  <2>2. /\ Cardinality(Names(k)') = Cardinality(Names(k)) - 1
        /\ \A j : j # k /\ j # 0 => Names(j)' = Names(j)
    BY <1>3, <1>7, <1>10, NameRemoved
  <2>3. Pending(k)' = Pending(k)
    BY <1>2, <1>4, <1>6, <1>9, WorkPending
  <2>4. nlink'[k] = Cardinality(Names(k)') + Cardinality(Pending(k)')
    BY SMTT(300), <1>9, <2>1, <2>2, <2>3, Finite
  <2> QED
    BY SMTT(300), <1>2, <1>3, <1>4, <1>9, <1>10, <2>2, <2>4, UpdateLinks
<1>12. Types'
  <2>1. dir' \in [Name -> 0..NInum]
    <3>1. 0 \in 0..NInum
      BY SMTT(300), InodeAssumption
    <3> QED
      BY <1>3, <3>1 DEF IInv, Types
  <2>2. "put" \in Labels /\ "unlink" \in Ops
    BY DEF Labels, Ops
  <2> QED
    BY <1>3, <1>4, <1>5, <1>8, <2>1, <2>2, UpdateTypes
<1>13. DirInv'
  BY <1>3, <1>4, <1>6, <1>7, DirFree
<1>14. ActiveInv' /\ OpInv'
  BY <1>3, <1>4, ActiveSame DEF IInv, OpInv, Only
<1> QED
  BY <1>3, <1>4, <1>5, <1>8, <1>11, <1>12, <1>13, <1>14, UpdateStep,
     DurableSame DEF IInv

\* sys_link() counts the link before it enters it, and takes it back when it cannot.
LEMMA LinkInvStep ==
  ASSUME IInv, NEW p \in Proc, Link(p) \/ Undo(p)
  PROVE  IInv'
<1>1. PICK x \in Entry : e[p] = x
  BY DEF IInv, Types
<1>2. PICK k \in Inum : k = Num(p) /\ type[k] # 0 /\ Links(p) = nlink[k] /\ nlink[k] \in Nat
  BY LinksKnown DEF Link, Undo, At
<1>3. PICK l \in {"dirlink", "put"} :
        /\ pc[p] = "locked" /\ Goto(p, l)
        /\ l = "dirlink" => op[p] = "link" /\ Update(p, nlink[k] + 1)
        /\ l = "put" => op[p] = "undo" /\ Update(p, nlink[k] - 1)
  BY <1>2 DEF Link, Undo, At
<1>4. UNCHANGED <<type, dir, durable, active, dirlock, op, name, inum, e>>
  BY DEF Link, Undo, locals
<1>5. Only(p) /\ pc'[p] = l /\ op'[p] = op[p]
  BY <1>3, <1>4 DEF Only, Goto, IInv, Types
<1>6. /\ ~HasDir(p) /\ ~HasDir(p)'
      /\ l = "dirlink" => ~Pends(p) /\ Pends(p)'
      /\ l = "put" => Pends(p) /\ ~Pends(p)'
  BY <1>3, <1>5 DEF HasDir, Pends
<1>7. nlink[k] = Cardinality(Names(k)) + Cardinality(Pending(k))
  BY <1>2 DEF IInv, LinkInv
<1>8. PICK n \in Nat : /\ Updates(p, x, n)
                       /\ l = "dirlink" => n = nlink[k] + 1
                       /\ l = "put" => n = nlink[k] - 1
  <2>1. CASE l = "dirlink"
    BY SMTT(300), <1>1, <1>2, <1>3, <1>4, <1>5, <2>1 DEF Updates, Holds
  <2>2. CASE l = "put"
    <3>1. p \in Pending(k)
      BY <1>2, <1>6, <2>2 DEF Pending
    <3>2. Pending(k) # {}
      BY <3>1
    <3>3. Cardinality(Pending(k)) # 0
      BY <3>2, Finite, FS_EmptySet
    <3>4. nlink[k] - 1 \in Nat
      BY SMTT(300), <1>2, <1>7, <3>3, Finite
    <3>5. Updates(p, x, nlink[k] - 1)
      BY <1>1, <1>3, <1>4, <1>5, <2>2 DEF Updates, Holds
    <3> QED
      BY <2>2, <3>4, <3>5
  <2> QED
    BY <2>1, <2>2
<1>9. Work(p, x) /\ nlink'[k] = n
  BY <1>2, <1>5, <1>8, UpdateFacts
<1>10. LinkInv'
  <2>1. \A j : Names(j)' = Names(j)
    BY <1>4 DEF Names
  <2>2. /\ l = "dirlink" => Cardinality(Pending(k)') = Cardinality(Pending(k)) + 1
        /\ l = "put" => Cardinality(Pending(k)') = Cardinality(Pending(k)) - 1
    BY <1>2, <1>5, <1>6, <1>9, WorkPending
  <2>3. nlink'[k] = Cardinality(Names(k)) + Cardinality(Pending(k)')
    BY SMTT(300), <1>7, <1>8, <1>9, <2>2, Finite
  <2> QED
    BY <1>2, <1>4, <1>5, <1>9, <2>1, <2>3, UpdateLinks
<1>11. Types'
  <2>1. dir' \in [Name -> 0..NInum] /\ l \in Labels /\ "undo" \in Ops
    BY <1>4 DEF IInv, Types, Labels, Ops
  <2> QED
    BY <1>3, <1>4, <1>5, <1>8, <2>1, UpdateTypes
<1>12. DirInv'
  BY <1>4, <1>5, <1>6, <1>9, WorkFacts, DirSame
<1>13. ActiveInv' /\ OpInv'
  BY <1>3, <1>4, <1>5, ActiveSame DEF IInv, OpInv, Only
<1> QED
  BY <1>4, <1>5, <1>8, <1>10, <1>11, <1>12, <1>13, UpdateStep, DurableSame
     DEF IInv


\* dirlink() of sys_link(): the pending link gets its name, or will be taken back.
LEMMA DirlinkInv ==
  ASSUME IInv, NEW p \in Proc, NEW n \in Name, Dirlink(p, n)
  PROVE  IInv'
<1>1. PICK x \in Entry : e[p] = x
  BY DEF IInv, Types
<1>2. /\ pc[p] = "dirlink" /\ op[p] = "link" /\ dirlock = None
      /\ UNCHANGED <<type, nlink, durable, active, table, dirlock, name, inum, e>>
  BY DEF Dirlink, At, IInv, OpInv
<1>3. Holds(p) /\ Live(p) /\ Pends(p)
  BY <1>2 DEF Holds, Live, Pends
<1>4. PICK k \in Inum : k = Num(p) /\ type[k] # 0
  BY <1>3, HoldFacts DEF IInv, AllocInv
<1>5. PICK l \in {"put", "ilock"} :
        /\ Goto(p, l)
        /\ l = "put" => dir[n] = 0 /\ dir' = [dir EXCEPT ![n] = k] /\ op' = op
        /\ l = "ilock" => op' = [op EXCEPT ![p] = "undo"] /\ dir' = dir
  BY <1>4 DEF Dirlink, Num
<1>6. /\ Only(p) /\ pc'[p] = l /\ e'[p] = x
      /\ l = "put" => op'[p] = "link"
      /\ l = "ilock" => op'[p] = "undo"
  BY <1>1, <1>2, <1>5 DEF Only, Goto, IInv, Types
<1>7. /\ Holds(p)' /\ Live(p)' /\ ~Fresh(p)' /\ ~HasDir(p)'
      /\ Pends(p)' <=> l = "ilock"
  BY <1>6 DEF Holds, Live, Fresh, HasDir, Pends
<1>8. Work(p, x)
  BY <1>1, <1>2, <1>3, <1>6, <1>7 DEF Work
<1>9. RefInv' /\ EntryInv' /\ KeepsRefs(p)
  BY <1>6, <1>8, WorkFacts
<1>10. AllocInv' /\ NewInv'
  BY <1>2, <1>3, <1>6, <1>7, <1>8, WorkAlloc, WorkNew
<1>11. LockInv'
  <2>1. pc[p] \notin Locks /\ pc'[p] \notin Locks
    BY <1>2, <1>6 DEF Locks
  <2> QED
    BY <1>2, <1>6, <2>1, LockSame
<1>12. ValidInv'
  <2>1. table[x].valid
    BY <1>1, <1>2, <1>3 DEF IInv, ValidInv
  <2> QED
    BY <1>2, <1>6, <1>8, <2>1, WorkValid
<1>13. \A q \in Proc : pc[q] = "invalidate" => e[q] # x
  BY <1>1, <1>2, <1>3, NotMet
<1>14. CopyInv'
  <2>1. CopyAt(x)
    BY DEF IInv, CopyInv
  <2>2. CopyAt(x)'
    BY <1>2, <1>13, <2>1 DEF CopyAt, Copied
  <2> QED
    BY <1>6, <1>8, <2>2, WorkCopy
<1>15. FreeInv'
  <2>1. FreeAt(p)'
    BY <1>6 DEF FreeAt
  <2> QED
    BY <1>1, <1>2, <1>6, <1>9, <1>13, <2>1, FreeSame
<1>16. LinkInv'
  <2>1. nlink[k] = Cardinality(Names(k)) + Cardinality(Pending(k))
    BY <1>4 DEF IInv, LinkInv
  <2>2. \A j \in Inum : j # 0
    BY SMTT(300), InodeAssumption DEF Inum
  <2>3. CASE l = "put"
    <3>1. /\ Cardinality(Names(k)') = Cardinality(Names(k)) + 1
          /\ \A j : j # k /\ j # 0 => Names(j)' = Names(j)
      BY <1>5, <2>2, <2>3, NameEntered
    <3>2. Cardinality(Pending(k)') = Cardinality(Pending(k)) - 1
      BY <1>3, <1>4, <1>6, <1>7, <1>8, <2>3, WorkPending
    <3>3. nlink'[k] = Cardinality(Names(k)') + Cardinality(Pending(k)')
      BY SMTT(300), <1>2, <2>1, <3>1, <3>2, Finite
    <3> QED
      BY SMTT(300), <1>2, <1>4, <1>6, <1>8, <2>2, <3>1, <3>3, UpdateLinks
  <2>4. CASE l = "ilock"
    <3>1. \A j : Names(j)' = Names(j)
      BY <1>5, <2>4 DEF Names
    <3>2. Pending(k)' = Pending(k)
      BY <1>3, <1>4, <1>6, <1>7, <1>8, <2>4, WorkPending
    <3> QED
      BY <1>2, <1>4, <1>6, <1>8, <2>1, <3>1, <3>2, UpdateLinks
  <2> QED
    BY <2>3, <2>4
<1>17. Types'
  <2>1. k \in 0..NInum
    BY SMTT(300) DEF Inum
  <2>2. dir' \in [Name -> 0..NInum]
    BY <1>5, <2>1 DEF IInv, Types
  <2>3. pc' \in [Proc -> Labels] /\ op' \in [Proc -> Ops]
    BY <1>5 DEF Goto, IInv, Types, Labels, Ops
  <2> QED
    BY <1>2, <2>2, <2>3 DEF IInv, Types
<1>18. DirInv'
  BY <1>2, <1>6, <1>7, DirFree
<1>19. ActiveInv' /\ OpInv'
  BY <1>2, <1>6, ActiveSame DEF IInv, OpInv, Only
<1> QED
  BY <1>2, <1>9, <1>10, <1>11, <1>12, <1>14, <1>15, <1>16, <1>17, <1>18,
     <1>19, DurableSame
     DEF IInv

-----------------------------------------------------------------------------
(* Inodes are freed and allocated                                          *)

\* iput() frees the inode on the disk.
LEMMA FreeStepInv ==
  ASSUME IInv, NEW p \in Proc, Free(p)
  PROVE  IInv'
<1>1. PICK x \in Entry : e[p] = x
  BY DEF IInv, Types
<1>2. pc[p] = "free" /\ Holds(p) /\ Live(p) /\ ~Pends(p) /\ ~HasDir(p)
  BY DEF Free, At, Holds, Live, Pends, HasDir
<1>3. PICK k \in Inum : k = Num(p) /\ type[k] # 0 /\ k = table[x].inum
  BY <1>1, <1>2, HoldFacts DEF IInv, AllocInv, Num
<1>4. /\ Goto(p, "invalidate") /\ type' = [type EXCEPT ![k] = 0]
      /\ table' = [table EXCEPT ![x].type = 0]
      /\ UNCHANGED <<nlink, dir, durable, active, dirlock, op, name, inum, e>>
  BY <1>1, <1>3 DEF Free, At, locals
<1>5. Only(p) /\ pc'[p] = "invalidate" /\ op'[p] = op[p] /\ e' = e
  BY <1>4 DEF Only, Goto, IInv, Types
<1>6. Holds(p)' /\ ~Live(p)' /\ ~Fresh(p)' /\ ~Pends(p)' /\ ~HasDir(p)'
  BY <1>5 DEF Holds, Live, Fresh, Pends, HasDir
<1>7. /\ table' \in [Entry -> EntryType]
      /\ \A y \in Entry : y # x => table'[y] = table[y]
      /\ table'[x].lock = table[x].lock /\ table'[x].valid = table[x].valid
      /\ table'[x].inum = table[x].inum /\ table'[x].ref = table[x].ref
  <2>1. table \in [Entry -> EntryType] /\ table[x] \in EntryType
    BY DEF IInv, Types
  <2>2. [table[x] EXCEPT !.type = 0] \in EntryType
    BY <2>1 DEF EntryType
  <2>3. table' = [table EXCEPT ![x] = [table[x] EXCEPT !.type = 0]]
    BY <1>4, <2>1
  <2> QED
    BY <2>1, <2>2, <2>3 DEF EntryType
<1>8. /\ type' \in [Inum -> {0, 1}] /\ type'[k] = 0
      /\ \A j \in Inum : j # k => type'[j] = type[j]
  BY <1>4 DEF IInv, Types
<1>9. Work(p, x)
  BY <1>1, <1>2, <1>3, <1>4, <1>5, <1>6, <1>7, <1>8 DEF Work
<1>10. RefInv' /\ EntryInv' /\ KeepsRefs(p)
  BY <1>5, <1>9, WorkFacts
<1>11. LockInv'
  <2>1. pc[p] \in Locks /\ pc'[p] \in Locks
    BY <1>2, <1>5 DEF Locks
  <2>2. \A y \in Entry : table'[y].lock = table[y].lock
    BY <1>7
  <2> QED
    BY <1>5, <2>1, <2>2, LockSame
<1>12. /\ \A q \in Proc : Holds(q) /\ e[q] = x => q = p
       /\ nlink[k] = 0
  BY <1>1, <1>2, <1>3 DEF IInv, FreeInv, FreeAt
<1>13. /\ \A q \in Proc : Holds(q)' <=> Holds(q)
       /\ \A q \in Proc : Holds(q) => Num(q)' = Num(q) /\ (q # p => Num(q) # k)
       /\ \A q \in Proc : Holds(q) => Num(q) \in Inum
  BY SMTT(300), <1>3, <1>5, <1>9, <1>12, WorkFacts, HoldFacts
<1>14. AllocInv'
  <2>1. \A q \in Proc : Live(q)' => q # p /\ Live(q) /\ Holds(q)
    BY <1>5, <1>6, Others DEF Live
  <2> QED
    BY <1>8, <1>13, <2>1 DEF IInv, AllocInv
<1>15. ValidInv' /\ NewInv'
  BY <1>2, <1>5, <1>6, <1>7, <1>9, WorkValid, WorkNew
<1>16. CopyInv'
  <2>1. CopyAt(x)'
    BY <1>1, <1>5 DEF CopyAt
  <2> QED
    BY <1>5, <1>9, <2>1, WorkCopy
<1>17. FreeInv'
  <2>1. FreeAt(p)'
    BY <1>1, <1>2, <1>3, <1>5, <1>8, <1>12, <1>13 DEF FreeAt
  <2>2. \A q \in Proc : pc[q] \in {"free", "invalidate"} => Holds(q)
    BY DEF Holds
  <2>3. \A q \in Proc : pc[q] \in {"free", "invalidate"} =>
          type'[Num(q)] = 0 \/ nlink'[Num(q)] = 0
    BY <1>4, <1>8, <1>13, <2>2 DEF IInv, FreeInv, FreeAt
  <2>4. \A q \in Proc : q # p => FreeAt(q)'
    BY <1>1, <1>5, <1>10, <1>12, <2>2, <2>3, FreeOthers
  <2> QED
    BY <2>1, <2>4 DEF FreeInv
<1>18. LinkInv'
  <2>1. Names(k) = {}
    BY <1>3, <1>12, LinkFacts
  <2>2. \A j : Names(j)' = Names(j) /\ Pending(j)' = Pending(j)
    BY <1>2, <1>4, <1>5, <1>6, <1>9, WorkPending DEF Names
  <2> QED
    BY <1>4, <1>8, <2>1, <2>2 DEF IInv, LinkInv
<1>19. Types'
  <2>1. pc' \in [Proc -> Labels]
    BY <1>4 DEF Goto, IInv, Types, Labels
  <2> QED
    BY <1>4, <1>7, <1>8, <2>1 DEF IInv, Types
<1>20. DirInv'
  BY <1>2, <1>4, <1>5, <1>6, <1>13, DirSame
<1>21. ActiveInv' /\ OpInv'
  BY <1>2, <1>4, <1>5, ActiveSame DEF IInv, OpInv, Only
<1> QED
  BY <1>4, <1>10, <1>11, <1>14, <1>15, <1>16, <1>17, <1>18, <1>19, <1>20,
     <1>21, DurableSame
     DEF IInv


\* ialloc() allocates an inode that is free on the disk, even while iput() is still at
\* the one that was there.
LEMMA IallocInv ==
  ASSUME IInv, NEW p \in Proc, ialloc(p)
  PROVE  IInv'
<1>1. PICK k \in Inum :
        /\ type[k] = 0 /\ type' = [type EXCEPT ![k] = 1]
        /\ nlink' = [nlink EXCEPT ![k] = 0] /\ inum' = [inum EXCEPT ![p] = k]
  BY DEF ialloc
<1>2. /\ pc[p] = "ialloc" /\ Goto(p, "iget")
      /\ UNCHANGED <<dir, durable, active, table, dirlock, op, name, e>>
  BY DEF ialloc, At
<1>3. Only(p) /\ pc'[p] = "iget" /\ op'[p] = op[p] /\ inum'[p] = k
  BY <1>1, <1>2 DEF Only, Goto, IInv, Types
<1>4. op[p] = "create"
  BY <1>2 DEF IInv, OpInv
<1>5. /\ ~Holds(p) /\ ~Holds(p)' /\ ~Live(p)' /\ ~Fresh(p)' /\ ~Pends(p)'
      /\ HasDir(p) /\ HasDir(p)' /\ ~Pends(p)
  BY <1>2, <1>3 DEF Holds, At, Live, Fresh, Pends, HasDir
<1>6. KeepsRefs(p)
  BY <1>2, <1>5 DEF KeepsRefs
<1>7. /\ RefInv' /\ EntryInv'
      /\ \A q \in Proc : Holds(q) => e'[q] = e[q] /\ Num(q)' = Num(q)
  BY <1>3, <1>6, KeepRefs
<1>8. /\ type' \in [Inum -> {0, 1}] /\ nlink' \in [Inum -> Nat] /\ type'[k] = 1 /\ nlink'[k] = 0
      /\ \A j \in Inum : j # k => type'[j] = type[j] /\ nlink'[j] = nlink[j]
  <2>1. 0 \in Nat
    OBVIOUS
  <2> QED
    BY <1>1, <2>1 DEF IInv, Types
<1>9. /\ \A q \in Proc : (Live(q)' => Live(q)) /\ (Fresh(q)' => Fresh(q))
      /\ \A q \in Proc : Pends(q)' <=> Pends(q)
  BY <1>3, <1>5, Others
<1>10. /\ \A q \in Proc : Live(q) => Holds(q) /\ Num(q) \in Inum /\ Num(q) # k
       /\ \A q \in Proc : Fresh(q) \/ Pends(q) => Live(q)
  <2>1. \A q \in Proc : Live(q) => Holds(q)
    BY DEF Live
  <2>2. \A q \in Proc : Fresh(q) \/ Pends(q) => Live(q)
    BY DEF Live, Fresh, Pends, Holds
  <2> QED
    BY <1>1, <2>1, <2>2, HoldFacts DEF IInv, AllocInv
<1>11. LockInv'
  <2>1. pc[p] \notin Locks /\ pc'[p] \notin Locks
    BY <1>2, <1>3 DEF Locks
  <2> QED
    BY <1>2, <1>3, <2>1, LockSame
<1>12. AllocInv'
  BY SMTT(300), <1>7, <1>8, <1>9, <1>10 DEF IInv, AllocInv
<1>13. ValidInv'
  <2>1. \A q \in Proc : Live(q)' /\ pc'[q] # "ilock" => Live(q) /\ pc[q] # "ilock"
    BY <1>3, <1>5, <1>9 DEF Only
  <2> QED
    BY <1>2, <2>1 DEF IInv, ValidInv
<1>14. CopyInv'
  <2> SUFFICES ASSUME NEW y \in Entry PROVE CopyAt(y)'
    BY DEF CopyInv
  <2>1. CopyAt(y)
    BY DEF IInv, CopyInv
  <2>2. table[y].ref > 0 => table[y].inum \in Inum
    BY DEF IInv, EntryInv
  <2>3. \A q \in Proc : pc[q] = "invalidate" => pc'[q] = "invalidate"
    BY <1>2, <1>3 DEF Only
  <2> QED
    BY <1>1, <1>2, <1>8, <2>1, <2>2, <2>3 DEF CopyAt, Copied
<1>15. FreeInv'
  <2>1. FreeAt(p)'
    BY <1>3 DEF FreeAt
  <2>2. \A q \in Proc : pc[q] \in {"free", "invalidate"} => Num(q) \in Inum
    BY HoldFacts DEF Holds
  <2>3. \A q \in Proc : pc[q] \in {"free", "invalidate"} =>
          type'[Num(q)] = 0 \/ nlink'[Num(q)] = 0
    BY <1>8, <2>2 DEF IInv, FreeInv, FreeAt
  <2>4. \A q \in Proc : q # p => FreeAt(q)'
    BY <1>3, <1>5, <1>6, <2>3, FreeOthers
  <2> QED
    BY <2>1, <2>4 DEF FreeInv
<1>16. NewInv'
  <2>1. ASSUME NEW q \in Proc, pc'[q] = "iget"
        PROVE  /\ inum'[q] \in Inum /\ type'[inum'[q]] # 0 /\ nlink'[inum'[q]] = 0
               /\ \A r \in Proc : Live(r)' => Num(r)' # inum'[q]
    <3>1. CASE q = p
      BY SMTT(300), <1>3, <1>7, <1>8, <1>9, <1>10, <3>1
    <3>2. CASE q # p
      <4>1. HasDir(q)
        BY <1>3, <2>1, <3>2 DEF Only, HasDir
      <4> QED
        BY <1>5, <3>2, <4>1, OneHasDir
    <3> QED
      BY <3>1, <3>2
  <2>2. ASSUME NEW q \in Proc, Fresh(q)'
        PROVE  /\ nlink'[Num(q)'] = 0
               /\ \A r \in Proc : Live(r)' /\ e'[r] = e'[q] => r = q
    <3>1. Fresh(q) /\ Live(q) /\ Holds(q) /\ Num(q) \in Inum /\ Num(q) # k
      BY <1>9, <1>10, <2>2
    <3>2. nlink[Num(q)] = 0 /\ \A r \in Proc : Live(r) /\ e[r] = e[q] => r = q
      BY <3>1 DEF IInv, NewInv
    <3> QED
      BY <1>2, <1>7, <1>8, <1>9, <3>1, <3>2
  <2> QED
    BY <2>1, <2>2 DEF NewInv
<1>17. LinkInv'
  <2>1. \A j : Names(j)' = Names(j) /\ Pending(j)' = Pending(j)
    BY <1>2, <1>7, <1>9, <1>10 DEF Names, Pending
  <2>2. Names(k) = {}
    BY <1>1 DEF IInv, LinkInv
  <2>3. Pending(k) = {}
    BY <1>10 DEF Pending
  <2>4. Cardinality(Names(k)) = 0 /\ Cardinality(Pending(k)) = 0
    BY <2>2, <2>3, FS_EmptySet
  <2>5. nlink'[k] = Cardinality(Names(k)') + Cardinality(Pending(k)')
    BY SMTT(300), <1>8, <2>1, <2>4
  <2> QED
    BY SMTT(300), <1>8, <2>1, <2>5 DEF IInv, LinkInv
<1>18. Types'
  <2>1. k \in 0..NInum
    BY SMTT(300) DEF Inum
  <2>2. pc' \in [Proc -> Labels] /\ inum' \in [Proc -> 0..NInum]
    BY <1>1, <1>2, <2>1 DEF Goto, IInv, Types, Labels
  <2> QED
    BY <1>2, <1>8, <2>2 DEF IInv, Types
<1>19. DirInv'
  <2>1. name'[p] = name[p]
    BY <1>2
  <2> QED
    BY <1>2, <1>3, <1>4, <1>5, <1>7, <2>1, DirSame
<1>20. ActiveInv' /\ OpInv'
  BY <1>2, <1>3, <1>4, ActiveSame DEF IInv, OpInv, Only
<1> QED
  BY <1>2, <1>7, <1>11, <1>12, <1>13, <1>14, <1>15, <1>16, <1>17, <1>18,
     <1>19, <1>20, DurableSame
     DEF IInv

-----------------------------------------------------------------------------
(* All steps                                                               *)

\* Nothing runs, and the disk is the one that the last commit has left.
AtRest ==
  /\ durable \in DiskType /\ DiskConsistent
  /\ type = durable.type /\ nlink = durable.nlink /\ dir = durable.dir
  /\ active = {} /\ dirlock = None
  /\ table = Rest.table /\ pc = Rest.pc /\ op = Rest.op
  /\ name = Rest.name /\ inum = Rest.inum /\ e = Rest.e

\* A machine at rest, with a consistent disk, satisfies IInv.
LEMMA RestInv == AtRest => IInv
<1> SUFFICES ASSUME AtRest PROVE IInv
  OBVIOUS
<1>1. /\ table = [x \in Entry |-> NoEntry]
      /\ pc = [p \in Proc |-> "idle"] /\ op = [p \in Proc |-> "close"]
      /\ name = [p \in Proc |-> None] /\ inum = [p \in Proc |-> 0] /\ e = [p \in Proc |-> 1]
  BY DEF AtRest, Rest
<1>2. /\ NoEntry.ref = 0 /\ NoEntry.lock = None /\ NoEntry \in EntryType
  BY SMTT(300), InodeAssumption DEF NoEntry, EntryType
<1>3. /\ \A p \in Proc : pc[p] = "idle" /\ op[p] = "close"
      /\ \A x \in Entry : table[x].ref = 0 /\ table[x].lock = None
  BY <1>1, <1>2
<1>4. Types
  <2>1. 1 \in Entry /\ 0 \in 0..NInum /\ "idle" \in Labels /\ "close" \in Ops
    BY SMTT(300), InodeAssumption DEF Entry, Labels, Ops
  <2>2. type \in [Inum -> {0, 1}] /\ nlink \in [Inum -> Nat] /\ dir \in [Name -> 0..NInum]
    BY DEF AtRest, DiskType
  <2>3. /\ table \in [Entry -> EntryType] /\ e \in [Proc -> Entry]
        /\ pc \in [Proc -> Labels] /\ op \in [Proc -> Ops]
        /\ name \in [Proc -> Name \cup {None}] /\ inum \in [Proc -> 0..NInum]
    BY <1>1, <1>2, <2>1
  <2> QED
    BY <2>2, <2>3 DEF AtRest, Types
<1>5. \A p \in Proc : ~Holds(p) /\ ~HasDir(p) /\ ~Pends(p) /\ ~Live(p) /\ ~Fresh(p)
  BY <1>3 DEF Holds, HasDir, Pends, Live, Fresh, At
<1>6. RefInv
  <2>1. \A x : Refs(x) = {}
    BY <1>5 DEF Refs
  <2>2. \A x : Cardinality(Refs(x)) = 0
    BY <2>1, FS_EmptySet
  <2> QED
    BY <1>3, <2>2 DEF RefInv
<1>7. EntryInv /\ CopyInv
  BY SMTT(300), <1>3 DEF EntryInv, CopyInv, CopyAt
<1>8. None \notin Proc
  BY InodeAssumption
<1>9. LockInv /\ DirInv
  BY <1>3, <1>5, <1>8 DEF LockInv, DirInv, Locks, AtRest
<1>10. ActiveInv /\ OpInv /\ AllocInv /\ ValidInv /\ FreeInv /\ NewInv
  BY <1>3, <1>5
     DEF AtRest, ActiveInv, OpInv, AllocInv, ValidInv, FreeInv, FreeAt, NewInv
<1>11. LinkInv
  <2>1. \A k : Pending(k) = {}
    BY <1>5 DEF Pending
  <2>2. \A k : Cardinality(Pending(k)) = 0
    BY <2>1, FS_EmptySet
  <2>3. \A k : Names(k) = {n \in Name : durable.dir[n] = k}
    BY DEF AtRest, Names
  <2>4. \A k \in Inum : IF type[k] = 0 THEN Names(k) = {} ELSE nlink[k] = Cardinality(Names(k))
    BY <2>3 DEF AtRest, DiskConsistent
  <2> QED
    BY SMTT(300), <2>2, <2>4, Finite DEF LinkInv
<1> QED
  BY <1>4, <1>6, <1>7, <1>9, <1>10, <1>11 DEF IInv, AtRest

\* The disk of mkfs, and a crash.
LEMMA InvInit == Init => IInv
<1> SUFFICES ASSUME Init PROVE AtRest
  BY RestInv
<1>1. durable = disk
  BY DEF Init
<1>2. disk.type = type /\ disk.nlink = nlink /\ disk.dir = dir
  BY DEF disk
<1>3. durable \in DiskType
  <2>1. 0 \in 0..NInum /\ 0 \in Nat
    BY SMTT(300), InodeAssumption
  <2> QED
    BY SMTT(300), <1>1, <2>1 DEF Init, disk, DiskType
<1>4. DiskConsistent
  <2>1. \A k \in Inum : k # 0
    BY SMTT(300) DEF Inum
  <2>2. \A k \in Inum : durable.type[k] = 0 /\ {n \in Name : durable.dir[n] = k} = {}
    BY SMTT(300), <1>1, <1>2, <2>1 DEF Init
  <2> QED
    BY <2>2 DEF DiskConsistent
<1> QED
  BY <1>1, <1>2, <1>3, <1>4 DEF Init, AtRest

\* A crash and the restart from the durable disk preserve IInv.
LEMMA CrashInv ==
  ASSUME IInv, Crash
  PROVE  IInv'
<1>1. AtRest'
  <2>1. DiskConsistent'
    BY DurableSame DEF Crash
  <2> QED
    BY <2>1 DEF AtRest, Crash, IInv, Types, Rest
<1>2. AtRest' => IInv'
  BY RestInv, PTL
<1> QED
  BY <1>1, <1>2


\* A step of a process preserves IInv.
LEMMA StepInv ==
  ASSUME IInv, NEW p \in Proc, Step(p)
  PROVE  IInv'
<1>1. CASE \E o \in {"open", "create", "link", "unlink", "close"} : Begin(p, o)
  BY <1>1, BeginInv
<1>2. CASE Look(p) \/ ialloc(p) \/ Iget(p) \/ ilock(p) \/ Reclaim(p)
  BY <1>2, LookInv, IallocInv, IallocGetInv, IlockInv, ReclaimInv
<1>3. CASE NoInodes(p)
  <2>1. /\ pc[p] = "ialloc" /\ Goto(p, "end") /\ op' = [op EXCEPT ![p] = "fail"]
        /\ dirlock' = None /\ name' = [name EXCEPT ![p] = None]
        /\ UNCHANGED <<type, nlink, dir, durable, active, table, inum, e>>
    BY <1>3 DEF NoInodes, At, Fail, fs
  <2> QED
    BY <2>1, FailInv
<1>4. CASE \E n \in Name : CreateFound(p, n) \/ LockDir(p, n) \/ Dirlink(p, n)
  BY <1>4, CreateFoundInv, LockDirInv, DirlinkInv
<1>5. CASE \E n \in Name : UnlinkNone(p, n)
  <2>1. /\ pc[p] = "dir" /\ op[p] = "unlink" /\ Goto(p, "end")
        /\ UNCHANGED <<type, nlink, dir, durable, active, table, dirlock, op, name, inum, e>>
    BY <1>5 DEF UnlinkNone, At, fs, locals
  <2>2. op' = [op EXCEPT ![p] = "unlink"]
    BY <2>1 DEF IInv, Types
  <2> QED
    BY <2>1, <2>2, FailInv
<1>6. CASE Unlock(p) \/ Create(p) \/ CreateFail(p) \/ Unlink(p) \/ Link(p) \/ Undo(p)
  BY <1>6, UnlockInv, CreateInv, CreateFailInv, UnlinkInv, LinkInvStep
<1>7. CASE iput(p) \/ Free(p) \/ Invalidate(p) \/ Unref(p) \/ End(p)
  BY <1>7, IputInv, FreeStepInv, InvalidateInv, EndInv
<1> QED
  BY <1>1, <1>2, <1>3, <1>4, <1>5, <1>6, <1>7 DEF Step

\* The end of fsinit(), and a step in which nothing happens, change nothing that IInv is
\* about.
LEMMA StillInv ==
  ASSUME IInv,
         UNCHANGED <<type, nlink, dir, durable, active, table, dirlock, pc, op, name, inum, e>>
  PROVE  IInv'
<1>1. \A p : /\ Holds(p)' <=> Holds(p)
             /\ Live(p)' <=> Live(p)
             /\ HasDir(p)' <=> HasDir(p)
             /\ Fresh(p)' <=> Fresh(p)
             /\ Pends(p)' <=> Pends(p)
             /\ Num(p)' = Num(p)
  BY DEF Holds, At, Live, HasDir, Fresh, Pends, Num
<1>2. /\ \A x : Refs(x)' = Refs(x)
      /\ \A k : Names(k)' = Names(k) /\ Pending(k)' = Pending(k)
  BY <1>1 DEF Refs, Names, Pending
<1>3. (Types /\ RefInv /\ EntryInv /\ LockInv /\ ActiveInv /\ OpInv)'
  BY SMTT(300), <1>2
     DEF IInv, Types, RefInv, EntryInv, LockInv, ActiveInv, OpInv
<1>4. (DirInv /\ AllocInv /\ ValidInv /\ NewInv /\ LinkInv)'
  BY <1>1, <1>2 DEF IInv, DirInv, AllocInv, ValidInv, NewInv, LinkInv
<1>5. (CopyInv /\ FreeInv /\ DiskConsistent)'
  BY <1>1, DurableSame DEF IInv, CopyInv, CopyAt, Copied, FreeInv, FreeAt
<1> QED
  BY <1>3, <1>4, <1>5 DEF IInv

\* IInv is inductive: every step of the file system preserves it.
LEMMA InvNext == IInv /\ [Next]_vars => IInv'
<1> SUFFICES ASSUME IInv, [Next]_vars PROVE IInv'
  OBVIOUS
<1>1. CASE \E p \in Proc : Step(p)
  BY <1>1, StepInv
<1>2. CASE Booted
  BY <1>2, StillInv DEF Booted, fs, locals
<1>3. CASE Crash
  BY <1>3, CrashInv
<1>4. CASE UNCHANGED vars
  BY <1>4, StillInv DEF vars, fs, locals
<1> QED
  BY <1>1, <1>2, <1>3, <1>4 DEF Next

-----------------------------------------------------------------------------
(* The properties                                                          *)

\* The inductive invariant of the inode table, the directory and the disk.
THEOREM InodeInvariant == Spec => []IInv
<1> QED
  BY InvInit, InvNext, PTL DEF Spec

\* fs.c:349, iput: the lock of an inode with one reference is free, so acquiresleep()
\* under itable.lock does not sleep.
THEOREM IputNeverBlocks == Spec => []IputNoBlock
<1>1. IInv => IputNoBlock
  <2> SUFFICES ASSUME IInv, NEW p \in Proc, pc[p] = "put", Unused(table[e[p]])
               PROVE  table[e[p]].lock = None
    BY DEF IputNoBlock, At
  <2>1. Holds(p) /\ table[e[p]].ref = 1 /\ pc[p] \notin Locks
    BY DEF Holds, Unused, Locks
  <2>2. \A q \in Proc : Holds(q) /\ e[q] = e[p] => q = p
    BY <2>1, OneRef
  <2>3. \A q \in Proc : pc[q] \in Locks => Holds(q)
    BY DEF Locks, Holds
  <2>4. e[p] \in Entry /\ table[e[p]].lock \in Proc \cup {None}
    BY DEF IInv, Types, EntryType
  <2>5. \A q \in Proc : table[e[p]].lock # q
    BY SMTT(300), <2>1, <2>2, <2>3, <2>4 DEF IInv, LockInv
  <2> QED
    BY <2>4, <2>5
<1> QED
  BY <1>1, InodeInvariant, PTL

\* fs.c ilock, ialloc, iput: an inode that a process has locked or open is allocated, and
\* the copy in the table is up to date.
THEOREM InUseNotFreed == Spec => []NotFreed
<1>1. IInv => NotFreed
  <2> SUFFICES ASSUME IInv, NEW p \in Proc, pc[p] \in {"locked", "open"}
               PROVE  /\ type[table[e[p]].inum] # 0 /\ table[e[p]].valid
                      /\ table[e[p]].type = type[table[e[p]].inum]
                      /\ table[e[p]].nlink = nlink[table[e[p]].inum]
    BY DEF NotFreed
  <2>1. Holds(p) /\ Live(p)
    BY DEF Holds, Live
  <2>2. e[p] \in Entry /\ table[e[p]].ref > 0
    BY <2>1, HoldFacts
  <2>3. table[e[p]].valid
    BY <2>1 DEF IInv, ValidInv
  <2>4. \A q \in Proc : e[q] = e[p] => pc[q] # "invalidate"
    BY <2>1, NotMet
  <2>5. CopyAt(e[p])
    BY <2>2 DEF IInv, CopyInv
  <2> QED
    BY <2>2, <2>3, <2>4, <2>5 DEF CopyAt, Copied
<1> QED
  BY <1>1, InodeInvariant, PTL

\* sysfile.c create, sys_link, sys_unlink: on the disk that a crash leaves the link count
\* of an inode is the number of its names, and no name is of a free inode.
THEOREM CrashConsistent == Spec => []DiskConsistent
<1>1. IInv => DiskConsistent
  BY DEF IInv
<1> QED
  BY <1>1, InodeInvariant, PTL
=============================================================================
