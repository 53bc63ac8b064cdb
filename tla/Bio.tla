--------------------------------- MODULE Bio ---------------------------------
(***************************************************************************)
(* The buffer cache (kernel/bio.c): NBUF buffers on a list kept in the     *)
(* order of use, shared by the processes that read and write disk blocks   *)
(* and by the log, which pins the blocks of a transaction.                 *)
(*                                                                         *)
(* What bcache.lock covers is one step.  A buffer's sleep lock is its      *)
(* owner (SleepLock shows that it is a lock).  A use is what happens       *)
(* between the bread and the brelse of one block; a process that has two   *)
(* buffers at once (bmap and itrunc hold the indirect block while balloc   *)
(* and bfree read the bitmap, install_trans and write_log copy one block   *)
(* to another) makes two uses, whose order is left open here.  A block is  *)
(* changed by log_write's callers, which pin the buffer, by write_log and  *)
(* write_head, which write theirs at once, and it is install_trans that    *)
(* writes a pinned buffer home and unpins it.                              *)
(***************************************************************************)
EXTENDS Naturals, FiniteSets

CONSTANTS Use,      \* the uses of a block that go on at a time
          Block, Val, None, NBUF,
          MaxPins   \* how many blocks the log pins at a time

ASSUME BioAssumption ==
    /\ NBUF \in Nat \ {0}
    /\ MaxPins \in Nat
    /\ IsFiniteSet(Use)
    /\ Val # {}
    /\ None \notin Use \cup Block

VARIABLES
    block, valid, data, refcnt, owner,  \* struct buf, by buffer
    lru,     \* bcache.head's list, the most recently used buffer first
    disk,    \* the blocks of the disk
    pinned,  \* the buffers the log has pinned
    pc,      \* where each use is
    b,       \* the buffer of each use, 1 when it has none
    panicked \* the use whose bget panicked and keeps bcache.lock, or None

bufs == <<block, valid, data, refcnt, owner, lru>>
vars == <<bufs, disk, pinned, pc, b, panicked>>

Buf == 1..NBUF

(* binit puts each buffer in front of the ones before it. *)
Init ==
    /\ block = [i \in Buf |-> None]
    /\ valid = [i \in Buf |-> FALSE]
    /\ data = [i \in Buf |-> CHOOSE v \in Val : TRUE]
    /\ refcnt = [i \in Buf |-> 0]
    /\ owner = [i \in Buf |-> None]
    /\ lru = [i \in Buf |-> NBUF + 1 - i]
    /\ disk \in [Block -> Val]
    /\ pinned = {}
    /\ pc = [p \in Use |-> "idle"]
    /\ b = [p \in Use |-> 1]
    /\ panicked = None

At(p, l) == pc[p] = l
Goto(p, l) == pc' = [pc EXCEPT ![p] = l]

(* bcache.lock can be taken: no panic happened with it held. *)
Bcache == panicked = None

Cached(k) == {i \in Buf : block[i] = k}

(* bget, the block is cached: one more user. *)
Hit(p, k) ==
    /\ At(p, "idle")
    /\ Bcache
    /\ \E i \in Cached(k) :
        /\ refcnt' = [refcnt EXCEPT ![i] = @ + 1]
        /\ b' = [b EXCEPT ![p] = i]
    /\ Goto(p, "lock")
    /\ UNCHANGED <<block, valid, data, owner, lru, disk, pinned, panicked>>

Unused == {i \in Buf : refcnt[i] = 0}

(* bget, the block is not cached: the least recently used of the unused    *)
(* buffers is taken for it.                                                *)
Recycle(p, k) ==
    /\ At(p, "idle")
    /\ Bcache
    /\ Cached(k) = {}
    /\ \E n \in 1..NBUF :
        /\ lru[n] \in Unused
        /\ \A m \in n + 1..NBUF : lru[m] \notin Unused
        /\ block' = [block EXCEPT ![lru[n]] = k]
        /\ valid' = [valid EXCEPT ![lru[n]] = FALSE]
        /\ refcnt' = [refcnt EXCEPT ![lru[n]] = 1]
        /\ b' = [b EXCEPT ![p] = lru[n]]
    /\ Goto(p, "lock")
    /\ UNCHANGED <<data, owner, lru, disk, pinned, panicked>>

(* bget: panic("bget: no buffers"), which never returns. *)
NoBuffers(p, k) ==
    /\ At(p, "idle")
    /\ Bcache
    /\ Cached(k) = {} /\ Unused = {}
    /\ panicked' = p
    /\ UNCHANGED <<bufs, disk, pinned, pc, b>>

(* bget: acquiresleep(&b->lock), after bcache.lock was released. *)
Lock(p) ==
    /\ At(p, "lock")
    /\ owner[b[p]] = None
    /\ owner' = [owner EXCEPT ![b[p]] = p]
    /\ Goto(p, "got")
    /\ UNCHANGED <<block, valid, data, refcnt, lru, disk, pinned, b, panicked>>

(* Seeded fault: the disk is read whether the buffer is valid or not. *)
Fill_Always(i) == disk[block[i]]

(* bread: ramdisk_rw(b, 0) unless the buffer is valid. *)
Fill(i) == IF valid[i] THEN data[i] ELSE disk[block[i]]

Read(p) ==
    /\ At(p, "got")
    /\ data' = [data EXCEPT ![b[p]] = Fill(b[p])]
    /\ valid' = [valid EXCEPT ![b[p]] = TRUE]
    /\ Goto(p, "held")
    /\ UNCHANGED <<block, refcnt, owner, lru, disk, pinned, b, panicked>>

(* The user changes the block. *)
Change(p, v) ==
    /\ At(p, "held")
    /\ data' = [data EXCEPT ![b[p]] = v]
    /\ Goto(p, "changed")
    /\ UNCHANGED <<block, valid, refcnt, owner, lru, disk, pinned, b, panicked>>

(* log_write: there is room in the log, or the block is in it already. *)
Room(i) == i \in pinned \/ Cardinality(pinned) < MaxPins

(* Seeded fault: an absorbed block is pinned again. *)
Pin_Again(i, n) == n + 1

(* log_write: bpin unless the block is in the log already. *)
Pin(i, n) == IF i \in pinned THEN n ELSE n + 1

(* log_write: bpin, once per block of a transaction. *)
bpin(p) ==
    /\ At(p, "changed")
    /\ Bcache
    /\ Room(b[p])
    /\ refcnt' = [refcnt EXCEPT ![b[p]] = Pin(b[p], @)]
    /\ pinned' = pinned \cup {b[p]}
    /\ Goto(p, "held")
    /\ UNCHANGED <<block, valid, data, owner, lru, disk, b, panicked>>

(* bwrite, of a changed block, or of a pinned one by install_trans. *)
bwrite(p) ==
    /\ At(p, "changed") \/ (At(p, "held") /\ b[p] \in pinned)
    /\ disk' = [disk EXCEPT ![block[b[p]]] = data[b[p]]]
    /\ Goto(p, "written")
    /\ UNCHANGED <<bufs, pinned, b, panicked>>

(* install_trans: bunpin after bwrite. *)
bunpin(p) ==
    /\ At(p, "written")
    /\ Bcache
    /\ b[p] \in pinned
    /\ refcnt' = [refcnt EXCEPT ![b[p]] = @ - 1]
    /\ pinned' = pinned \ {b[p]}
    /\ Goto(p, "held")
    /\ UNCHANGED <<block, valid, data, owner, lru, disk, b, panicked>>

(* brelse: releasesleep(&b->lock) *)
Unlock(p) ==
    /\ pc[p] \in {"held", "written"}
    /\ owner' = [owner EXCEPT ![b[p]] = None]
    /\ Goto(p, "unref")
    /\ UNCHANGED <<block, valid, data, refcnt, lru, disk, pinned, b, panicked>>

Less(n) == n - 1

(* The list with buffer i taken out of its place and put in front. *)
MoveToFront(i) ==
    LET at == CHOOSE n \in 1..NBUF : lru[n] = i
    IN  [n \in 1..NBUF |-> IF n = 1 THEN i
                           ELSE IF n <= at THEN lru[n - 1] ELSE lru[n]]

(* brelse: the reference, and the move to the front if it was the last. *)
Unref(p) ==
    /\ At(p, "unref")
    /\ Bcache
    /\ refcnt' = [refcnt EXCEPT ![b[p]] = Less(@)]
    /\ lru' = IF refcnt'[b[p]] = 0 THEN MoveToFront(b[p]) ELSE lru
    /\ b' = [b EXCEPT ![p] = 1]
    /\ Goto(p, "idle")
    /\ UNCHANGED <<block, valid, data, owner, disk, pinned, panicked>>

Next == \E p \in Use :
            \/ \E k \in Block : Hit(p, k) \/ Recycle(p, k) \/ NoBuffers(p, k)
            \/ Lock(p) \/ Read(p) \/ \E v \in Val : Change(p, v)
            \/ bpin(p) \/ bwrite(p) \/ bunpin(p) \/ Unlock(p) \/ Unref(p)

Spec == Init /\ [][Next]_vars
-----------------------------------------------------------------------------

(* Every variable of bio.c has its type; the list holds each buffer once,  *)
(* after any number of moves to the front.                                 *)
TypeOK ==
    /\ block \in [Buf -> Block \cup {None}]
    /\ valid \in [Buf -> BOOLEAN]
    /\ data \in [Buf -> Val]
    /\ refcnt \in [Buf -> 0..Cardinality(Use) + 1]
    /\ owner \in [Buf -> Use \cup {None}]
    /\ lru \in [1..NBUF -> Buf] /\ \A i \in Buf : \E n \in 1..NBUF : lru[n] = i
    /\ disk \in [Block -> Val]
    /\ pinned \subseteq Buf
    /\ pc \in [Use -> {"idle", "lock", "got", "held", "changed", "written", "unref"}]
    /\ b \in [Use -> Buf]
    /\ panicked \in Use \cup {None}

(* bio.c bget: panic("bget: no buffers") is only reached when every buffer *)
(* is pinned by the log or in use by somebody who will give it back: a     *)
(* finished use, a block logged twice or one installed leaves no reference *)
(* behind that would keep its buffer from being recycled.                  *)
PanicOnlyFull ==
    panicked # None =>
        \A i \in Buf : \/ i \in pinned
                       \/ \E p \in Use : ~At(p, "idle") /\ b[p] = i

(* What is in block k: the buffer's data if it has been read, or the disk. *)
Filled(k) == {i \in Cached(k) : valid[i]}

Content(k) ==
    IF Filled(k) = {} THEN disk[k] ELSE data[CHOOSE i \in Filled(k) : TRUE]

(* The use between bread and brelse of block k. *)
Holders(k) ==
    {p \in Use : pc[p] \in {"held", "changed", "written"} /\ block[b[p]] = k}

User(k) == IF Holders(k) = {} THEN None ELSE CHOOSE p \in Holders(k) : TRUE

Abs == INSTANCE BioAbs WITH
    content <- [k \in Block |-> Content(k)],
    user <- [k \in Block |-> User(k)]

(* bio.c as a whole: the cache is one copy of every block, used once at a  *)
(* time, whichever buffers it moves the blocks through: a changed block is *)
(* never dropped, or read from the disk, before it is written home.        *)
ImplementsBlocks == Abs!Spec
=============================================================================
