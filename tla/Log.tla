--------------------------------- MODULE Log ---------------------------------
(***************************************************************************)
(* kernel/log.c: begin_op(), log_write(), end_op() with commit(), and      *)
(* recover_from_log(), over the disk and the buffers it pins.  A section   *)
(* under log.lock is one step; every bwrite() of commit() and of recovery  *)
(* is a step of its own, and a crash may come between any two.             *)
(***************************************************************************)
EXTENDS Naturals, Sequences, FiniteSets, Functions

CONSTANTS Op,            \* threads that make file system calls
          Block,         \* home blocks of the file system
          Val,           \* contents of a block
          MAXOPBLOCKS,   \* blocks begin_op() reserves for a call
          OpBlocks,      \* blocks a call really writes, some of them repeatedly
          LOGBLOCKS      \* data blocks of the on-disk log

ASSUME LogAssumption ==
  /\ MAXOPBLOCKS \in Nat \ {0} /\ OpBlocks \in Nat /\ OpBlocks <= MAXOPBLOCKS
  /\ LOGBLOCKS \in Nat /\ LOGBLOCKS >= MAXOPBLOCKS
  /\ IsFiniteSet(Block) /\ IsFiniteSet(Op) /\ Val # {}

VARIABLES home,          \* on disk: the home blocks
          hdr,           \* on disk: the log header, block[0..n-1] as a sequence
          slots,         \* on disk: the data blocks of the log
          cache,         \* contents of a block in the buffer cache, or else on disk
          pins,          \* of a block: references taken with bpin()
          lh,            \* log.lh
          outstanding, committing,   \* of struct log
          tail,          \* the local of write_log() and install_trans()
          pc,            \* of a thread: place
          wrote,         \* of a thread: the blocks its call has written so far
          boot,          \* "up", or the place in recover_from_log()
          panic          \* TRUE after a panic

disk   == <<home, hdr, slots>>
counts == <<outstanding, committing>>
vars   == <<disk, cache, pins, lh, counts, tail, pc, wrote, boot, panic>>

Init ==
  /\ home \in [Block -> Val]
  /\ hdr = <<>>
  /\ slots \in [1..LOGBLOCKS -> {CHOOSE v \in Val : TRUE}]
  /\ cache = home
  /\ pins = [b \in Block |-> 0]
  /\ lh = <<>>
  /\ outstanding = 0 /\ committing = 0
  /\ tail = 1
  /\ pc = [o \in Op |-> "idle"]
  /\ wrote = [o \in Op |-> {}]
  /\ boot = "up"
  /\ panic = FALSE

At(o, l)   == boot = "up" /\ pc[o] = l
Goto(o, l) == pc' = [pc EXCEPT ![o] = l]

Wakeup_Lost(o, l) == Goto(o, l)  \* seeded fault
\* wakeup(&log) by o, which goes to l.
Wakeup(o, l) ==
  pc' = [x \in Op |-> IF x = o THEN l ELSE IF pc[x] = "wait" THEN "begin" ELSE pc[x]]

Room_NotMine == Len(lh) + outstanding * MAXOPBLOCKS <= LOGBLOCKS  \* seeded fault
\* begin_op() makes sure that every call that is executing, and one more, can
\* still write its share.
Room == Len(lh) + (outstanding + 1) * MAXOPBLOCKS <= LOGBLOCKS

-----------------------------------------------------------------------------
(* begin_op() *)

Begin(o) ==
  /\ At(o, "idle") \/ At(o, "begin")
  /\ committing = 0 /\ Room
  /\ outstanding' = outstanding + 1
  /\ Goto(o, "op")
  /\ UNCHANGED <<disk, cache, pins, lh, committing, tail, wrote, boot, panic>>

BeginSleep(o) ==
  /\ At(o, "idle") \/ At(o, "begin")
  /\ committing = 1 \/ ~Room
  /\ Goto(o, "wait")
  /\ UNCHANGED <<disk, cache, pins, lh, counts, tail, wrote, boot, panic>>

-----------------------------------------------------------------------------
AddBlock(b) == lh' = Append(lh, b) /\ pins' = [pins EXCEPT ![b] = @ + 1]

AbsorbOrAdd(b) == IF b \in Range(lh) THEN UNCHANGED <<lh, pins>> ELSE AddBlock(b)

\* A call changes a block in its locked buffer and calls log_write(): a block
\* that is in the log already is absorbed, a new one is pinned.
LogWrite(o, b) ==
  /\ At(o, "op")
  /\ Cardinality(wrote[o] \cup {b}) <= OpBlocks
  /\ wrote' = [wrote EXCEPT ![o] = @ \cup {b}]
  /\ \E v \in Val : cache' = [cache EXCEPT ![b] = v]
  /\ panic' = (panic \/ Len(lh) >= LOGBLOCKS \/ outstanding < 1)
  /\ AbsorbOrAdd(b)
  /\ UNCHANGED <<disk, counts, tail, pc, boot>>

-----------------------------------------------------------------------------
(* end_op() and commit() *)

End(o) ==
  /\ At(o, "op")
  /\ outstanding' = outstanding - 1
  /\ wrote' = [wrote EXCEPT ![o] = {}]
  /\ panic' = (panic \/ committing = 1)
  /\ IF outstanding' = 0
     THEN /\ committing' = 1
          /\ Goto(o, IF lh = <<>> THEN "committed" ELSE "write_log")
     ELSE Wakeup(o, "idle") /\ UNCHANGED committing
  /\ UNCHANGED <<disk, cache, pins, lh, tail, boot>>

\* The next round of a loop over log.lh, or place l after the last.
Round(o, l) ==
  IF tail < Len(lh) THEN tail' = tail + 1 /\ UNCHANGED pc
                    ELSE tail' = 1 /\ Goto(o, l)

WriteLog(o) ==
  /\ At(o, "write_log")
  /\ slots' = [slots EXCEPT ![tail] = cache[lh[tail]]]
  /\ Round(o, "write_head")
  /\ UNCHANGED <<home, hdr, cache, pins, lh, counts, wrote, boot, panic>>

WriteHead(o) ==
  /\ At(o, "write_head")
  /\ hdr' = lh
  /\ Goto(o, "install")
  /\ UNCHANGED <<home, slots, cache, pins, lh, counts, tail, wrote, boot, panic>>

Install(o) ==
  /\ At(o, "install")
  /\ home' = [home EXCEPT ![lh[tail]] = slots[tail]]
  /\ cache' = [cache EXCEPT ![lh[tail]] = slots[tail]]
  /\ pins' = [pins EXCEPT ![lh[tail]] = @ - 1]
  /\ Round(o, "erase")
  /\ UNCHANGED <<hdr, slots, lh, counts, wrote, boot, panic>>

Erase(o) ==
  /\ At(o, "erase")
  /\ lh' = <<>> /\ hdr' = <<>>
  /\ Goto(o, "committed")
  /\ UNCHANGED <<home, slots, cache, pins, counts, tail, wrote, boot, panic>>

Committed(o) ==
  /\ At(o, "committed")
  /\ committing' = 0
  /\ Wakeup(o, "idle")
  /\ UNCHANGED <<disk, cache, pins, lh, outstanding, tail, wrote, boot, panic>>

-----------------------------------------------------------------------------
\* bget() may recycle the buffer of a block that nobody holds or has pinned; the
\* block is then read again from its home.
Evict(b) ==
  /\ boot = "up"
  /\ pins[b] = 0
  /\ cache' = [cache EXCEPT ![b] = home[b]]
  /\ UNCHANGED <<disk, pins, lh, counts, tail, pc, wrote, boot, panic>>

-----------------------------------------------------------------------------
(* A crash (external), and recover_from_log() in the boot that follows *)

Crash ==
  /\ boot' = "read_head"
  /\ cache' = home
  /\ pins' = [b \in Block |-> 0]
  /\ lh' = <<>>
  /\ outstanding' = 0 /\ committing' = 0
  /\ tail' = 1
  /\ pc' = [o \in Op |-> "idle"]
  /\ wrote' = [o \in Op |-> {}]
  /\ UNCHANGED <<disk, panic>>

threads == <<pins, counts, pc, wrote, panic>>

ReadHead ==
  /\ boot = "read_head"
  /\ lh' = hdr
  /\ boot' = IF hdr = <<>> THEN "erase" ELSE "install"
  /\ UNCHANGED <<disk, cache, tail, threads>>

\* Seeded fault: recovery erases the log without installing it.
Recover_Skipped ==
  /\ boot = "install" /\ boot' = "erase"
  /\ UNCHANGED <<disk, cache, lh, tail, threads>>

Recover ==
  /\ boot = "install"
  /\ home' = [home EXCEPT ![lh[tail]] = slots[tail]]
  /\ cache' = [cache EXCEPT ![lh[tail]] = slots[tail]]
  /\ IF tail < Len(lh) THEN tail' = tail + 1 /\ UNCHANGED boot
                       ELSE tail' = 1 /\ boot' = "erase"
  /\ UNCHANGED <<hdr, slots, lh, threads>>

RecoverErase ==
  /\ boot = "erase"
  /\ lh' = <<>> /\ hdr' = <<>>
  /\ boot' = "up"
  /\ UNCHANGED <<home, slots, cache, tail, threads>>

-----------------------------------------------------------------------------
Commit(o) == WriteLog(o) \/ WriteHead(o) \/ Install(o) \/ Erase(o) \/ Committed(o)

Next ==
  \/ \E o \in Op : Begin(o) \/ BeginSleep(o) \/ End(o) \/ Commit(o)
  \/ \E o \in Op, b \in Block : LogWrite(o, b)
  \/ \E b \in Block : Evict(b)
  \/ Crash \/ ReadHead \/ Recover \/ RecoverErase

Spec == Init /\ [][Next]_vars

\* Threads in the kernel keep running; a thread woken in begin_op() does not lose
\* the race for the log for ever.
Fairness ==
    \A o \in Op : /\ WF_vars(End(o))
                  /\ WF_vars(Commit(o))
                  /\ SF_vars(Begin(o) /\ pc[o] = "begin")

LiveSpec == Spec /\ Fairness

-----------------------------------------------------------------------------
(* Properties *)

TypeOK ==
  /\ home \in [Block -> Val] /\ cache \in [Block -> Val]
  /\ hdr \in Seq(Block) /\ lh \in Seq(Block)
  /\ slots \in [1..LOGBLOCKS -> Val]
  /\ pins \in [Block -> 0..1]
  /\ outstanding \in 0..Cardinality(Op) /\ committing \in {0, 1}
  /\ tail \in 1..LOGBLOCKS
  /\ pc \in [Op -> {"idle", "begin", "wait", "op", "write_log", "write_head",
                     "install", "erase", "committed"}]
  /\ wrote \in [Op -> SUBSET Block]
  /\ boot \in {"up", "read_head", "install", "erase"}

\* The reservation of begin_op() is enough while every call writes fewer blocks than
\* MAXOPBLOCKS (Fs checks that they do): log_write() never finds the log full, no
\* block is logged outside a call, and no call ends during a commit.  A call that
\* writes all MAXOPBLOCKS and one of them again can find it full, since log_write()
\* tests for room before it looks for the block in the log.
NoPanic == ~panic

\* The disk that a crash at this moment would recover.
Durable ==
  [b \in Block |-> IF \E k \in 1..Len(hdr) : hdr[k] = b
                   THEN slots[CHOOSE k \in 1..Len(hdr) : hdr[k] = b] ELSE home[b]]

Abs == INSTANCE LogAbs WITH
         active <- {o \in Op : pc[o] = "op"},
         cur <- IF boot = "up" THEN cache ELSE Durable,
         durable <- Durable

\* Crash atomicity: whatever the interleaving of calls, and wherever a crash or
\* several crashes, also during recovery, interrupt commit(), the recovered disk
\* is that of a moment with no call half done, and the calls go on from it.
ImplementsAtomicDisk == Abs!Spec

\* A call that sleeps in begin_op() gets to execute, unless the machine crashes.
OpStarts == \A o \in Op : pc[o] = "wait" ~> pc[o] \in {"op", "idle"}
=============================================================================
