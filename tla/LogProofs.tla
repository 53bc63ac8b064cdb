----------------------------- MODULE LogProofs ------------------------------
(*****************************************************************************)
(* The logging layer for any number of threads, blocks and log slots: the    *)
(* reservation of begin_op() is enough, and what a crash leaves on the disk  *)
(* is always a state with no call half done (LogAbs).                        *)
(*****************************************************************************)
EXTENDS Log, FiniteSetTheorems, TLAPS

\* The thread that is at label l of commit(); no thread is anywhere but idle
\* before the recovery is over.
Stage(l) == \E o \in Op : pc[o] = l

CommitLabels == {"write_log", "write_head", "install", "erase", "committed"}

Logged(b) == \E k \in 1..Len(lh) : lh[k] = b

Active == {o \in Op : pc[o] = "op"}

\* The blocks the calls in progress may still add to the log.
Resv == {r \in Op \X (1..MAXOPBLOCKS) :
           pc[r[1]] = "op" /\ r[2] > Cardinality(wrote[r[1]])}

\* log.outstanding counts the calls, each of which has logged what it wrote and
\* no more than its share.
CallInv ==
  /\ outstanding = Cardinality(Active)
  /\ \A o \in Op :
       /\ pc[o] # "op" => wrote[o] = {}
       /\ \A b \in wrote[o] : Logged(b)
       /\ IsFiniteSet(wrote[o]) /\ Cardinality(wrote[o]) <= OpBlocks

\* What the calls reserved fits.
RoomInv == Len(lh) + Cardinality(Resv) <= LOGBLOCKS

\* One thread at a time commits, while no call is in progress.
CommitInv ==
  /\ committing = 1 <=> \E o \in Op : pc[o] \in CommitLabels
  /\ \A o, x \in Op : pc[o] \in CommitLabels /\ pc[x] \in CommitLabels => o = x
  /\ committing = 1 => \A o \in Op : pc[o] # "op"

\* Nothing runs during recovery.
BootInv ==
  boot # "up" => /\ \A o \in Op : pc[o] = "idle"
                 /\ cache = home
                 /\ \A b \in Block : pins[b] = 0

\* A block is in the log once, in memory and on the disk.
OnceInv ==
  /\ \A i, j \in 1..Len(lh) : lh[i] = lh[j] => i = j
  /\ \A i, j \in 1..Len(hdr) : hdr[i] = hdr[j] => i = j
  /\ Len(hdr) <= LOGBLOCKS

\* The header on the disk names blocks between the commit point and the end of
\* the installation only.
HdrInv ==
  /\ boot = "up" /\ ~Stage("install") /\ ~Stage("erase") => hdr = <<>>
  /\ boot \in {"install", "erase"} \/ Stage("install") \/ Stage("erase") => hdr = lh

\* The loops of write_log() and install_trans() stay inside the log.
TailInv ==
  /\ Stage("write_log") \/ Stage("install") \/ boot = "install" => tail <= Len(lh)
  /\ ~Stage("write_log") /\ ~Stage("install") /\ boot # "install" => tail = 1
  /\ Stage("write_head") \/ Stage("erase") => Len(lh) >= 1
  /\ Stage("committed") \/ boot = "read_head" => lh = <<>>

\* A block of the log is pinned until it is installed.
PinInv ==
  boot = "up" =>
    \A b \in Block :
      pins[b] = 1 <=> \E k \in 1..Len(lh) : /\ lh[k] = b
                                            /\ Stage("install") => k >= tail
                                            /\ ~Stage("erase")

\* What write_log() has copied.
SlotInv ==
  \A k \in 1..Len(lh) :
    /\ Stage("write_log") /\ k < tail => slots[k] = cache[lh[k]]
    /\ Stage("write_head") \/ Stage("install") \/ Stage("erase") => slots[k] = cache[lh[k]]

\* What install_trans() has installed.
HomeInv ==
  /\ \A b \in Block : ~Logged(b) => cache[b] = home[b]
  /\ \A k \in 1..Len(lh) :
       /\ (Stage("install") \/ boot = "install") /\ k < tail => home[lh[k]] = slots[k]
       /\ Stage("erase") \/ boot = "erase" => home[lh[k]] = slots[k]

\* While calls keep below their reservation, log_write() finds room.
PanicInv == OpBlocks < MAXOPBLOCKS => ~panic

IInv ==
  /\ TypeOK /\ CallInv /\ RoomInv /\ CommitInv /\ BootInv /\ OnceInv /\ HdrInv
  /\ TailInv /\ PinInv /\ SlotInv /\ HomeInv /\ PanicInv

-----------------------------------------------------------------------------
\* The leaves are for Zenon, but for those that name the SMT solver.
USE ZenonT(120)

\* Calls in progress, and their reservations, are finite sets.
LEMMA FiniteFacts ==
  ASSUME TypeOK
  PROVE  /\ IsFiniteSet(Active) /\ IsFiniteSet(Resv)
         /\ Cardinality(Active) \in Nat /\ Cardinality(Resv) \in Nat
<1>1. IsFiniteSet(1..MAXOPBLOCKS)
  BY SMTT(300), FS_Interval, LogAssumption
<1>2. IsFiniteSet(Op \X (1..MAXOPBLOCKS))
  BY <1>1, FS_Product, LogAssumption
<1>3. IsFiniteSet(Active) /\ IsFiniteSet(Resv)
  BY <1>2, FS_Subset, LogAssumption DEF Active, Resv
<1> QED
  BY <1>3, FS_CardinalityType

\* Taking one element away.
LEMMA RemoveOne ==
  ASSUME NEW S, IsFiniteSet(S), NEW x \in S
  PROVE  IsFiniteSet(S \ {x}) /\ Cardinality(S \ {x}) = Cardinality(S) - 1
BY FS_RemoveElement

\* A call in progress is counted, and the blocks it wrote can be.
LEMMA CallCounts ==
  ASSUME IInv, NEW o \in Op, pc[o] = "op"
  PROVE  /\ Cardinality(wrote[o]) \in Nat /\ Cardinality(wrote[o]) <= OpBlocks
         /\ outstanding >= 1
<1>1. Cardinality(wrote[o]) \in Nat /\ Cardinality(wrote[o]) <= OpBlocks
  BY FS_CardinalityType DEF IInv, CallInv
<1>2. Cardinality(Active) # 0 /\ Cardinality(Active) \in Nat
  BY FiniteFacts, FS_EmptySet DEF IInv, Active
<1> QED
  BY SMTT(300), <1>1, <1>2 DEF IInv, CallInv

\* A call that has written less than it may has something left of its reservation.
LEMMA ReserveLeft ==
  ASSUME IInv, NEW o \in Op, pc[o] = "op", Cardinality(wrote[o]) < MAXOPBLOCKS
  PROVE  /\ <<o, Cardinality(wrote[o]) + 1>> \in Resv
         /\ Len(lh) < LOGBLOCKS
<1>1. Cardinality(wrote[o]) \in Nat
  BY CallCounts
<1>2. Cardinality(wrote[o]) + 1 \in 1..MAXOPBLOCKS
  BY SMTT(300), <1>1, LogAssumption
<1>3. <<o, Cardinality(wrote[o]) + 1>> \in Resv
  BY SMTT(300), <1>1, <1>2 DEF Resv
<1>4. Cardinality(Resv) # 0 /\ Cardinality(Resv) \in Nat
  BY <1>3, FiniteFacts, FS_EmptySet DEF IInv
<1>5. Len(lh) \in Nat /\ LOGBLOCKS \in Nat
  BY SMTT(300), LogAssumption DEF IInv, TypeOK
<1> QED
  BY SMTT(300), <1>3, <1>4, <1>5 DEF IInv, RoomInv

-----------------------------------------------------------------------------
(* begin_op()                                                              *)

\* begin_op() that gets into the log preserves IInv: the check of the room is what
\* makes the reservation.
LEMMA BeginInv ==
  ASSUME IInv, NEW o \in Op, Begin(o)
  PROVE  IInv'
<1>1. /\ boot = "up" /\ pc[o] \in {"idle", "begin"}
      /\ committing = 0
      /\ pc' = [pc EXCEPT ![o] = "op"]
      /\ outstanding' = outstanding + 1
      /\ UNCHANGED <<home, hdr, slots, cache, pins, lh, committing, tail, wrote, boot, panic>>
  BY DEF Begin, At, Goto, disk
<1>2. Active' = Active \cup {o} /\ o \notin Active
  BY <1>1 DEF Active, IInv, TypeOK
<1>3. IsFiniteSet(Active') /\ Cardinality(Active') = outstanding + 1
  BY <1>2, FiniteFacts, FS_AddElement DEF IInv, CallInv
<1>4. outstanding' <= Cardinality(Op)
  BY <1>1, <1>3, FS_Subset, LogAssumption DEF Active
<1>5. TypeOK'
  BY SMTT(300), <1>1, <1>4, FS_CardinalityType, LogAssumption DEF IInv, TypeOK
<1>6. CallInv'
  BY <1>1, <1>3 DEF IInv, TypeOK, CallInv, Logged
<1>7. RoomInv'
  <2>1. Resv' \subseteq Active' \X (1..MAXOPBLOCKS)
    BY DEF Resv, Active
  <2>2. /\ IsFiniteSet(1..MAXOPBLOCKS)
        /\ Cardinality(1..MAXOPBLOCKS) = MAXOPBLOCKS
    BY SMTT(300), FS_Interval, LogAssumption
  <2>3. /\ IsFiniteSet(Active' \X (1..MAXOPBLOCKS))
        /\ Cardinality(Active' \X (1..MAXOPBLOCKS)) = (outstanding + 1) * MAXOPBLOCKS
    <3>1. /\ IsFiniteSet(Active' \X (1..MAXOPBLOCKS))
          /\ Cardinality(Active' \X (1..MAXOPBLOCKS))
               = Cardinality(Active') * Cardinality(1..MAXOPBLOCKS)
      BY <1>3, <2>2, FS_Product
    <3> QED
      BY <1>3, <2>2, <3>1
  <2>4. IsFiniteSet(Resv') /\ Cardinality(Resv') <= (outstanding + 1) * MAXOPBLOCKS
    BY SMTT(300), <2>1, <2>3, FS_Subset
  <2>5. Cardinality(Resv') \in Nat
    BY <2>4, FS_CardinalityType
  <2>6. Len(lh) + (outstanding + 1) * MAXOPBLOCKS <= LOGBLOCKS
    BY DEF Begin, Room
  <2>7. (outstanding + 1) * MAXOPBLOCKS \in Nat /\ Len(lh) \in Nat /\ LOGBLOCKS \in Nat
    BY SMTT(300), <1>3, FS_CardinalityType, <2>3, LogAssumption
       DEF IInv, TypeOK
  <2> QED
    BY SMTT(300), <1>1, <2>4, <2>5, <2>6, <2>7 DEF RoomInv
<1>8. \A l \in CommitLabels : Stage(l)' <=> Stage(l)
  BY <1>1 DEF IInv, TypeOK, Stage, CommitLabels
<1>9. CommitInv'
  BY SMTT(300), <1>1 DEF IInv, TypeOK, CommitInv, CommitLabels
<1>10. BootInv' /\ OnceInv' /\ PanicInv'
  BY <1>1 DEF IInv, BootInv, OnceInv, PanicInv
<1>11. HdrInv' /\ TailInv' /\ PinInv'
  BY <1>1, <1>8 DEF IInv, HdrInv, TailInv, PinInv, CommitLabels
<1>12. SlotInv' /\ HomeInv'
  BY <1>1, <1>8 DEF IInv, SlotInv, HomeInv, Logged, CommitLabels
<1> QED
  BY <1>5, <1>6, <1>7, <1>9, <1>10, <1>11, <1>12 DEF IInv

\* begin_op() that goes to sleep preserves IInv.
LEMMA BeginSleepInv ==
  ASSUME IInv, NEW o \in Op, BeginSleep(o)
  PROVE  IInv'
<1>1. /\ boot = "up" /\ pc[o] \in {"idle", "begin"}
      /\ pc' = [pc EXCEPT ![o] = "wait"]
      /\ UNCHANGED <<home, hdr, slots, cache, pins, lh, outstanding, committing,
                     tail, wrote, boot, panic>>
  BY DEF BeginSleep, At, Goto, disk, counts
<1>2. Active' = Active /\ Resv' = Resv
  BY <1>1 DEF Active, Resv, IInv, TypeOK
<1>3. TypeOK'
  BY <1>1 DEF IInv, TypeOK
<1>4. CallInv' /\ RoomInv'
  BY <1>1, <1>2 DEF IInv, TypeOK, CallInv, RoomInv, Logged
<1>5. \A l \in CommitLabels : Stage(l)' <=> Stage(l)
  BY <1>1 DEF IInv, TypeOK, Stage, CommitLabels
<1>6. CommitInv'
  BY <1>1 DEF IInv, TypeOK, CommitInv, CommitLabels
<1>7. BootInv' /\ OnceInv' /\ PanicInv'
  BY <1>1 DEF IInv, BootInv, OnceInv, PanicInv
<1>8. HdrInv' /\ TailInv' /\ PinInv'
  BY <1>1, <1>5 DEF IInv, HdrInv, TailInv, PinInv, CommitLabels
<1>9. SlotInv' /\ HomeInv'
  BY <1>1, <1>5 DEF IInv, SlotInv, HomeInv, Logged, CommitLabels
<1> QED
  BY <1>3, <1>4, <1>6, <1>7, <1>8, <1>9 DEF IInv

-----------------------------------------------------------------------------
(* log_write()                                                             *)

\* A call in progress keeps commit() away.
LEMMA NoStage ==
  ASSUME IInv, NEW o \in Op, pc[o] = "op"
  PROVE  /\ boot = "up" /\ committing = 0
         /\ \A l \in CommitLabels : ~Stage(l)
         /\ hdr = <<>> /\ tail = 1
<1>1. boot = "up" /\ committing = 0
  BY DEF IInv, TypeOK, BootInv, CommitInv
<1>2. \A l \in CommitLabels : ~Stage(l)
  BY <1>1 DEF IInv, CommitInv, Stage
<1> QED
  BY <1>1, <1>2 DEF IInv, HdrInv, TailInv, CommitLabels

\* log_write(), absorbing or adding a block, preserves IInv.
LEMMA LogWriteInv ==
  ASSUME IInv, NEW o \in Op, NEW b \in Block, LogWrite(o, b)
  PROVE  IInv'
<1>1. /\ pc[o] = "op"
      /\ Cardinality(wrote[o] \cup {b}) <= OpBlocks
      /\ wrote' = [wrote EXCEPT ![o] = @ \cup {b}]
      /\ panic' = (panic \/ Len(lh) >= LOGBLOCKS \/ outstanding < 1)
      /\ UNCHANGED <<home, hdr, slots, outstanding, committing, tail, pc, boot>>
  BY DEF LogWrite, At, disk, counts
<1>2. PICK v \in Val : cache' = [cache EXCEPT ![b] = v]
  BY DEF LogWrite
<1>3. /\ boot = "up" /\ committing = 0
      /\ \A l \in CommitLabels : ~Stage(l) /\ ~Stage(l)'
      /\ hdr = <<>> /\ tail = 1
  BY <1>1, NoStage DEF Stage
<1>4. PanicInv'
  <2> SUFFICES ASSUME OpBlocks < MAXOPBLOCKS PROVE ~panic'
    BY DEF PanicInv
  <2>1. Cardinality(wrote[o]) < MAXOPBLOCKS /\ outstanding >= 1
    <3>1. /\ Cardinality(wrote[o]) \in Nat /\ Cardinality(wrote[o]) <= OpBlocks
          /\ outstanding >= 1
      BY <1>1, CallCounts
    <3> QED
      BY SMTT(300), <3>1, LogAssumption
  <2>2. Len(lh) < LOGBLOCKS
    BY <1>1, <2>1, ReserveLeft
  <2>3. Len(lh) \in Nat /\ outstanding \in Nat /\ LOGBLOCKS \in Nat
    BY SMTT(300), LogAssumption DEF IInv, TypeOK
  <2>4. ~(Len(lh) >= LOGBLOCKS) /\ ~(outstanding < 1)
    BY SMTT(300), <2>1, <2>2, <2>3
  <2> QED
    BY <1>1, <2>4 DEF IInv, PanicInv
<1>5. Logged(b) <=> b \in Range(lh)
  BY SMTT(300) DEF Logged, Range, IInv, TypeOK
<1>6. /\ lh' \in Seq(Block) /\ pins' \in [Block -> 0..1]
      /\ \A x \in Block : Logged(x)' <=> Logged(x) \/ x = b
      /\ \A x \in Block : pins'[x] = 1 <=> Logged(x)'
      /\ \A i, j \in 1..Len(lh') : lh'[i] = lh'[j] => i = j
      /\ Logged(b) => lh' = lh
      /\ ~Logged(b) => Len(lh') = Len(lh) + 1
  <2>0. \A x \in Block : pins[x] = 1 <=> Logged(x)
    BY <1>3 DEF IInv, PinInv, Logged, CommitLabels
  <2>1. CASE Logged(b)
    <3>1. lh' = lh /\ pins' = pins
      BY <1>5, <2>1 DEF LogWrite, AbsorbOrAdd
    <3> QED
      BY <2>0, <2>1, <3>1 DEF IInv, TypeOK, OnceInv, Logged
  <2>2. CASE ~Logged(b)
    <3>1. lh' = Append(lh, b) /\ pins' = [pins EXCEPT ![b] = @ + 1]
      BY <1>5, <2>2 DEF LogWrite, AbsorbOrAdd, AddBlock
    <3>2. /\ lh' \in Seq(Block) /\ Len(lh) \in Nat /\ Len(lh') = Len(lh) + 1
          /\ \A k \in 1..Len(lh) : lh'[k] = lh[k]
          /\ lh'[Len(lh) + 1] = b
      BY SMTT(300), <3>1 DEF IInv, TypeOK
    <3>3. \A x \in Block : Logged(x)' <=> Logged(x) \/ x = b
      BY SMTT(300), <3>2 DEF Logged
    <3>4. pins[b] = 0 /\ pins' \in [Block -> 0..1] /\ pins'[b] = 1
      BY SMTT(300), <2>0, <2>2, <3>1 DEF IInv, TypeOK
    <3>5. \A x \in Block : x # b => pins'[x] = pins[x]
      BY <3>1 DEF IInv, TypeOK
    <3>6. \A i, j \in 1..Len(lh') : lh'[i] = lh'[j] => i = j
      BY SMTT(300), <2>2, <3>2 DEF IInv, OnceInv, Logged
    <3> QED
      BY <2>0, <2>2, <3>2, <3>3, <3>4, <3>5, <3>6
  <2> QED
    BY <2>1, <2>2
<1>7. TypeOK'
  <2>1. wrote' \in [Op -> SUBSET Block] /\ cache' \in [Block -> Val]
    BY <1>1, <1>2 DEF IInv, TypeOK
  <2>2. lh' \in Seq(Block) /\ pins' \in [Block -> 0..1]
    BY <1>6
  <2> QED
    BY <1>1, <2>1, <2>2 DEF IInv, TypeOK
<1>8. CallInv'
  <2>1. IsFiniteSet(wrote[o] \cup {b})
    <3>1. IsFiniteSet(wrote[o])
      BY DEF IInv, CallInv
    <3> QED
      BY <3>1, FS_AddElement
  <2>2. wrote \in [Op -> SUBSET Block] /\ Active' = Active
    BY <1>1 DEF IInv, TypeOK, Active
  <2> QED
    BY <1>1, <1>6, <2>1, <2>2 DEF IInv, CallInv
<1>9. RoomInv'
  <2>0. /\ Cardinality(wrote[o]) \in Nat /\ Cardinality(Resv) \in Nat
        /\ IsFiniteSet(Resv) /\ Len(lh) \in Nat /\ LOGBLOCKS \in Nat
    <3>1. Cardinality(wrote[o]) \in Nat
      BY <1>1, CallCounts
    <3>2. Cardinality(Resv) \in Nat /\ IsFiniteSet(Resv)
      BY FiniteFacts DEF IInv
    <3>3. Len(lh) \in Nat /\ LOGBLOCKS \in Nat
      BY SMTT(300), LogAssumption DEF IInv, TypeOK
    <3> QED
      BY <3>1, <3>2, <3>3
  <2>1. /\ Cardinality(wrote'[o]) \in Nat
        /\ Cardinality(wrote'[o]) >= Cardinality(wrote[o])
        /\ Cardinality(wrote'[o]) <= MAXOPBLOCKS
        /\ b \notin wrote[o] => Cardinality(wrote'[o]) = Cardinality(wrote[o]) + 1
        /\ \A x \in Op : x # o => wrote'[x] = wrote[x]
    <3>1. IsFiniteSet(wrote[o])
      BY DEF IInv, CallInv
    <3>2. /\ Cardinality(wrote[o] \cup {b})
               = IF b \in wrote[o] THEN Cardinality(wrote[o]) ELSE Cardinality(wrote[o]) + 1
      BY <3>1, FS_AddElement
    <3> QED
      <4>1. wrote'[o] = wrote[o] \cup {b} /\ \A x \in Op : x # o => wrote'[x] = wrote[x]
        BY <1>1 DEF IInv, TypeOK
      <4>2. Cardinality(wrote[o] \cup {b}) <= OpBlocks
        BY <1>1
      <4>3. OpBlocks <= MAXOPBLOCKS /\ OpBlocks \in Nat /\ MAXOPBLOCKS \in Nat
        BY LogAssumption
      <4> QED
        BY SMTT(300), <2>0, <3>2, <4>1, <4>2, <4>3
  <2>2. Resv' \subseteq Resv
    <3> SUFFICES ASSUME NEW r \in Resv'
                 PROVE  r \in Resv
      OBVIOUS
    <3>1. /\ r \in Op \X (1..MAXOPBLOCKS)
          /\ pc[r[1]] = "op" /\ r[2] > Cardinality(wrote'[r[1]])
      BY <1>1 DEF Resv
    <3>2. r[1] \in Op /\ r[2] \in Nat
      BY SMTT(300), <3>1, LogAssumption
    <3>3. r[2] > Cardinality(wrote[r[1]])
      BY SMTT(300), <2>0, <2>1, <3>1, <3>2
    <3> QED
      BY <3>1, <3>3 DEF Resv
  <2>3. CASE Logged(b)
    <3>1. Cardinality(Resv') <= Cardinality(Resv) /\ Cardinality(Resv') \in Nat
      BY <2>0, <2>2, FS_Subset, FS_CardinalityType
    <3> QED
      BY SMTT(300), <1>6, <2>0, <2>3, <3>1 DEF IInv, RoomInv
  <2>4. CASE ~Logged(b)
    <3>1. b \notin wrote[o]
      BY <2>4 DEF IInv, CallInv
    <3>2. <<o, Cardinality(wrote[o]) + 1>> \notin Resv'
      BY SMTT(300), <2>0, <2>1, <3>1 DEF Resv
    <3>3. Resv' \subseteq Resv \ {<<o, Cardinality(wrote[o]) + 1>>}
      BY <2>2, <3>2
    <3>4. /\ IsFiniteSet(Resv \ {<<o, Cardinality(wrote[o]) + 1>>})
          /\ Cardinality(Resv \ {<<o, Cardinality(wrote[o]) + 1>>}) = Cardinality(Resv) - 1
      <4>1. Cardinality(wrote[o]) < MAXOPBLOCKS
        BY SMTT(300), <2>0, <2>1, <3>1, LogAssumption
      <4>2. <<o, Cardinality(wrote[o]) + 1>> \in Resv
        BY <1>1, <4>1, ReserveLeft
      <4> QED
        BY <2>0, <4>2, RemoveOne
    <3>5. IsFiniteSet(Resv') /\ Cardinality(Resv') <= Cardinality(Resv) - 1
      BY SMTT(300), <3>3, <3>4, FS_Subset
    <3>6. Cardinality(Resv') \in Nat
      BY <3>5, FS_CardinalityType
    <3> QED
      BY SMTT(300), <1>6, <2>0, <2>4, <3>5, <3>6 DEF IInv, RoomInv
  <2> QED
    BY <2>3, <2>4
<1>10. CommitInv' /\ BootInv' /\ OnceInv'
  BY SMTT(300), <1>1, <1>3, <1>6 DEF IInv, CommitInv, BootInv, OnceInv
<1>11. HdrInv' /\ TailInv' /\ SlotInv'
  BY <1>1, <1>3 DEF IInv, HdrInv, TailInv, SlotInv, CommitLabels
<1>12. PinInv'
  BY <1>1, <1>3, <1>6 DEF PinInv, Logged, CommitLabels
<1>13. HomeInv'
  BY <1>1, <1>2, <1>3, <1>6 DEF IInv, TypeOK, HomeInv, CommitLabels
<1> QED
  BY <1>4, <1>7, <1>8, <1>9, <1>10, <1>11, <1>12, <1>13 DEF IInv

-----------------------------------------------------------------------------
(* end_op() and commit()                                                   *)

\* Fewer reservations and a shorter log fit as well.
LEMMA RoomLess ==
  ASSUME IInv, Resv' \subseteq Resv, lh' \in Seq(Block), Len(lh') <= Len(lh)
  PROVE  RoomInv'
<1>1. /\ Cardinality(Resv) \in Nat /\ IsFiniteSet(Resv)
  BY FiniteFacts DEF IInv
<1>2. Cardinality(Resv') \in Nat /\ Cardinality(Resv') <= Cardinality(Resv)
  BY <1>1, FS_Subset, FS_CardinalityType
<1>3. Len(lh) \in Nat /\ Len(lh') \in Nat /\ LOGBLOCKS \in Nat
  BY SMTT(300), LogAssumption DEF IInv, TypeOK
<1> QED
  BY SMTT(300), <1>1, <1>2, <1>3 DEF IInv, RoomInv

\* The thread that commits is alone.
LEMMA StageFacts ==
  ASSUME IInv, NEW o \in Op, pc[o] \in CommitLabels
  PROVE  /\ boot = "up" /\ committing = 1 /\ outstanding = 0
         /\ \A x \in Op : /\ pc[x] # "op" /\ wrote[x] = {}
                          /\ x # o => pc[x] \notin CommitLabels
         /\ \A l \in CommitLabels : Stage(l) <=> l = pc[o]
         /\ Len(lh) \in 0..LOGBLOCKS
<1>1. boot = "up" /\ committing = 1
  BY DEF IInv, TypeOK, BootInv, CommitInv, CommitLabels
<1>2. \A x \in Op : /\ pc[x] # "op"
                    /\ x # o => pc[x] \notin CommitLabels
  BY <1>1 DEF IInv, CommitInv
<1>3. \A x \in Op : wrote[x] = {}
  BY <1>2 DEF IInv, CallInv
<1>4. \A l \in CommitLabels : Stage(l) <=> l = pc[o]
  BY <1>2 DEF Stage
<1>5. Active = {}
  BY <1>2 DEF Active
<1>6. outstanding = 0
  BY <1>5, FS_EmptySet DEF IInv, CallInv
<1>7. Len(lh) \in Nat /\ LOGBLOCKS \in Nat /\ Cardinality(Resv) \in Nat
  BY SMTT(300), FiniteFacts, LogAssumption DEF IInv, TypeOK
<1>8. Len(lh) \in 0..LOGBLOCKS
  BY SMTT(300), <1>7 DEF IInv, RoomInv
<1> QED
  BY <1>1, <1>2, <1>3, <1>4, <1>6, <1>8

\* A step of commit() leaves the calls alone.
LEMMA CommitStep ==
  ASSUME IInv, NEW o \in Op, pc[o] \in CommitLabels, NEW m \in CommitLabels,
         pc' = [pc EXCEPT ![o] = m], lh' \in Seq(Block), Len(lh') <= Len(lh),
         UNCHANGED <<outstanding, committing, wrote, boot, panic>>
  PROVE  /\ pc' \in [Op -> {"idle", "begin", "wait", "op", "write_log",
                            "write_head", "install", "erase", "committed"}]
         /\ CallInv' /\ RoomInv' /\ CommitInv' /\ BootInv' /\ PanicInv'
         /\ \A l \in CommitLabels : Stage(l)' <=> l = m
         /\ boot' = "up"
<1>1. pc \in [Op -> {"idle", "begin", "wait", "op", "write_log",
                     "write_head", "install", "erase", "committed"}]
  BY DEF IInv, TypeOK
<1>2. pc' \in [Op -> {"idle", "begin", "wait", "op", "write_log",
                      "write_head", "install", "erase", "committed"}]
  BY <1>1 DEF CommitLabels
<1>3. /\ boot = "up" /\ committing = 1 /\ outstanding = 0
      /\ \A x \in Op : /\ pc[x] # "op" /\ wrote[x] = {}
                       /\ x # o => pc[x] \notin CommitLabels
  BY StageFacts
<1>4. pc'[o] = m /\ \A x \in Op : x # o => pc'[x] = pc[x]
  BY <1>1
<1>5. \A x \in Op : pc'[x] # "op" /\ (x # o => pc'[x] \notin CommitLabels)
  BY <1>3, <1>4 DEF CommitLabels
<1>6. Active' = Active /\ Resv' = {}
  BY <1>3, <1>5 DEF Active, Resv
<1>7. CallInv'
  <2>1. outstanding' = Cardinality(Active')
    BY <1>6 DEF IInv, CallInv
  <2>2. \A x \in Op : /\ wrote'[x] = {}
                      /\ IsFiniteSet(wrote'[x]) /\ Cardinality(wrote'[x]) <= OpBlocks
    BY <1>3 DEF IInv, CallInv
  <2> QED
    BY <2>1, <2>2 DEF CallInv
<1>8. RoomInv'
  BY <1>6, RoomLess
<1>9. CommitInv'
  BY <1>3, <1>4, <1>5 DEF CommitInv
<1>10. \A l \in CommitLabels : Stage(l)' <=> l = m
  BY <1>4, <1>5 DEF Stage
<1>11. BootInv' /\ PanicInv' /\ boot' = "up"
  BY <1>3 DEF BootInv, IInv, PanicInv
<1> QED
  BY <1>2, <1>7, <1>8, <1>9, <1>10, <1>11

\* end_op() that leaves other calls in progress, or that starts the commit.
LEMMA EndInv ==
  ASSUME IInv, NEW o \in Op, End(o)
  PROVE  IInv'
<1>1. /\ pc[o] = "op"
      /\ outstanding' = outstanding - 1
      /\ wrote' = [wrote EXCEPT ![o] = {}]
      /\ panic' = (panic \/ committing = 1)
      /\ UNCHANGED <<home, hdr, slots, cache, pins, lh, tail, boot>>
  BY DEF End, At, disk
<1>2. /\ boot = "up" /\ committing = 0 /\ hdr = <<>> /\ tail = 1
      /\ \A l \in CommitLabels : ~Stage(l)
  BY <1>1, NoStage
<1>3. outstanding \in Nat /\ outstanding >= 1
  <2>1. outstanding >= 1
    BY <1>1, CallCounts
  <2> QED
    BY SMTT(300), <2>1 DEF IInv, TypeOK
<1>4. PanicInv'
  <2>1. committing # 1
    BY SMTT(300), <1>2
  <2> QED
    BY <1>1, <2>1 DEF IInv, PanicInv
<1>5. wrote'[o] = {} /\ \A x \in Op : x # o => wrote'[x] = wrote[x]
  BY <1>1 DEF IInv, TypeOK
<1> DEFINE m == pc'[o]
<1>6. /\ m \in {"idle", "committed", "write_log"}
      /\ m = "idle" => committing' = 0
      /\ m # "idle" => /\ committing' = 1 /\ outstanding' = 0
                       /\ m = "committed" <=> lh = <<>>
      /\ \A x \in Op : x # o => \/ pc'[x] = pc[x]
                                \/ pc[x] = "wait" /\ pc'[x] = "begin"
      /\ pc' \in [Op -> {"idle", "begin", "wait", "op", "write_log",
                         "write_head", "install", "erase", "committed"}]
  <2>1. CASE outstanding' = 0
    <3>1. /\ committing' = 1
          /\ pc' = [pc EXCEPT ![o] = IF lh = <<>> THEN "committed" ELSE "write_log"]
      BY <2>1 DEF End, Goto
    <3> QED
      BY <2>1, <3>1 DEF IInv, TypeOK
  <2>2. CASE outstanding' # 0
    BY <1>2, <2>2 DEF End, Wakeup, IInv, TypeOK
  <2> QED
    BY <2>1, <2>2
<1>7. TypeOK'
  <2>1. wrote' \in [Op -> SUBSET Block]
    BY <1>1 DEF IInv, TypeOK
  <2>2. outstanding' \in 0..Cardinality(Op)
    <3>1. Cardinality(Op) \in Nat /\ outstanding <= Cardinality(Op)
      BY SMTT(300), FS_CardinalityType, LogAssumption DEF IInv, TypeOK
    <3> QED
      BY SMTT(300), <1>1, <1>3, <3>1
  <2>3. committing' \in {0, 1}
    BY <1>6
  <2> QED
    BY <1>1, <1>6, <2>1, <2>2, <2>3 DEF IInv, TypeOK
<1>8. Active' = Active \ {o} /\ o \in Active
  BY <1>1, <1>6 DEF Active
<1>9. Cardinality(Active') = outstanding'
  <2>1. IsFiniteSet(Active) /\ Cardinality(Active) = outstanding
    BY FiniteFacts DEF IInv, CallInv
  <2>2. Cardinality(Active \ {o}) = Cardinality(Active) - 1
    BY <1>8, <2>1, RemoveOne
  <2> QED
    BY <1>1, <1>8, <2>1, <2>2
<1>10. CallInv'
  <2>1. \A x \in Op : /\ pc'[x] # "op" => wrote'[x] = {}
                      /\ \A b \in wrote'[x] : Logged(b)
    BY <1>5, <1>6 DEF IInv, CallInv
  <2>2. \A x \in Op : IsFiniteSet(wrote'[x]) /\ Cardinality(wrote'[x]) <= OpBlocks
    <3>1. IsFiniteSet({}) /\ Cardinality({}) = 0
      BY FS_EmptySet
    <3> QED
      BY SMTT(300), <1>5, <3>1, LogAssumption DEF IInv, CallInv
  <2> QED
    BY <1>1, <1>9, <2>1, <2>2 DEF CallInv, Logged
<1>11. RoomInv'
  <2>1. Resv' \subseteq Resv
    BY <1>5, <1>6 DEF Resv
  <2> QED
    BY SMTT(300), <1>1, <2>1, RoomLess DEF IInv, TypeOK
<1>12. \A l \in CommitLabels : Stage(l)' <=> l = m
  BY <1>2, <1>6 DEF Stage, CommitLabels
<1>13. CommitInv'
  <2>1. \A x \in Op : pc[x] \notin CommitLabels
    BY SMTT(300), <1>2 DEF IInv, CommitInv
  <2>2. \A x \in Op : x # o => pc'[x] \notin CommitLabels
    BY <1>6, <2>1 DEF CommitLabels
  <2>3. m # "idle" => Active' = {}
    <3>1. IsFiniteSet(Active')
      BY <1>8, FiniteFacts, FS_Subset DEF IInv
    <3> QED
      BY <1>6, <1>9, <3>1, FS_EmptySet
  <2> QED
    BY SMTT(300), <1>6, <2>2, <2>3 DEF CommitInv, CommitLabels, Active
<1>14. BootInv' /\ OnceInv'
  BY SMTT(300), <1>1, <1>2 DEF IInv, BootInv, OnceInv
<1>15. HdrInv' /\ TailInv' /\ SlotInv'
  <2>1. m = "write_log" => Len(lh) >= 1
    BY SMTT(300), <1>6 DEF IInv, TypeOK
  <2> QED
    BY SMTT(300), <1>1, <1>2, <1>6, <1>12, <2>1
       DEF HdrInv, TailInv, SlotInv, CommitLabels, IInv, TypeOK
<1>16. PinInv' /\ HomeInv'
  <2>1. /\ ~Stage("install") /\ ~Stage("erase")
        /\ ~Stage("install")' /\ ~Stage("erase")'
    BY <1>2, <1>6, <1>12 DEF CommitLabels
  <2>2. PinInv'
    BY <1>1, <2>1 DEF IInv, PinInv
  <2>3. HomeInv'
    BY <1>1, <2>1 DEF IInv, HomeInv, Logged
  <2> QED
    BY <2>2, <2>3
<1> QED
  BY <1>4, <1>7, <1>10, <1>11, <1>13, <1>14, <1>15, <1>16 DEF IInv

\* write_log() copying one block.
LEMMA WriteLogInv ==
  ASSUME IInv, NEW o \in Op, WriteLog(o)
  PROVE  IInv'
<1>1. /\ pc[o] = "write_log" /\ pc[o] \in CommitLabels
      /\ slots' = [slots EXCEPT ![tail] = cache[lh[tail]]]
      /\ UNCHANGED <<home, hdr, cache, pins, lh, outstanding, committing, wrote, boot, panic>>
  BY DEF WriteLog, At, counts, CommitLabels
<1> DEFINE m == pc'[o]
<1>2. /\ pc' = [pc EXCEPT ![o] = m]
      /\ \/ tail < Len(lh) /\ tail' = tail + 1 /\ m = "write_log"
         \/ ~(tail < Len(lh)) /\ tail' = 1 /\ m = "write_head"
  BY <1>1 DEF WriteLog, Round, Goto, IInv, TypeOK
<1>3. /\ boot = "up"
      /\ \A l \in CommitLabels : Stage(l) <=> l = "write_log"
      /\ Len(lh) \in 0..LOGBLOCKS
  BY <1>1, StageFacts
<1>4. tail \in Nat /\ tail >= 1 /\ tail <= Len(lh) /\ lh[tail] \in Block
  BY SMTT(300), <1>3 DEF IInv, TypeOK, TailInv, CommitLabels
<1>5. /\ pc' \in [Op -> {"idle", "begin", "wait", "op", "write_log",
                         "write_head", "install", "erase", "committed"}]
      /\ CallInv' /\ RoomInv' /\ CommitInv' /\ BootInv' /\ PanicInv'
      /\ \A l \in CommitLabels : Stage(l)' <=> l = m
  <2>1. m \in CommitLabels /\ lh' \in Seq(Block) /\ Len(lh') <= Len(lh)
    BY SMTT(300), <1>1, <1>2 DEF CommitLabels, IInv, TypeOK
  <2> QED
    BY <1>1, <1>2, <2>1, CommitStep
<1>6. TypeOK'
  <2>1. tail' \in 1..LOGBLOCKS /\ tail \in 1..LOGBLOCKS
    BY SMTT(300), <1>2, <1>3, <1>4, LogAssumption
  <2>2. slots' \in [1..LOGBLOCKS -> Val]
    BY <1>1, <1>4, <2>1 DEF IInv, TypeOK
  <2> QED
    BY <1>1, <1>5, <2>1, <2>2 DEF IInv, TypeOK
<1>7. OnceInv'
  BY <1>1 DEF IInv, OnceInv
<1>8. HdrInv' /\ TailInv'
  BY SMTT(300), <1>1, <1>2, <1>3, <1>4, <1>5
     DEF IInv, HdrInv, TailInv, CommitLabels
<1>9. PinInv' /\ HomeInv'
  BY SMTT(300), <1>1, <1>2, <1>3, <1>5
     DEF IInv, PinInv, HomeInv, Logged, CommitLabels
<1>10. SlotInv'
  <2>1. \A k \in 1..Len(lh) : k <= tail => slots'[k] = cache[lh[k]]
    BY SMTT(300), <1>1, <1>3, <1>4 DEF IInv, SlotInv, TypeOK, CommitLabels
  <2> QED
    BY SMTT(300), <1>1, <1>2, <1>3, <1>4, <1>5, <2>1 DEF SlotInv, CommitLabels
<1> QED
  BY <1>5, <1>6, <1>7, <1>8, <1>9, <1>10 DEF IInv

\* write_head() of a commit, the commit point.
LEMMA WriteHeadInv ==
  ASSUME IInv, NEW o \in Op, WriteHead(o)
  PROVE  IInv'
<1>1. /\ pc[o] = "write_head" /\ pc[o] \in CommitLabels /\ "install" \in CommitLabels
      /\ hdr' = lh /\ pc' = [pc EXCEPT ![o] = "install"]
      /\ UNCHANGED <<home, slots, cache, pins, lh, outstanding, committing, tail,
                     wrote, boot, panic>>
  BY DEF WriteHead, At, Goto, counts, CommitLabels
<1>2. /\ boot = "up"
      /\ \A l \in CommitLabels : Stage(l) <=> l = "write_head"
      /\ Len(lh) \in 0..LOGBLOCKS
  BY <1>1, StageFacts
<1>3. /\ pc' \in [Op -> {"idle", "begin", "wait", "op", "write_log",
                         "write_head", "install", "erase", "committed"}]
      /\ CallInv' /\ RoomInv' /\ CommitInv' /\ BootInv' /\ PanicInv'
      /\ \A l \in CommitLabels : Stage(l)' <=> l = "install"
  <2>1. lh' \in Seq(Block) /\ Len(lh') <= Len(lh)
    BY SMTT(300), <1>1 DEF IInv, TypeOK
  <2> QED
    BY <1>1, <2>1, CommitStep
<1>4. TypeOK'
  BY <1>1, <1>3 DEF IInv, TypeOK
<1>5. OnceInv'
  BY SMTT(300), <1>1, <1>2, LogAssumption DEF IInv, OnceInv
<1>6. tail = 1 /\ Len(lh) >= 1
  BY <1>2 DEF IInv, TailInv, CommitLabels
<1>7. HdrInv' /\ TailInv'
  BY <1>1, <1>2, <1>3, <1>6 DEF HdrInv, TailInv, CommitLabels
<1>8. PinInv'
  BY SMTT(300), <1>1, <1>2, <1>3, <1>6 DEF IInv, PinInv, CommitLabels
<1>9. SlotInv' /\ HomeInv'
  BY SMTT(300), <1>1, <1>2, <1>3, <1>6
     DEF IInv, SlotInv, HomeInv, Logged, CommitLabels
<1> QED
  BY <1>3, <1>4, <1>5, <1>7, <1>8, <1>9 DEF IInv

\* install_trans() of a commit copying one block home and unpinning it.
LEMMA InstallInv ==
  ASSUME IInv, NEW o \in Op, Install(o)
  PROVE  IInv' /\ cache' = cache
<1>1. /\ pc[o] = "install" /\ pc[o] \in CommitLabels
      /\ home' = [home EXCEPT ![lh[tail]] = slots[tail]]
      /\ cache' = [cache EXCEPT ![lh[tail]] = slots[tail]]
      /\ pins' = [pins EXCEPT ![lh[tail]] = @ - 1]
      /\ UNCHANGED <<hdr, slots, lh, outstanding, committing, wrote, boot, panic>>
  BY DEF Install, At, counts, CommitLabels
<1> DEFINE m == pc'[o]
<1>2. /\ pc' = [pc EXCEPT ![o] = m]
      /\ \/ tail < Len(lh) /\ tail' = tail + 1 /\ m = "install"
         \/ ~(tail < Len(lh)) /\ tail' = 1 /\ m = "erase"
  BY <1>1 DEF Install, Round, Goto, IInv, TypeOK
<1>3. /\ boot = "up"
      /\ \A l \in CommitLabels : Stage(l) <=> l = "install"
      /\ Len(lh) \in 0..LOGBLOCKS
  BY <1>1, StageFacts
<1>4. tail \in Nat /\ tail >= 1 /\ tail <= Len(lh) /\ lh[tail] \in Block
  BY SMTT(300), <1>3 DEF IInv, TypeOK, TailInv, CommitLabels
<1>5. /\ pc' \in [Op -> {"idle", "begin", "wait", "op", "write_log",
                         "write_head", "install", "erase", "committed"}]
      /\ CallInv' /\ RoomInv' /\ CommitInv' /\ BootInv' /\ PanicInv'
      /\ \A l \in CommitLabels : Stage(l)' <=> l = m
  <2>1. m \in CommitLabels /\ lh' \in Seq(Block) /\ Len(lh') <= Len(lh)
    BY SMTT(300), <1>1, <1>2 DEF CommitLabels, IInv, TypeOK
  <2> QED
    BY <1>1, <1>2, <2>1, CommitStep
<1>6. \A k \in 1..Len(lh) : slots[k] = cache[lh[k]]
  BY <1>3 DEF IInv, SlotInv, CommitLabels
<1>7. cache' = cache
  BY SMTT(300), <1>1, <1>4, <1>6 DEF IInv, TypeOK
<1>8. \A j, k \in 1..Len(lh) : lh[j] = lh[k] => j = k
  BY DEF IInv, OnceInv
<1>9. /\ home \in [Block -> Val] /\ pins \in [Block -> 0..1] /\ lh \in Seq(Block)
      /\ slots \in [1..LOGBLOCKS -> Val]
  BY DEF IInv, TypeOK
<1>10. pins[lh[tail]] = 1
  BY SMTT(300), <1>3, <1>4 DEF IInv, PinInv, CommitLabels
<1>11. TypeOK'
  <2>1. tail' \in 1..LOGBLOCKS /\ tail \in 1..LOGBLOCKS
    BY SMTT(300), <1>2, <1>3, <1>4, LogAssumption
  <2>2. home' \in [Block -> Val]
    BY <1>1, <1>4, <1>9, <2>1
  <2>3. pins' \in [Block -> 0..1]
    BY SMTT(300), <1>1, <1>4, <1>9, <1>10
  <2> QED
    BY <1>1, <1>5, <1>7, <2>1, <2>2, <2>3 DEF IInv, TypeOK
<1>12. OnceInv'
  BY <1>1 DEF IInv, OnceInv
<1>13. HdrInv' /\ TailInv'
  BY SMTT(300), <1>1, <1>2, <1>3, <1>4, <1>5
     DEF IInv, HdrInv, TailInv, CommitLabels
<1>14. SlotInv'
  BY <1>1, <1>2, <1>5, <1>6, <1>7 DEF SlotInv, CommitLabels
<1>15. PinInv'
  <2> SUFFICES ASSUME NEW b \in Block
               PROVE  pins'[b] = 1 <=> \E k \in 1..Len(lh) : /\ lh[k] = b
                                                             /\ m = "install" => k >= tail'
                                                             /\ m # "erase"
    BY <1>1, <1>5 DEF PinInv, CommitLabels
  <2>1. pins[b] = 1 <=> \E k \in 1..Len(lh) : lh[k] = b /\ k >= tail
    BY <1>3 DEF IInv, PinInv, CommitLabels
  <2>2. pins'[b] = 1 <=> \E k \in 1..Len(lh) : lh[k] = b /\ k > tail
    <3>1. CASE b = lh[tail]
      BY SMTT(300), <1>1, <1>4, <1>8, <1>9, <1>10, <3>1
    <3>2. CASE b # lh[tail]
      <4>1. pins'[b] = pins[b]
        BY <1>1, <1>9, <3>2
      <4> QED
        BY SMTT(300), <1>4, <2>1, <3>2, <4>1
    <3> QED
      BY <3>1, <3>2
  <2> QED
    BY SMTT(300), <1>2, <1>4, <2>2
<1>16. HomeInv'
  <2>1. \A b \in Block : ~Logged(b) => cache[b] = home'[b]
    <3>1. \A b \in Block : ~Logged(b) => b # lh[tail]
      BY SMTT(300), <1>4 DEF Logged
    <3> QED
      BY <1>1, <1>4, <1>9, <3>1 DEF IInv, HomeInv
  <2>2. \A k \in 1..Len(lh) : k <= tail => home'[lh[k]] = slots[k]
    BY SMTT(300), <1>1, <1>3, <1>4, <1>8, <1>9 DEF IInv, HomeInv, CommitLabels
  <2> QED
    BY SMTT(300), <1>1, <1>2, <1>3, <1>4, <1>5, <1>7, <2>1, <2>2
       DEF HomeInv, Logged, CommitLabels
<1> QED
  BY <1>5, <1>7, <1>11, <1>12, <1>13, <1>14, <1>15, <1>16 DEF IInv

\* write_head() that erases the transaction.
LEMMA EraseInv ==
  ASSUME IInv, NEW o \in Op, Erase(o)
  PROVE  IInv'
<1>1. /\ pc[o] = "erase" /\ pc[o] \in CommitLabels /\ "committed" \in CommitLabels
      /\ lh' = <<>> /\ hdr' = <<>> /\ pc' = [pc EXCEPT ![o] = "committed"]
      /\ UNCHANGED <<home, slots, cache, pins, outstanding, committing, tail,
                     wrote, boot, panic>>
  BY DEF Erase, At, Goto, counts, CommitLabels
<1>2. /\ boot = "up"
      /\ \A l \in CommitLabels : Stage(l) <=> l = "erase"
  BY <1>1, StageFacts
<1>3. lh' \in Seq(Block) /\ Len(lh') = 0 /\ Len(lh) \in Nat
  BY SMTT(300), <1>1 DEF IInv, TypeOK
<1>4. /\ pc' \in [Op -> {"idle", "begin", "wait", "op", "write_log",
                         "write_head", "install", "erase", "committed"}]
      /\ CallInv' /\ RoomInv' /\ CommitInv' /\ BootInv' /\ PanicInv'
      /\ \A l \in CommitLabels : Stage(l)' <=> l = "committed"
  <2>1. Len(lh') <= Len(lh)
    BY SMTT(300), <1>3
  <2> QED
    BY <1>1, <1>3, <2>1, CommitStep
<1>5. TypeOK'
  BY SMTT(300), <1>1, <1>4 DEF IInv, TypeOK
<1>6. OnceInv'
  BY SMTT(300), <1>1, <1>3, LogAssumption DEF OnceInv
<1>7. tail = 1
  BY <1>2 DEF IInv, TailInv, CommitLabels
<1>8. HdrInv' /\ TailInv' /\ SlotInv'
  BY <1>1, <1>2, <1>3, <1>4, <1>7 DEF HdrInv, TailInv, SlotInv, CommitLabels
<1>9. PinInv'
  BY SMTT(300), <1>1, <1>2, <1>3 DEF IInv, PinInv, CommitLabels
<1>10. HomeInv'
  <2>1. \A b \in Block : cache[b] = home[b]
    BY SMTT(300), <1>2 DEF IInv, HomeInv, SlotInv, Logged, CommitLabels
  <2> QED
    BY SMTT(300), <1>1, <1>2, <1>3, <2>1 DEF HomeInv
<1> QED
  BY <1>4, <1>5, <1>6, <1>8, <1>9, <1>10 DEF IInv

\* The end of end_op() after a commit.
LEMMA CommittedInv ==
  ASSUME IInv, NEW o \in Op, Committed(o)
  PROVE  IInv'
<1>1. /\ pc[o] = "committed" /\ pc[o] \in CommitLabels
      /\ committing' = 0
      /\ UNCHANGED <<home, hdr, slots, cache, pins, lh, outstanding, tail, wrote, boot, panic>>
  BY DEF Committed, At, disk, CommitLabels
<1>2. /\ boot = "up" /\ outstanding = 0
      /\ \A x \in Op : /\ pc[x] # "op" /\ wrote[x] = {}
                       /\ x # o => pc[x] \notin CommitLabels
      /\ \A l \in CommitLabels : Stage(l) <=> l = "committed"
  BY <1>1, StageFacts
<1>3. /\ pc'[o] = "idle"
      /\ \A x \in Op : x # o => \/ pc'[x] = pc[x]
                                \/ pc[x] = "wait" /\ pc'[x] = "begin"
      /\ pc' \in [Op -> {"idle", "begin", "wait", "op", "write_log",
                         "write_head", "install", "erase", "committed"}]
  BY DEF Committed, Wakeup, IInv, TypeOK
<1>4. \A x \in Op : pc'[x] # "op" /\ pc'[x] \notin CommitLabels
  BY <1>2, <1>3 DEF CommitLabels
<1>5. \A l \in CommitLabels : ~Stage(l)'
  BY <1>4 DEF Stage
<1>6. TypeOK'
  BY <1>1, <1>3 DEF IInv, TypeOK
<1>7. Active' = Active /\ Resv' = {}
  BY <1>2, <1>4 DEF Active, Resv
<1>8. CallInv'
  <2>1. outstanding' = Cardinality(Active')
    BY <1>1, <1>7 DEF IInv, CallInv
  <2>2. \A x \in Op : /\ wrote'[x] = {}
                      /\ IsFiniteSet(wrote'[x]) /\ Cardinality(wrote'[x]) <= OpBlocks
    BY <1>1, <1>2 DEF IInv, CallInv
  <2> QED
    BY <2>1, <2>2 DEF CallInv
<1>9. RoomInv'
  BY SMTT(300), <1>1, <1>7, RoomLess DEF IInv, TypeOK
<1>10. CommitInv' /\ BootInv' /\ OnceInv' /\ PanicInv'
  BY SMTT(300), <1>1, <1>2, <1>4 DEF IInv, CommitInv, BootInv, OnceInv, PanicInv
<1>11. HdrInv' /\ TailInv'
  BY <1>1, <1>2, <1>5 DEF IInv, HdrInv, TailInv, CommitLabels
<1>12. PinInv'
  BY <1>1, <1>2, <1>5 DEF IInv, PinInv, CommitLabels
<1>13. SlotInv' /\ HomeInv'
  BY <1>1, <1>2, <1>5 DEF IInv, SlotInv, HomeInv, Logged, CommitLabels
<1> QED
  BY <1>6, <1>8, <1>9, <1>10, <1>11, <1>12, <1>13 DEF IInv

-----------------------------------------------------------------------------
(* The buffer cache                                                        *)

\* Steps outside the logging layer preserve IInv.
LEMMA StutterInv == IInv /\ UNCHANGED vars => IInv'
<1> SUFFICES ASSUME IInv, UNCHANGED vars
             PROVE  IInv'
  OBVIOUS
<1>1. UNCHANGED <<home, hdr, slots, cache, pins, lh, outstanding, committing, tail, pc,
                  wrote, boot, panic>>
  BY DEF vars, disk, counts
<1>2. TypeOK' /\ PanicInv' /\ OnceInv'
  BY <1>1 DEF IInv, TypeOK, PanicInv, OnceInv
<1>3. Active' = Active /\ Resv' = Resv
  BY <1>1 DEF Active, Resv
<1>4. CallInv' /\ RoomInv' /\ CommitInv' /\ BootInv'
  BY <1>1, <1>3 DEF IInv, CallInv, RoomInv, CommitInv, BootInv, Logged
<1>5. \A l : Stage(l)' <=> Stage(l)
  BY <1>1 DEF Stage
<1>6. HdrInv' /\ TailInv' /\ PinInv'
  BY <1>1, <1>5 DEF IInv, HdrInv, TailInv, PinInv
<1>7. SlotInv' /\ HomeInv'
  BY <1>1, <1>5 DEF IInv, SlotInv, HomeInv, Logged
<1> QED
  BY <1>2, <1>4, <1>6, <1>7 DEF IInv

\* A block whose buffer may be recycled reads the same from the disk.
LEMMA EvictInv ==
  ASSUME IInv, NEW b \in Block, Evict(b)
  PROVE  IInv' /\ cache' = cache
<1>1. /\ boot = "up" /\ pins[b] = 0
      /\ cache' = [cache EXCEPT ![b] = home[b]]
      /\ UNCHANGED <<home, hdr, slots, pins, lh, outstanding, committing, tail, pc,
                     wrote, boot, panic>>
  BY DEF Evict, disk, counts
<1>2. cache[b] = home[b]
  <2>1. CASE ~Logged(b)
    BY <2>1 DEF IInv, HomeInv
  <2>2. CASE Logged(b)
    <3>1. PICK k \in 1..Len(lh) : lh[k] = b
      BY <2>2 DEF Logged
    <3>2. Stage("erase") \/ (Stage("install") /\ ~(k >= tail))
      BY SMTT(300), <1>1, <3>1 DEF IInv, PinInv
    <3>3. k \in Nat /\ tail \in Nat /\ Len(lh) \in Nat
      BY SMTT(300) DEF IInv, TypeOK
    <3>4. Stage("erase") \/ (Stage("install") /\ k < tail)
      BY SMTT(300), <3>2, <3>3
    <3>5. slots[k] = cache[b] /\ slots[k] = home[b]
      BY <3>1, <3>4 DEF IInv, SlotInv, HomeInv
    <3> QED
      BY <3>5
  <2> QED
    BY <2>1, <2>2
<1>3. cache' = cache
  BY <1>1, <1>2 DEF IInv, TypeOK
<1> QED
  BY <1>1, <1>3, StutterInv DEF vars, disk, counts

-----------------------------------------------------------------------------
(* Crash and recover_from_log()                                            *)

\* The state a crash leaves.
LEMMA CrashInv == IInv /\ Crash => IInv'
<1> SUFFICES ASSUME IInv, Crash
             PROVE  IInv'
  OBVIOUS
<1>1. /\ boot' = "read_head" /\ cache' = home /\ pins' = [b \in Block |-> 0]
      /\ lh' = <<>> /\ outstanding' = 0 /\ committing' = 0 /\ tail' = 1
      /\ pc' = [o \in Op |-> "idle"] /\ wrote' = [o \in Op |-> {}]
      /\ UNCHANGED <<home, hdr, slots, panic>>
  BY DEF Crash, disk
<1>2. \A o \in Op : pc'[o] = "idle"
  BY <1>1
<1>3. Active' = {} /\ Resv' = {} /\ \A l \in CommitLabels : ~Stage(l)'
  BY <1>2 DEF Active, Resv, Stage, CommitLabels
<1>4. TypeOK'
  <2>1. Cardinality(Op) \in Nat /\ LOGBLOCKS \in Nat /\ LOGBLOCKS >= 1
    BY SMTT(300), FS_CardinalityType, LogAssumption
  <2> QED
    BY SMTT(300), <1>1, <2>1 DEF IInv, TypeOK
<1>5. Cardinality({}) = 0 /\ IsFiniteSet({})
  BY FS_EmptySet
<1>6. CallInv'
  BY SMTT(300), <1>1, <1>3, <1>5, LogAssumption DEF CallInv
<1>7. RoomInv'
  BY SMTT(300), <1>1, <1>3, <1>5, LogAssumption DEF RoomInv
<1>8. CommitInv' /\ BootInv' /\ PanicInv'
  BY SMTT(300), <1>1, <1>2 DEF IInv, CommitInv, CommitLabels, BootInv, PanicInv
<1>9. OnceInv' /\ HdrInv' /\ TailInv'
  BY SMTT(300), <1>1, <1>3 DEF IInv, OnceInv, HdrInv, TailInv, CommitLabels
<1>10. PinInv' /\ SlotInv' /\ HomeInv'
  BY SMTT(300), <1>1, <1>3 DEF PinInv, SlotInv, HomeInv
<1> QED
  BY <1>4, <1>6, <1>7, <1>8, <1>9, <1>10 DEF IInv

\* read_head().
LEMMA ReadHeadInv == IInv /\ ReadHead => IInv'
<1> SUFFICES ASSUME IInv, ReadHead
             PROVE  IInv'
  OBVIOUS
<1>1. /\ boot = "read_head" /\ lh' = hdr
      /\ boot' = IF hdr = <<>> THEN "erase" ELSE "install"
      /\ UNCHANGED <<home, hdr, slots, cache, tail, pins, outstanding, committing, pc,
                     wrote, panic>>
  BY DEF ReadHead, disk, counts, threads
<1>2. \A o \in Op : pc[o] = "idle"
  BY <1>1 DEF IInv, BootInv
<1>3. /\ Active' = {} /\ Resv' = {} /\ Active = {}
      /\ \A l \in CommitLabels : ~Stage(l) /\ ~Stage(l)'
  BY <1>1, <1>2 DEF Active, Resv, Stage, CommitLabels
<1>4. TypeOK'
  BY <1>1 DEF IInv, TypeOK
<1>5. CallInv'
  <2>1. \A o \in Op : wrote[o] = {}
    BY <1>2 DEF IInv, CallInv
  <2> QED
    BY <1>1, <1>3, <2>1 DEF IInv, CallInv
<1>6. RoomInv'
  BY SMTT(300), <1>1, <1>3, FS_EmptySet, LogAssumption
     DEF IInv, TypeOK, OnceInv, RoomInv
<1>7. CommitInv' /\ BootInv' /\ PanicInv' /\ OnceInv'
  BY <1>1, <1>2 DEF IInv, CommitInv, CommitLabels, BootInv, PanicInv, OnceInv
<1>8. HdrInv'
  BY <1>1, <1>3 DEF HdrInv, CommitLabels
<1>9. TailInv'
  <2>1. tail = 1 /\ (hdr # <<>> => Len(hdr) >= 1)
    <3>1. hdr \in Seq(Block)
      BY DEF IInv, TypeOK
    <3>2. hdr # <<>> => Len(hdr) >= 1
      BY SMTT(300), <3>1
    <3> QED
      BY <1>1, <1>3, <3>2 DEF IInv, TailInv, CommitLabels
  <2> QED
    BY <1>1, <1>3, <2>1 DEF TailInv, CommitLabels
<1>10. PinInv' /\ SlotInv' /\ HomeInv'
  <2>1. tail = 1 /\ cache = home
    BY <1>1, <1>3 DEF IInv, TailInv, BootInv, CommitLabels
  <2> QED
    BY SMTT(300), <1>1, <1>3, <2>1 DEF PinInv, SlotInv, HomeInv, CommitLabels
<1> QED
  BY <1>4, <1>5, <1>6, <1>7, <1>8, <1>9, <1>10 DEF IInv

\* install_trans() of a recovery copying one block home.
LEMMA RecoverInv == IInv /\ Recover => IInv'
<1> SUFFICES ASSUME IInv, Recover
             PROVE  IInv'
  OBVIOUS
<1>1. /\ boot = "install"
      /\ home' = [home EXCEPT ![lh[tail]] = slots[tail]]
      /\ cache' = [cache EXCEPT ![lh[tail]] = slots[tail]]
      /\ \/ tail < Len(lh) /\ tail' = tail + 1 /\ boot' = "install"
         \/ ~(tail < Len(lh)) /\ tail' = 1 /\ boot' = "erase"
      /\ UNCHANGED <<hdr, slots, lh, pins, outstanding, committing, pc, wrote, panic>>
  BY DEF Recover, counts, threads
<1>2. \A o \in Op : pc[o] = "idle"
  BY <1>1 DEF IInv, BootInv
<1>3. /\ Active' = Active /\ Resv' = Resv
      /\ \A l \in CommitLabels : ~Stage(l) /\ ~Stage(l)'
  BY <1>1, <1>2 DEF Active, Resv, Stage, CommitLabels
<1>4. /\ home \in [Block -> Val] /\ lh \in Seq(Block) /\ cache = home
      /\ slots \in [1..LOGBLOCKS -> Val] /\ tail \in 1..LOGBLOCKS /\ tail \in Nat
  BY SMTT(300), <1>1, LogAssumption DEF IInv, TypeOK, BootInv
<1>5. tail >= 1 /\ tail <= Len(lh) /\ lh[tail] \in Block
  BY SMTT(300), <1>1, <1>4, LogAssumption DEF IInv, TailInv
<1>6. home' \in [Block -> Val] /\ cache' = home'
  BY <1>1, <1>4, <1>5
<1>7. TypeOK'
  <2>1. tail' \in 1..LOGBLOCKS
    <3>1. Len(lh) <= LOGBLOCKS /\ Len(lh) \in Nat
      BY SMTT(300), <1>1 DEF IInv, HdrInv, OnceInv, TypeOK
    <3> QED
      BY SMTT(300), <1>1, <1>4, <1>5, <3>1, LogAssumption
  <2> QED
    BY <1>1, <1>6, <2>1 DEF IInv, TypeOK
<1>8. CallInv' /\ RoomInv'
  BY <1>1, <1>3 DEF IInv, CallInv, RoomInv, Logged
<1>9. CommitInv' /\ PanicInv' /\ OnceInv'
  BY <1>1 DEF IInv, CommitInv, PanicInv, OnceInv
<1>10. BootInv'
  BY <1>1, <1>6 DEF IInv, BootInv
<1>11. HdrInv' /\ TailInv'
  BY SMTT(300), <1>1, <1>3, <1>5, <1>4 DEF IInv, HdrInv, TailInv, CommitLabels
<1>12. PinInv' /\ SlotInv'
  BY <1>1, <1>3 DEF PinInv, SlotInv, CommitLabels
<1>13. HomeInv'
  <2>1. \A j, k \in 1..Len(lh) : lh[j] = lh[k] => j = k
    BY DEF IInv, OnceInv
  <2>2. \A k \in 1..Len(lh) : k <= tail => home'[lh[k]] = slots[k]
    BY SMTT(300), <1>1, <1>4, <1>5, <2>1 DEF IInv, HomeInv
  <2> QED
    BY SMTT(300), <1>1, <1>3, <1>4, <1>5, <1>6, <2>2 DEF HomeInv, CommitLabels
<1> QED
  BY <1>7, <1>8, <1>9, <1>10, <1>11, <1>12, <1>13 DEF IInv

\* write_head() at the end of a recovery, and the first call may come.
LEMMA RecoverEraseInv == IInv /\ RecoverErase => IInv'
<1> SUFFICES ASSUME IInv, RecoverErase
             PROVE  IInv'
  OBVIOUS
<1>1. /\ boot = "erase" /\ lh' = <<>> /\ hdr' = <<>> /\ boot' = "up"
      /\ UNCHANGED <<home, slots, cache, tail, pins, outstanding, committing, pc, wrote, panic>>
  BY DEF RecoverErase, counts, threads
<1>2. \A o \in Op : pc[o] = "idle"
  BY <1>1 DEF IInv, BootInv
<1>3. /\ Active' = Active /\ Resv' = Resv
      /\ \A l \in CommitLabels : ~Stage(l) /\ ~Stage(l)'
  BY <1>1, <1>2 DEF Active, Resv, Stage, CommitLabels
<1>4. TypeOK'
  BY SMTT(300), <1>1 DEF IInv, TypeOK
<1>5. CallInv'
  <2>1. \A o \in Op : wrote[o] = {}
    BY <1>2 DEF IInv, CallInv
  <2> QED
    BY <1>1, <1>3, <2>1 DEF IInv, CallInv
<1>6. RoomInv'
  <2>1. Len(lh') <= Len(lh) /\ lh' \in Seq(Block)
    BY SMTT(300), <1>1 DEF IInv, TypeOK
  <2> QED
    BY <1>3, <2>1, RoomLess
<1>7. CommitInv' /\ BootInv' /\ PanicInv' /\ OnceInv'
  BY SMTT(300), <1>1, LogAssumption
     DEF IInv, CommitInv, BootInv, PanicInv, OnceInv
<1>8. HdrInv' /\ TailInv' /\ SlotInv'
  BY <1>1, <1>3 DEF IInv, HdrInv, TailInv, SlotInv, CommitLabels
<1>9. PinInv' /\ HomeInv'
  BY SMTT(300), <1>1, <1>3 DEF IInv, BootInv, PinInv, HomeInv, CommitLabels
<1> QED
  BY <1>4, <1>5, <1>6, <1>7, <1>8, <1>9 DEF IInv

-----------------------------------------------------------------------------
(* Safety                                                                  *)

\* The log after initlog() on a clean disk.
LEMMA InitInv == Init => IInv
<1> SUFFICES ASSUME Init
             PROVE  IInv
  OBVIOUS
<1>1. \A o \in Op : pc[o] = "idle" /\ wrote[o] = {}
  BY DEF Init
<1>2. Active = {} /\ Resv = {} /\ \A l \in CommitLabels : ~Stage(l)
  BY <1>1 DEF Active, Resv, Stage, CommitLabels
<1>3. TypeOK
  <2>1. Cardinality(Op) \in Nat /\ LOGBLOCKS \in Nat /\ LOGBLOCKS >= 1
    BY SMTT(300), FS_CardinalityType, LogAssumption
  <2>2. (CHOOSE v \in Val : TRUE) \in Val
    BY LogAssumption
  <2> QED
    BY SMTT(300), <2>1, <2>2 DEF Init, TypeOK
<1>4. Cardinality({}) = 0 /\ IsFiniteSet({})
  BY FS_EmptySet
<1>5. CallInv /\ RoomInv
  BY SMTT(300), <1>1, <1>2, <1>4, LogAssumption DEF Init, CallInv, RoomInv
<1>6. CommitInv /\ BootInv /\ PanicInv /\ OnceInv
  BY SMTT(300), <1>1, LogAssumption
     DEF Init, CommitInv, CommitLabels, BootInv, PanicInv, OnceInv
<1>7. HdrInv /\ TailInv /\ PinInv /\ SlotInv /\ HomeInv
  BY SMTT(300), <1>2
     DEF Init, HdrInv, TailInv, PinInv, SlotInv, HomeInv, CommitLabels
<1> QED
  BY <1>3, <1>5, <1>6, <1>7 DEF IInv

\* Every step of the logging layer preserves IInv.
LEMMA NextInv == IInv /\ [Next]_vars => IInv'
<1> SUFFICES ASSUME IInv, [Next]_vars
             PROVE  IInv'
  OBVIOUS
<1>1. ASSUME NEW o \in Op, Begin(o) \/ BeginSleep(o) \/ End(o) \/ Commit(o)
      PROVE  IInv'
  BY <1>1, BeginInv, BeginSleepInv, EndInv, WriteLogInv, WriteHeadInv,
     InstallInv,
     EraseInv, CommittedInv DEF Commit
<1>2. ASSUME NEW o \in Op, NEW b \in Block, LogWrite(o, b)
      PROVE  IInv'
  BY <1>2, LogWriteInv
<1>3. ASSUME NEW b \in Block, Evict(b)
      PROVE  IInv'
  BY <1>3, EvictInv
<1> QED
  BY <1>1, <1>2, <1>3, CrashInv, ReadHeadInv, RecoverInv, RecoverEraseInv,
     StutterInv
     DEF Next

\* The reservation of begin_op() is enough, for any number of threads and blocks
\* and any size of the log, through any number of crashes: when every call writes
\* fewer blocks than MAXOPBLOCKS, log_write() never panics.
THEOREM LogNeverPanics ==
  ASSUME OpBlocks < MAXOPBLOCKS
  PROVE  Spec => []NoPanic
<1>1. IInv => NoPanic
  BY DEF IInv, PanicInv, NoPanic
<1> QED
  BY <1>1, InitInv, NextInv, PTL DEF Spec

-----------------------------------------------------------------------------
(* Refinement                                                              *)

\* The disk that recovery makes of header h, log blocks s and home blocks d.
Recovered(h, s, d) ==
  [b \in Block |-> IF \E k \in 1..Len(h) : h[k] = b
                   THEN s[CHOOSE k \in 1..Len(h) : h[k] = b] ELSE d[b]]

Cur == IF boot = "up" THEN cache ELSE Durable

\* What a crash leaves is what recovery makes of the disk.
LEMMA DurableIs == /\ Durable = Recovered(hdr, slots, home)
                   /\ Durable' = Recovered(hdr', slots', home')
BY DEF Durable, Recovered

\* It has the logged copies of the blocks that the header names.
LEMMA RecoveredIs ==
  ASSUME NEW h \in Seq(Block), NEW s, NEW d, NEW e \in [Block -> Val],
         \A i, j \in 1..Len(h) : h[i] = h[j] => i = j,
         \A k \in 1..Len(h) : e[h[k]] = s[k],
         \A b \in Block : (\A k \in 1..Len(h) : h[k] # b) => e[b] = d[b]
  PROVE  Recovered(h, s, d) = e
<1>1. ASSUME NEW b \in Block
      PROVE  Recovered(h, s, d)[b] = e[b]
  <2>1. CASE \E k \in 1..Len(h) : h[k] = b
    <3> DEFINE c == CHOOSE k \in 1..Len(h) : h[k] = b
    <3>1. c \in 1..Len(h) /\ h[c] = b
      BY <2>1
    <3>2. Recovered(h, s, d)[b] = s[c]
      BY <2>1 DEF Recovered
    <3> HIDE DEF c
    <3> QED
      BY <3>1, <3>2
  <2>2. CASE ~ \E k \in 1..Len(h) : h[k] = b
    BY <2>2 DEF Recovered
  <2> QED
    BY <2>1, <2>2
<1>2. Recovered(h, s, d) = [b \in Block |-> Recovered(h, s, d)[b]]
  BY DEF Recovered
<1> QED
  BY <1>1, <1>2

\* Outside the installation, the disk is what a crash would recover.
LEMMA DurableHome ==
  ASSUME NEW h, h = <<>>, NEW s, NEW d \in [Block -> Val]
  PROVE  Recovered(h, s, d) = d
<1>1. Len(h) = 0
  OBVIOUS
<1>2. \A b \in Block : ~ \E k \in 1..Len(h) : h[k] = b
  BY SMTT(300), <1>1
<1>3. Recovered(h, s, d) = [b \in Block |-> d[b]]
  BY <1>2 DEF Recovered
<1> QED
  BY <1>3

\* Installing a block that the header names does not change it.
LEMMA RecoveredSame ==
  ASSUME NEW h, NEW s, NEW d, NEW e,
         \A b \in Block : (~ \E j \in 1..Len(h) : h[j] = b) => e[b] = d[b]
  PROVE  Recovered(h, s, e) = Recovered(h, s, d)
BY DEF Recovered

\* The write of the header in commit() makes all that the calls wrote durable.
LEMMA CommitPoint ==
  ASSUME IInv, NEW o \in Op, WriteHead(o)
  PROVE  Durable' = cache
<1>1. /\ hdr' = lh /\ slots' = slots /\ home' = home
      /\ pc[o] = "write_head"
  BY DEF WriteHead, At
<1>2. Stage("write_head")
  BY <1>1 DEF Stage
<1>3. \A k \in 1..Len(lh) : cache[lh[k]] = slots[k]
  BY <1>2 DEF IInv, SlotInv
<1>4. \A b \in Block : (\A k \in 1..Len(lh) : lh[k] # b) => cache[b] = home[b]
  BY DEF IInv, HomeInv, Logged
<1>5. lh \in Seq(Block) /\ cache \in [Block -> Val]
  BY DEF IInv, TypeOK
<1>6. \A i, j \in 1..Len(lh) : lh[i] = lh[j] => i = j
  BY DEF IInv, OnceInv
<1>7. Recovered(lh, slots, home) = cache
  BY SMTT(300), <1>3, <1>4, <1>5, <1>6, RecoveredIs
<1> QED
  BY <1>1, <1>7, DurableIs

\* What an invisible step leaves alone.
LEMMA Stutter ==
  ASSUME Active' = Active, Cur' = Cur, Durable' = Durable
  PROVE  UNCHANGED Abs!vars
BY DEF Abs!vars, Active, Cur

\* What the other steps of the logging layer do to the disk that would be
\* recovered: nothing.
LEMMA DurableSame ==
  ASSUME IInv, hdr' = hdr, slots' = slots, home' = home
  PROVE  Durable' = Durable
BY DurableIs

\* begin_op() and end_op() are steps of the abstract disk, or invisible.
LEMMA CallStep ==
  ASSUME IInv, NEW o \in Op, Begin(o) \/ BeginSleep(o) \/ End(o) \/ Committed(o)
  PROVE  Abs!Begin(o) \/ Abs!End(o) \/ UNCHANGED Abs!vars
<1>1. UNCHANGED <<home, hdr, slots, cache, boot>> /\ pc \in [Op -> {"idle", "begin", "wait",
        "op", "write_log", "write_head", "install", "erase", "committed"}]
  BY DEF Begin, BeginSleep, End, Committed, disk, IInv, TypeOK
<1>2. Durable' = Durable /\ Cur' = Cur
  BY <1>1, DurableSame DEF Cur
<1>3. CASE Begin(o)
  <2>1. Active' = Active \cup {o}
    BY <1>1, <1>3 DEF Begin, Goto, Active
  <2> QED
    BY <1>2, <2>1 DEF Abs!Begin, Active, Cur
<1>4. CASE BeginSleep(o) \/ Committed(o)
  <2>1. Active' = Active
    BY <1>1, <1>4 DEF BeginSleep, Committed, At, Goto, Wakeup, Active
  <2> QED
    BY <1>2, <2>1, Stutter
<1>5. CASE End(o)
  <2>1. Active' = Active \ {o} /\ o \in Active
    BY <1>1, <1>5 DEF End, At, Goto, Wakeup, Active
  <2> QED
    BY <1>2, <2>1 DEF Abs!End, Active, Cur
<1> QED
  BY <1>3, <1>4, <1>5

\* log_write() is the write of the abstract disk: what is durable does not change.
LEMMA WriteStep ==
  ASSUME IInv, NEW o \in Op, NEW b \in Block, LogWrite(o, b)
  PROVE  Abs!Write(o)
<1>1. boot = "up" /\ pc[o] = "op" /\ UNCHANGED <<home, hdr, slots, pc, boot>>
  BY DEF LogWrite, At, disk
<1>2. PICK v \in Val : cache' = [cache EXCEPT ![b] = v]
  BY DEF LogWrite
<1>3. Durable' = Durable /\ Cur = cache /\ Cur' = cache' /\ Active' = Active /\ o \in Active
  BY <1>1, DurableSame DEF Cur, Active
<1>4. Cur' = [Cur EXCEPT ![b] = v]
  BY <1>2, <1>3
<1> QED
  BY <1>3, <1>4 DEF Abs!Write, Active, Cur

\* The steps of commit() run while no call is in progress.
LEMMA CommitActive ==
  ASSUME IInv, NEW o \in Op, WriteLog(o) \/ WriteHead(o) \/ Install(o) \/ Erase(o)
  PROVE  Active = {} /\ Active' = {} /\ boot = "up" /\ boot' = "up"
<1>1. pc[o] \in CommitLabels /\ boot' = boot
  BY DEF WriteLog, WriteHead, Install, Erase, At, CommitLabels
<1>2. boot = "up" /\ \A x \in Op : pc[x] # "op"
  BY <1>1, StageFacts
<1>3. \A x \in Op : pc'[x] # "op"
  <2>1. pc' = pc \/ \E m \in {"write_head", "install", "erase", "committed"} :
                       pc' = [pc EXCEPT ![o] = m]
    BY DEF WriteLog, WriteHead, Install, Erase, Round, Goto
  <2> QED
    BY <1>2, <2>1 DEF IInv, TypeOK
<1> QED
  BY <1>1, <1>2, <1>3 DEF Active

\* The copies that write_log() makes are invisible: the header does not name them.
LEMMA WriteLogStep ==
  ASSUME IInv, NEW o \in Op, WriteLog(o)
  PROVE  UNCHANGED Abs!vars
<1>1. Active' = Active /\ boot = "up" /\ boot' = "up"
  BY CommitActive
<1>2. pc[o] \in CommitLabels /\ pc[o] = "write_log" /\ UNCHANGED <<home, hdr, cache>>
  BY DEF WriteLog, At, CommitLabels
<1>3. hdr = <<>>
  BY <1>1, <1>2, StageFacts DEF IInv, HdrInv, CommitLabels
<1>4. Durable = home /\ Durable' = home
  BY <1>2, <1>3, DurableIs, DurableHome DEF IInv, TypeOK
<1> QED
  BY <1>1, <1>2, <1>4, Stutter DEF Cur

\* The header write of commit() is the commit of the abstract disk.
LEMMA WriteHeadStep ==
  ASSUME IInv, NEW o \in Op, WriteHead(o)
  PROVE  Abs!Commit
<1>1. Active = {} /\ Active' = {} /\ boot = "up" /\ boot' = "up"
  BY CommitActive
<1>2. Durable' = cache /\ cache' = cache
  BY CommitPoint DEF WriteHead
<1>3. Cur = cache /\ Cur' = cache
  BY <1>1, <1>2 DEF Cur
<1> QED
  BY <1>1, <1>2, <1>3 DEF Abs!Commit, Active, Cur

\* The installation of a committed block is invisible.
LEMMA InstallStep ==
  ASSUME IInv, NEW o \in Op, Install(o)
  PROVE  UNCHANGED Abs!vars
<1>1. Active' = Active /\ boot = "up" /\ boot' = "up"
  BY CommitActive
<1>2. /\ pc[o] = "install" /\ home' = [home EXCEPT ![lh[tail]] = slots[tail]]
      /\ UNCHANGED <<hdr, slots>>
  BY DEF Install, At
<1>3. Stage("install")
  BY <1>2 DEF Stage
<1>4. /\ hdr = lh /\ lh \in Seq(Block) /\ home \in [Block -> Val]
      /\ tail \in 1..Len(lh)
  BY SMTT(300), <1>3 DEF IInv, HdrInv, TailInv, TypeOK
<1>5. Durable' = Durable
  <2>1. Recovered(lh, slots, home') = Recovered(lh, slots, home)
    <3>1. \A b \in Block : (~ \E j \in 1..Len(lh) : lh[j] = b) => home'[b] = home[b]
      BY <1>2, <1>4
    <3> QED
      BY SMTT(300), <3>1, RecoveredSame
  <2>2. hdr' = lh /\ slots' = slots
    BY <1>2, <1>4
  <2>3. Durable = Recovered(lh, slots, home)
    BY <1>4, DurableIs
  <2>4. Durable' = Recovered(lh, slots, home')
    BY <2>2, DurableIs
  <2> QED
    BY <2>1, <2>3, <2>4
<1>6. cache' = cache
  BY InstallInv
<1> QED
  BY <1>1, <1>5, <1>6, Stutter DEF Cur

\* After the installation the disk alone is what would be recovered.
LEMMA InstalledDurable ==
  ASSUME IInv, Stage("erase") \/ boot = "erase"
  PROVE  Durable = home
<1>1. hdr = lh /\ lh \in Seq(Block) /\ home \in [Block -> Val]
  BY DEF IInv, HdrInv, TypeOK
<1>2. \A i, j \in 1..Len(lh) : lh[i] = lh[j] => i = j
  BY DEF IInv, OnceInv
<1>3. \A k \in 1..Len(lh) : home[lh[k]] = slots[k]
  BY DEF IInv, HomeInv
<1>4. Recovered(lh, slots, home) = home
  BY SMTT(300), <1>1, <1>2, <1>3, RecoveredIs
<1> QED
  BY <1>1, <1>4, DurableIs

\* Erasing an installed transaction is invisible.
LEMMA EraseStep ==
  ASSUME IInv, NEW o \in Op, Erase(o)
  PROVE  UNCHANGED Abs!vars
<1>1. Active' = Active /\ boot = "up" /\ boot' = "up"
  BY CommitActive
<1>2. pc[o] = "erase" /\ hdr' = <<>> /\ UNCHANGED <<home, slots, cache>>
  BY DEF Erase, At
<1>3. Stage("erase")
  BY <1>2 DEF Stage
<1>4. Durable = home
  BY <1>3, InstalledDurable
<1>5. Durable' = home
  BY <1>2, DurableIs, DurableHome DEF IInv, TypeOK
<1> QED
  BY <1>1, <1>2, <1>4, <1>5, Stutter DEF Cur

\* The steps of recover_from_log() are invisible.
LEMMA RecoverStep ==
  ASSUME IInv, ReadHead \/ Recover \/ RecoverErase
  PROVE  UNCHANGED Abs!vars
<1>1. boot # "up" /\ UNCHANGED pc /\ cache = home
  BY DEF ReadHead, Recover, RecoverErase, threads, IInv, BootInv
<1>2. Active' = Active
  BY <1>1 DEF Active
<1>3. CASE ReadHead
  <2>1. boot' # "up" /\ Durable' = Durable
    BY <1>3, DurableSame DEF ReadHead, disk
  <2> QED
    BY <1>1, <1>2, <2>1, Stutter DEF Cur
<1>4. CASE Recover
  <2>1. /\ boot = "install" /\ home' = [home EXCEPT ![lh[tail]] = slots[tail]]
        /\ UNCHANGED <<hdr, slots>> /\ boot' # "up"
    BY <1>4 DEF Recover
  <2>2. /\ hdr = lh /\ lh \in Seq(Block) /\ home \in [Block -> Val]
        /\ tail \in 1..Len(lh)
    BY SMTT(300), <2>1 DEF IInv, HdrInv, TailInv, TypeOK
  <2>3. Durable' = Durable
    <3>1. Recovered(lh, slots, home') = Recovered(lh, slots, home)
      <4>1. \A b \in Block : (~ \E j \in 1..Len(lh) : lh[j] = b) => home'[b] = home[b]
        BY <2>1, <2>2
      <4> QED
        BY SMTT(300), <4>1, RecoveredSame
    <3>2. Durable = Recovered(lh, slots, home) /\ Durable' = Recovered(hdr', slots', home')
      BY <2>2, DurableIs
    <3> QED
      BY <2>1, <2>2, <3>1, <3>2
  <2> QED
    BY <1>1, <1>2, <2>1, <2>3, Stutter DEF Cur
<1>5. CASE RecoverErase
  <2>1. boot = "erase" /\ hdr' = <<>> /\ boot' = "up" /\ UNCHANGED <<home, slots, cache>>
    BY <1>5 DEF RecoverErase
  <2>2. Durable = home
    BY <2>1, InstalledDurable
  <2>3. Durable' = home
    BY <2>1, DurableIs, DurableHome DEF IInv, TypeOK
  <2> QED
    BY <1>1, <1>2, <2>1, <2>2, <2>3, Stutter DEF Cur
<1> QED
  BY <1>3, <1>4, <1>5

\* A crash is a crash of the abstract disk.
LEMMA CrashStep == IInv /\ Crash => Abs!Crash
<1> SUFFICES ASSUME IInv, Crash
             PROVE  Abs!Crash
  OBVIOUS
<1>1. boot' # "up" /\ pc' = [o \in Op |-> "idle"] /\ UNCHANGED <<home, hdr, slots>>
  BY DEF Crash, disk
<1>2. Durable' = Durable
  BY <1>1, DurableSame
<1>3. Active' = {}
  BY <1>1 DEF Active
<1> QED
  BY <1>1, <1>2, <1>3 DEF Abs!Crash, Active

\* Evict() and steps outside the logging layer.
LEMMA QuietStep ==
  ASSUME IInv, (\E b \in Block : Evict(b)) \/ UNCHANGED vars
  PROVE  UNCHANGED Abs!vars
<1>1. UNCHANGED <<home, hdr, slots, pc, boot>>
  BY DEF Evict, vars, disk
<1>2. cache' = cache
  BY EvictInv DEF vars
<1>3. Durable' = Durable /\ Active' = Active /\ Cur' = Cur
  BY <1>1, <1>2, DurableSame DEF Active, Cur
<1> QED
  BY <1>3, Stutter

\* Crash atomicity for any number of threads, blocks and log slots: the logging
\* layer implements a disk on which the calls become durable all together, at the
\* header write of a commit() that finds no call in progress, through any number
\* of crashes, during recovery too.
THEOREM LogIsAtomic == Spec => ImplementsAtomicDisk
<1>1. Init => Abs!Init
  <2> SUFFICES ASSUME Init
               PROVE  Abs!Init
    OBVIOUS
  <2>1. boot = "up" /\ cache = home /\ hdr = <<>> /\ home \in [Block -> Val]
    BY DEF Init
  <2>2. Durable = home
    BY <2>1, DurableIs, DurableHome
  <2>3. {o \in Op : pc[o] = "op"} = {}
    BY DEF Init
  <2> QED
    BY <2>1, <2>2, <2>3 DEF Abs!Init
<1>2. IInv /\ [Next]_vars => [Abs!Next]_Abs!vars
  <2> SUFFICES ASSUME IInv, [Next]_vars
               PROVE  Abs!Next \/ UNCHANGED Abs!vars
    OBVIOUS
  <2>1. ASSUME NEW o \in Op, Begin(o) \/ BeginSleep(o) \/ End(o) \/ Commit(o)
        PROVE  Abs!Next \/ UNCHANGED Abs!vars
    <3>1. CASE Begin(o) \/ BeginSleep(o) \/ End(o) \/ Committed(o)
      BY <3>1, CallStep DEF Abs!Next
    <3>2. CASE WriteLog(o) \/ Install(o) \/ Erase(o)
      BY <3>2, WriteLogStep, InstallStep, EraseStep
    <3>3. CASE WriteHead(o)
      BY <3>3, WriteHeadStep DEF Abs!Next
    <3> QED
      BY <2>1, <3>1, <3>2, <3>3 DEF Commit
  <2>2. ASSUME NEW o \in Op, NEW b \in Block, LogWrite(o, b)
        PROVE  Abs!Next
    BY <2>2, WriteStep DEF Abs!Next
  <2>3. CASE Crash
    BY <2>3, CrashStep DEF Abs!Next
  <2>4. CASE ReadHead \/ Recover \/ RecoverErase
    BY <2>4, RecoverStep
  <2>5. CASE (\E b \in Block : Evict(b)) \/ UNCHANGED vars
    BY <2>5, QuietStep
  <2> QED
    BY <2>1, <2>2, <2>3, <2>4, <2>5 DEF Next
<1> QED
  BY <1>1, <1>2, InitInv, NextInv, PTL DEF Spec, Abs!Spec, ImplementsAtomicDisk
=============================================================================
