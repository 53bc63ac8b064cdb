----------------------------- MODULE BioProofs ------------------------------
(*****************************************************************************)
(* The buffer cache for any number of uses, blocks and buffers: it is one    *)
(* copy of every block, used once at a time, and bget() finds a buffer       *)
(* unless all of them are in use or pinned.                                  *)
(*****************************************************************************)
EXTENDS Bio, FiniteSetTheorems, TLAPS

Labels == {"idle", "lock", "got", "held", "changed", "written", "unref"}

\* Where a use holds the sleep lock of its buffer, and where it has read it.
Owns == {"got", "held", "changed", "written"}
Using == {"held", "changed", "written"}

\* The types of what the list does not hold.
Types ==
  /\ block \in [Buf -> Block \cup {None}]
  /\ valid \in [Buf -> BOOLEAN]
  /\ data \in [Buf -> Val]
  /\ refcnt \in [Buf -> Nat]
  /\ owner \in [Buf -> Use \cup {None}]
  /\ disk \in [Block -> Val]
  /\ pinned \subseteq Buf
  /\ pc \in [Use -> Labels]
  /\ b \in [Use -> Buf]

\* Each buffer is on the list, once.
ListInv ==
  /\ lru \in [1..NBUF -> Buf]
  /\ \A i \in Buf : \E n \in 1..NBUF : lru[n] = i

\* The uses that have got buffer i from bget() and not given it back.
Users(i) == {p \in Use : pc[p] # "idle" /\ b[p] = i}

\* The reference count counts them, and the log's pin.
RefInv ==
  \A i \in Buf : refcnt[i] = Cardinality(Users(i)) + (IF i \in pinned THEN 1 ELSE 0)

\* The log pins as many buffers as it has room for.
PinInv == Cardinality(pinned) <= MaxPins

\* The sleep lock of a buffer is held by the use that works on it.
OwnInv == \A p \in Use, i \in Buf : owner[i] = p <=> (pc[p] \in Owns /\ b[p] = i)

\* A block is in one buffer; what is in use or pinned holds a block.
BlockInv ==
  /\ \A i, j \in Buf : block[i] = block[j] /\ block[i] # None => i = j
  /\ \A p \in Use : pc[p] # "idle" => block[b[p]] # None
  /\ \A i \in pinned : block[i] # None

\* What has been read is valid.
ValidInv ==
  /\ \A p \in Use : pc[p] \in Using => valid[b[p]]
  /\ \A i \in pinned : valid[i]
  /\ \A i \in Buf : valid[i] => block[i] # None

\* A buffer differs from the disk only while it is pinned or being changed.
CleanInv ==
  /\ \A i \in Buf : valid[i] /\ i \notin pinned =>
        \/ data[i] = disk[block[i]]
        \/ \E p \in Use : pc[p] = "changed" /\ b[p] = i
  /\ \A p \in Use : pc[p] = "written" => data[b[p]] = disk[block[b[p]]]

IInv ==
  /\ Types /\ ListInv /\ RefInv /\ PinInv
  /\ OwnInv /\ BlockInv /\ ValidInv /\ CleanInv

\* A panic of bget() found, and leaves, no buffer without references.
FullInv ==
  /\ panicked \in Use \cup {None}
  /\ panicked # None => \A i \in Buf : refcnt[i] # 0

-----------------------------------------------------------------------------
\* The leaves are for Zenon, but for those that name the SMT solver.
USE ZenonT(120)

(* Frames                                                                  *)

\* The users of a buffer and the pins are finite sets.
LEMMA Counts ==
  ASSUME Types
  PROVE  /\ \A i \in Buf : IsFiniteSet(Users(i)) /\ Cardinality(Users(i)) \in Nat
         /\ \A i \in Buf : Cardinality(Users(i)) <= Cardinality(Use)
         /\ IsFiniteSet(pinned) /\ Cardinality(pinned) \in Nat
<1>1. IsFiniteSet(Use) /\ \A i \in Buf : Users(i) \in SUBSET Use
  BY BioAssumption DEF Users
<1>2. IsFiniteSet(Buf) /\ pinned \in SUBSET Buf
  BY SMTT(300), BioAssumption, FS_Interval DEF Buf, Types
<1>3. IsFiniteSet(pinned) /\ Cardinality(pinned) \in Nat
  BY <1>2, FS_Subset, FS_CardinalityType
<1>4. \A i \in Buf : IsFiniteSet(Users(i)) /\ Cardinality(Users(i)) <= Cardinality(Use)
  BY <1>1, FS_Subset
<1> QED
  BY <1>3, <1>4, FS_CardinalityType

\* A use that moves between places where it has a buffer is no other user.
LEMMA UsersSame ==
  ASSUME Types, NEW p \in Use, pc[p] # "idle", NEW l, l # "idle", Goto(p, l), b' = b
  PROVE  \A i \in Buf : Users(i)' = Users(i)
<1>1. pc'[p] = l /\ \A q \in Use : q # p => pc'[q] = pc[q]
  BY DEF Types, Goto
<1> QED
  BY <1>1 DEF Users

\* The use that gets a buffer from bget() is one more user of it.
LEMMA UsersMore ==
  ASSUME Types, NEW p \in Use, pc[p] = "idle", NEW j \in Buf,
         Goto(p, "lock"), b' = [b EXCEPT ![p] = j]
  PROVE  /\ \A i \in Buf : i # j => Users(i)' = Users(i)
         /\ Cardinality(Users(j)') = Cardinality(Users(j)) + 1
<1>1. /\ pc'[p] = "lock" /\ b'[p] = j
      /\ \A q \in Use : q # p => pc'[q] = pc[q] /\ b'[q] = b[q]
  BY DEF Types, Goto
<1>2. \A i \in Buf : i # j => Users(i)' = Users(i)
  BY <1>1 DEF Users
<1>3. Users(j)' = Users(j) \cup {p} /\ p \notin Users(j)
  BY <1>1 DEF Users
<1>4. IsFiniteSet(Users(j)) /\ Cardinality(Users(j)) \in Nat
  BY Counts
<1>5. Cardinality(Users(j)') = Cardinality(Users(j)) + 1
  BY <1>3, <1>4, FS_AddElement
<1> QED
  BY <1>2, <1>5

\* The use that gives its buffer back in brelse() is no user any more.
LEMMA UsersLess ==
  ASSUME Types, NEW p \in Use, pc[p] = "unref", Goto(p, "idle"),
         NEW j \in Buf, b[p] = j, b' = [b EXCEPT ![p] = 1]
  PROVE  /\ \A i \in Buf : i # j => Users(i)' = Users(i)
         /\ Cardinality(Users(j)) = Cardinality(Users(j)') + 1
         /\ Cardinality(Users(j)') \in Nat
<1>1. /\ pc'[p] = "idle"
      /\ \A q \in Use : q # p => pc'[q] = pc[q] /\ b'[q] = b[q]
  BY DEF Types, Goto
<1>2. \A i \in Buf : i # j => Users(i)' = Users(i)
  BY <1>1 DEF Users
<1>3. Users(j)' = Users(j) \ {p} /\ p \in Users(j)
  BY <1>1 DEF Users
<1>4. IsFiniteSet(Users(j)) /\ Cardinality(Users(j)) \in Nat
  BY Counts
<1>5. Cardinality(Users(j)') = Cardinality(Users(j)) - 1
  BY <1>3, <1>4, FS_RemoveElement
<1>6. Cardinality(Users(j)') \in Nat
  BY <1>3, <1>4, FS_RemoveElement, FS_CardinalityType
<1> QED
  BY SMTT(300), <1>2, <1>4, <1>5, <1>6

-----------------------------------------------------------------------------
(* The steps                                                               *)

\* What the boot leaves: no block is cached.
LEMMA InvInit == Init => IInv
<1> SUFFICES ASSUME Init PROVE IInv
  OBVIOUS
<1>1. 1 \in Buf /\ \A i \in Buf : NBUF + 1 - i \in Buf /\ NBUF + 1 - (NBUF + 1 - i) = i
  BY SMTT(300), BioAssumption DEF Buf
<1>2. (CHOOSE v \in Val : TRUE) \in Val
  BY BioAssumption
<1>3. Types
  BY <1>1, <1>2 DEF Init, Types, Labels
<1>4. ListInv
  <2>1. lru \in [1..NBUF -> Buf] /\ \A n \in 1..NBUF : lru[n] = NBUF + 1 - n
    BY <1>1 DEF Init, Buf
  <2>2. \A i \in Buf : NBUF + 1 - i \in 1..NBUF /\ lru[NBUF + 1 - i] = i
    BY <1>1, <2>1 DEF Buf
  <2> QED
    BY <2>1, <2>2 DEF ListInv
<1>5. \A i \in Buf : Users(i) = {}
  BY DEF Init, Users
<1>6. RefInv
  <2>1. \A i \in Buf : Cardinality(Users(i)) = 0
    BY <1>5, FS_EmptySet
  <2> QED
    BY SMTT(300), <2>1 DEF Init, RefInv
<1>7. PinInv
  <2>1. Cardinality(pinned) = 0
    BY FS_EmptySet DEF Init
  <2> QED
    BY SMTT(300), <2>1, BioAssumption DEF PinInv
<1>8. OwnInv /\ BlockInv /\ ValidInv /\ CleanInv
  BY BioAssumption DEF Init, OwnInv, BlockInv, ValidInv, CleanInv, Owns, Using
<1> QED
  BY <1>3, <1>4, <1>6, <1>7, <1>8 DEF IInv

\* bget() of a cached block preserves IInv.
LEMMA HitInv ==
  ASSUME IInv, NEW p \in Use, NEW k \in Block, Hit(p, k)
  PROVE  IInv'
<1>1. PICK j \in Buf : /\ block[j] = k /\ refcnt' = [refcnt EXCEPT ![j] = @ + 1]
                       /\ b' = [b EXCEPT ![p] = j]
  BY DEF Hit, Cached
<1>2. /\ pc[p] = "idle" /\ Goto(p, "lock")
      /\ UNCHANGED <<block, valid, data, owner, lru, disk, pinned>>
  BY DEF Hit, At
<1>3. Types /\ k # None
  BY BioAssumption DEF IInv
<1>4. /\ pc'[p] = "lock" /\ b'[p] = j
      /\ \A q \in Use : q # p => pc'[q] = pc[q] /\ b'[q] = b[q]
      /\ refcnt'[j] = refcnt[j] + 1 /\ \A i \in Buf : i # j => refcnt'[i] = refcnt[i]
  BY <1>1, <1>2, <1>3 DEF Types, Goto
<1>5. Types'
  BY SMTT(300), <1>1, <1>2, <1>3 DEF Types, Goto, Labels
<1>6. /\ \A i \in Buf : i # j => Users(i)' = Users(i)
      /\ Cardinality(Users(j)') = Cardinality(Users(j)) + 1
      /\ Cardinality(Users(j)) \in Nat
  BY <1>1, <1>2, <1>3, UsersMore, Counts
<1>7. RefInv'
  BY SMTT(300), <1>2, <1>4, <1>6 DEF IInv, RefInv
<1>8. ListInv' /\ PinInv'
  BY <1>2 DEF IInv, ListInv, PinInv
<1>9. OwnInv' /\ BlockInv' /\ ValidInv' /\ CleanInv'
  BY SMTT(300), <1>1, <1>2, <1>3, <1>4
     DEF IInv, OwnInv, BlockInv, ValidInv, CleanInv, Owns, Using
<1> QED
  BY <1>5, <1>7, <1>8, <1>9 DEF IInv

\* A buffer without references has no user and no pin.
LEMMA UnusedFree ==
  ASSUME IInv, NEW j \in Buf, refcnt[j] = 0
  PROVE  /\ j \notin pinned /\ Cardinality(Users(j)) = 0
         /\ \A q \in Use : pc[q] # "idle" => b[q] # j
<1>1. /\ refcnt[j] = Cardinality(Users(j)) + (IF j \in pinned THEN 1 ELSE 0)
      /\ IsFiniteSet(Users(j)) /\ Cardinality(Users(j)) \in Nat
  BY Counts DEF IInv, RefInv
<1>2. j \notin pinned /\ Cardinality(Users(j)) = 0
  BY SMTT(300), <1>1
<1>3. Users(j) = {}
  BY <1>1, <1>2, FS_EmptySet
<1> QED
  BY <1>2, <1>3 DEF Users

\* bget() of a block that is not cached, into an unused buffer, preserves IInv.
LEMMA RecycleInv ==
  ASSUME IInv, NEW p \in Use, NEW k \in Block, Recycle(p, k)
  PROVE  IInv'
<1>1. PICK j \in Buf : /\ refcnt[j] = 0
                       /\ block' = [block EXCEPT ![j] = k]
                       /\ valid' = [valid EXCEPT ![j] = FALSE]
                       /\ refcnt' = [refcnt EXCEPT ![j] = 1]
                       /\ b' = [b EXCEPT ![p] = j]
  BY DEF Recycle, Unused
<1>2. /\ pc[p] = "idle" /\ Goto(p, "lock") /\ \A i \in Buf : block[i] # k
      /\ UNCHANGED <<data, owner, lru, disk, pinned>>
  BY DEF Recycle, At, Cached
<1>3. Types /\ k # None
  BY BioAssumption DEF IInv
<1>4. /\ pc'[p] = "lock" /\ b'[p] = j
      /\ \A q \in Use : q # p => pc'[q] = pc[q] /\ b'[q] = b[q]
      /\ refcnt'[j] = 1 /\ \A i \in Buf : i # j => refcnt'[i] = refcnt[i]
  BY <1>1, <1>2, <1>3 DEF Types, Goto
<1>5. /\ block'[j] = k /\ ~valid'[j]
      /\ \A i \in Buf : i # j => block'[i] = block[i] /\ valid'[i] = valid[i]
  BY <1>1, <1>3 DEF Types
<1>6. Types'
  BY <1>1, <1>2, <1>3 DEF Types, Goto, Labels
<1>7. /\ j \notin pinned /\ Cardinality(Users(j)) = 0
      /\ \A q \in Use : pc[q] # "idle" => b[q] # j
  BY <1>1, UnusedFree
<1>8. /\ \A i \in Buf : i # j => Users(i)' = Users(i)
      /\ Cardinality(Users(j)') = Cardinality(Users(j)) + 1
  BY <1>1, <1>2, <1>3, UsersMore
<1>9. RefInv'
  BY SMTT(300), <1>2, <1>4, <1>7, <1>8 DEF IInv, RefInv
<1>10. ListInv' /\ PinInv'
  BY <1>2 DEF IInv, ListInv, PinInv
<1>11. OwnInv'
  BY SMTT(300), <1>2, <1>4 DEF IInv, OwnInv, Owns
<1>12. BlockInv'
  BY SMTT(300), <1>2, <1>3, <1>4, <1>5, <1>7 DEF IInv, BlockInv, Types
<1>13. ValidInv'
  BY SMTT(300), <1>2, <1>3, <1>4, <1>5, <1>7 DEF IInv, ValidInv, Types, Using
<1>14. CleanInv'
  BY SMTT(300), <1>2, <1>3, <1>4, <1>5, <1>7 DEF IInv, CleanInv, Types
<1> QED
  BY <1>6, <1>9, <1>10, <1>11, <1>12, <1>13, <1>14 DEF IInv

\* The uses in a step inside bread() .. brelse(): p goes from a to l.
Moves(p, a, l) ==
  /\ pc[p] = a /\ pc'[p] = l /\ b' = b /\ a # "idle" /\ l # "idle"
  /\ \A q \in Use : q # p => pc'[q] = pc[q]

\* Such a step counts nobody more or less.
LEMMA MovesFacts ==
  ASSUME Types, NEW p \in Use, NEW a, NEW l \in Labels, a # "idle", l # "idle",
         pc[p] = a, Goto(p, l), b' = b
  PROVE  /\ Moves(p, a, l) /\ pc' \in [Use -> Labels] /\ b' \in [Use -> Buf]
         /\ \A i \in Buf : Users(i)' = Users(i)
<1>1. \A i \in Buf : Users(i)' = Users(i)
  BY UsersSame
<1> QED
  BY <1>1 DEF Types, Goto, Moves

\* acquiresleep() in bget() preserves IInv.
LEMMA LockInv ==
  ASSUME IInv, NEW p \in Use, Lock(p)
  PROVE  IInv'
<1>1. /\ pc[p] = "lock" /\ Goto(p, "got") /\ owner[b[p]] = None
      /\ owner' = [owner EXCEPT ![b[p]] = p]
      /\ UNCHANGED <<block, valid, data, refcnt, lru, disk, pinned, b>>
  BY DEF Lock, At
<1>2. Types /\ b[p] \in Buf /\ p # None
  BY BioAssumption DEF IInv, Types
<1>3. /\ Moves(p, "lock", "got") /\ pc' \in [Use -> Labels]
      /\ \A i \in Buf : Users(i)' = Users(i)
  BY <1>1, <1>2, MovesFacts DEF Labels
<1>4. owner'[b[p]] = p /\ \A i \in Buf : i # b[p] => owner'[i] = owner[i]
  BY <1>1, <1>2 DEF Types
<1>5. Types'
  BY <1>1, <1>2, <1>3 DEF Types
<1>6. ListInv' /\ PinInv' /\ RefInv'
  BY <1>1, <1>3 DEF IInv, ListInv, PinInv, RefInv
<1>7. OwnInv'
  BY SMTT(300), <1>1, <1>2, <1>3, <1>4, BioAssumption
     DEF IInv, OwnInv, Owns, Moves
<1>8. BlockInv' /\ ValidInv' /\ CleanInv'
  BY SMTT(300), <1>1, <1>3 DEF IInv, BlockInv, ValidInv, CleanInv, Moves, Using
<1> QED
  BY <1>5, <1>6, <1>7, <1>8 DEF IInv

\* The two users of a block are one: it is in one buffer, whose lock one use holds.
LEMMA OneOwner ==
  ASSUME IInv, NEW p \in Use, NEW q \in Use, pc[p] \in Owns, pc[q] \in Owns,
         b[p] = b[q] \/ block[b[p]] = block[b[q]]
  PROVE  p = q
<1>1. b[p] \in Buf /\ b[q] \in Buf
  BY DEF IInv, Types
<1>2. block[b[p]] # None
  BY DEF IInv, BlockInv, Owns
<1>3. b[p] = b[q]
  BY <1>1, <1>2 DEF IInv, BlockInv
<1>4. owner[b[p]] = p /\ owner[b[p]] = q
  BY <1>1, <1>3 DEF IInv, OwnInv
<1> QED
  BY <1>4

\* bread() of a buffer that may be valid already preserves IInv.
LEMMA ReadInv ==
  ASSUME IInv, NEW p \in Use, Read(p)
  PROVE  IInv'
<1>1. /\ pc[p] = "got" /\ Goto(p, "held")
      /\ data' = [data EXCEPT ![b[p]] = Fill(b[p])]
      /\ valid' = [valid EXCEPT ![b[p]] = TRUE]
      /\ UNCHANGED <<block, refcnt, owner, lru, disk, pinned, b>>
  BY DEF Read, At
<1>2. Types /\ b[p] \in Buf /\ block[b[p]] \in Block
  BY <1>1 DEF IInv, Types, BlockInv
<1>3. /\ Moves(p, "got", "held") /\ pc' \in [Use -> Labels]
      /\ \A i \in Buf : Users(i)' = Users(i)
  BY <1>1, <1>2, MovesFacts DEF Labels
<1>4. /\ data'[b[p]] = Fill(b[p]) /\ \A i \in Buf : i # b[p] => data'[i] = data[i]
      /\ valid'[b[p]] /\ \A i \in Buf : i # b[p] => valid'[i] = valid[i]
  BY <1>1, <1>2 DEF Types
<1>5. Types'
  BY <1>1, <1>2, <1>3 DEF Types, Fill
<1>6. ListInv' /\ PinInv' /\ RefInv'
  BY <1>1, <1>3 DEF IInv, ListInv, PinInv, RefInv
<1>7. OwnInv' /\ BlockInv'
  BY SMTT(300), <1>1, <1>3 DEF IInv, OwnInv, BlockInv, Owns, Moves
<1>8. ValidInv'
  BY SMTT(300), <1>1, <1>2, <1>3, <1>4
     DEF IInv, ValidInv, BlockInv, Types, Using, Moves
<1>9. \A q \in Use : pc[q] \in Owns /\ b[q] = b[p] => q = p
  BY <1>1, OneOwner DEF Owns
<1>10. CleanInv'
  BY SMTT(300), <1>1, <1>2, <1>3, <1>4, <1>9
     DEF IInv, CleanInv, Types, Owns, Moves, Fill
<1> QED
  BY <1>5, <1>6, <1>7, <1>8, <1>10 DEF IInv

\* A change of the block in its buffer preserves IInv.
LEMMA ChangeInv ==
  ASSUME IInv, NEW p \in Use, NEW v \in Val, Change(p, v)
  PROVE  IInv'
<1>1. /\ pc[p] = "held" /\ Goto(p, "changed") /\ data' = [data EXCEPT ![b[p]] = v]
      /\ UNCHANGED <<block, valid, refcnt, owner, lru, disk, pinned, b>>
  BY DEF Change, At
<1>2. Types /\ b[p] \in Buf
  BY DEF IInv, Types
<1>3. /\ Moves(p, "held", "changed") /\ pc' \in [Use -> Labels]
      /\ \A i \in Buf : Users(i)' = Users(i)
  BY <1>1, <1>2, MovesFacts DEF Labels
<1>4. \A i \in Buf : i # b[p] => data'[i] = data[i]
  BY <1>1, <1>2 DEF Types
<1>5. Types'
  BY <1>1, <1>2, <1>3 DEF Types
<1>6. ListInv' /\ PinInv' /\ RefInv'
  BY <1>1, <1>3 DEF IInv, ListInv, PinInv, RefInv
<1>7. OwnInv' /\ BlockInv' /\ ValidInv'
  BY SMTT(300), <1>1, <1>3
     DEF IInv, OwnInv, BlockInv, ValidInv, Owns, Using, Moves
<1>8. \A q \in Use : pc[q] \in Owns /\ b[q] = b[p] => q = p
  BY <1>1, OneOwner DEF Owns
<1>9. CleanInv'
  BY SMTT(300), <1>1, <1>2, <1>3, <1>4, <1>8
     DEF IInv, CleanInv, Types, Owns, Moves
<1> QED
  BY <1>5, <1>6, <1>7, <1>9 DEF IInv

\* log_write()'s pin preserves IInv: a buffer is pinned once, while there is room.
LEMMA PinStepInv ==
  ASSUME IInv, NEW p \in Use, bpin(p)
  PROVE  IInv'
<1>1. /\ pc[p] = "changed" /\ Goto(p, "held") /\ Room(b[p])
      /\ refcnt' = [refcnt EXCEPT ![b[p]] = IF b[p] \in pinned THEN @ ELSE @ + 1]
      /\ pinned' = pinned \cup {b[p]}
      /\ UNCHANGED <<block, valid, data, owner, lru, disk, b>>
  BY DEF bpin, Pin, At
<1>2. Types /\ b[p] \in Buf
  BY DEF IInv, Types
<1>3. /\ Moves(p, "changed", "held") /\ pc' \in [Use -> Labels]
      /\ \A i \in Buf : Users(i)' = Users(i)
  BY <1>1, <1>2, MovesFacts DEF Labels
<1>4. Types'
  BY SMTT(300), <1>1, <1>2, <1>3 DEF Types
<1>5. ListInv' /\ OwnInv'
  BY SMTT(300), <1>1, <1>3 DEF IInv, ListInv, OwnInv, Owns, Moves
<1>6. RefInv'
  <2>1. \A i \in Buf : Cardinality(Users(i)) \in Nat
    BY <1>2, Counts
  <2>2. refcnt'[b[p]] = (IF b[p] \in pinned THEN refcnt[b[p]] ELSE refcnt[b[p]] + 1)
    BY <1>1, <1>2 DEF Types
  <2>3. \A i \in Buf : i # b[p] =>
          refcnt'[i] = refcnt[i] /\ (i \in pinned' <=> i \in pinned)
    BY <1>1, <1>2 DEF Types
  <2> QED
    BY SMTT(300), <1>1, <1>2, <1>3, <2>1, <2>2, <2>3 DEF IInv, RefInv
<1>7. PinInv'
  <2>1. /\ IsFiniteSet(pinned) /\ Cardinality(pinned) \in Nat
        /\ Cardinality(pinned') = IF b[p] \in pinned THEN Cardinality(pinned)
                                                    ELSE Cardinality(pinned) + 1
    BY <1>1, <1>2, Counts, FS_AddElement
  <2> QED
    BY SMTT(300), <1>1, <2>1, BioAssumption DEF IInv, PinInv, Room
<1>8. BlockInv' /\ ValidInv'
  BY <1>1, <1>3 DEF IInv, BlockInv, ValidInv, Using, Moves
<1>9. CleanInv'
  BY SMTT(300), <1>1, <1>2, <1>3 DEF IInv, CleanInv, Types, Moves
<1> QED
  BY <1>4, <1>5, <1>6, <1>7, <1>8, <1>9 DEF IInv

\* bwrite(), by a use that changed the block or by install_trans(), preserves
\* IInv: the disk and the buffer agree after it.
LEMMA WriteInv ==
  ASSUME IInv, NEW p \in Use, bwrite(p)
  PROVE  IInv'
<1>1. /\ pc[p] \in {"changed", "held"} /\ Goto(p, "written")
      /\ disk' = [disk EXCEPT ![block[b[p]]] = data[b[p]]]
      /\ UNCHANGED <<block, valid, data, refcnt, owner, lru, pinned, b>>
  BY DEF bwrite, At, bufs
<1>2. Types /\ b[p] \in Buf /\ block[b[p]] \in Block
  BY <1>1 DEF IInv, Types, BlockInv
<1>3. /\ Moves(p, pc[p], "written") /\ pc' \in [Use -> Labels]
      /\ \A i \in Buf : Users(i)' = Users(i)
  BY <1>1, <1>2, MovesFacts DEF Labels
<1>4. /\ disk'[block[b[p]]] = data[b[p]]
      /\ \A k \in Block : k # block[b[p]] => disk'[k] = disk[k]
  BY <1>1, <1>2 DEF Types
<1>5. Types'
  BY <1>1, <1>2, <1>3 DEF Types
<1>6. ListInv' /\ PinInv' /\ RefInv'
  BY <1>1, <1>3 DEF IInv, ListInv, PinInv, RefInv
<1>7. OwnInv' /\ BlockInv' /\ ValidInv'
  BY SMTT(300), <1>1, <1>3
     DEF IInv, OwnInv, BlockInv, ValidInv, Owns, Using, Moves
<1>8. \A q \in Use : pc[q] \in Owns /\ b[q] = b[p] => q = p
  BY <1>1, OneOwner DEF Owns
<1>9. \A i \in Buf : i # b[p] /\ block[i] # None => disk'[block[i]] = disk[block[i]]
  BY SMTT(300), <1>2, <1>4 DEF IInv, BlockInv, Types
<1>10. \A i \in Buf : valid'[i] /\ i \notin pinned' =>
          \/ data'[i] = disk'[block'[i]]
          \/ \E q \in Use : pc'[q] = "changed" /\ b'[q] = i
  BY SMTT(300), <1>1, <1>3, <1>4, <1>9 DEF IInv, CleanInv, ValidInv, Moves
<1>11. \A q \in Use : pc'[q] = "written" => data'[b'[q]] = disk'[block'[b'[q]]]
  BY SMTT(300), <1>1, <1>2, <1>3, <1>4, <1>8, <1>9
     DEF IInv, CleanInv, BlockInv, Types, Owns, Moves
<1> QED
  BY <1>5, <1>6, <1>7, <1>10, <1>11 DEF IInv, CleanInv

\* install_trans()'s unpin preserves IInv: the block is on the disk.
LEMMA UnpinInv ==
  ASSUME IInv, NEW p \in Use, bunpin(p)
  PROVE  IInv'
<1>1. /\ pc[p] = "written" /\ Goto(p, "held") /\ b[p] \in pinned
      /\ refcnt' = [refcnt EXCEPT ![b[p]] = @ - 1]
      /\ pinned' = pinned \ {b[p]}
      /\ UNCHANGED <<block, valid, data, owner, lru, disk, b>>
  BY DEF bunpin, At
<1>2. Types /\ b[p] \in Buf
  BY DEF IInv, Types
<1>3. /\ Moves(p, "written", "held") /\ pc' \in [Use -> Labels]
      /\ \A i \in Buf : Users(i)' = Users(i)
  BY <1>1, <1>2, MovesFacts DEF Labels
<1>4. /\ \A i \in Buf : Cardinality(Users(i)) \in Nat
      /\ refcnt[b[p]] = Cardinality(Users(b[p])) + 1
  BY <1>1, <1>2, Counts DEF IInv, RefInv
<1>5. refcnt'[b[p]] = Cardinality(Users(b[p])) /\ refcnt'[b[p]] \in Nat
  BY SMTT(300), <1>1, <1>2, <1>4 DEF Types
<1>6. Types'
  BY <1>1, <1>2, <1>3, <1>5 DEF Types
<1>7. ListInv' /\ OwnInv'
  BY SMTT(300), <1>1, <1>3 DEF IInv, ListInv, OwnInv, Owns, Moves
<1>8. RefInv'
  <2>1. \A i \in Buf : i # b[p] =>
          refcnt'[i] = refcnt[i] /\ (i \in pinned' <=> i \in pinned)
    BY <1>1, <1>2 DEF Types
  <2> QED
    BY SMTT(300), <1>1, <1>2, <1>3, <1>4, <1>5, <2>1 DEF IInv, RefInv
<1>9. PinInv'
  <2>1. /\ Cardinality(pinned) \in Nat
        /\ Cardinality(pinned') = Cardinality(pinned) - 1
    BY <1>1, <1>2, Counts, FS_RemoveElement
  <2> QED
    BY SMTT(300), <2>1, BioAssumption DEF IInv, PinInv
<1>10. BlockInv' /\ ValidInv'
  BY <1>1, <1>3 DEF IInv, BlockInv, ValidInv, Using, Moves
<1>11. CleanInv'
  BY SMTT(300), <1>1, <1>2, <1>3 DEF IInv, CleanInv, Types, Moves
<1> QED
  BY <1>6, <1>7, <1>8, <1>9, <1>10, <1>11 DEF IInv

\* releasesleep() in brelse() preserves IInv.
LEMMA UnlockInv ==
  ASSUME IInv, NEW p \in Use, Unlock(p)
  PROVE  IInv'
<1>1. /\ pc[p] \in {"held", "written"} /\ Goto(p, "unref")
      /\ owner' = [owner EXCEPT ![b[p]] = None]
      /\ UNCHANGED <<block, valid, data, refcnt, lru, disk, pinned, b>>
  BY DEF Unlock, At
<1>2. Types /\ b[p] \in Buf
  BY DEF IInv, Types
<1>3. /\ Moves(p, pc[p], "unref") /\ pc' \in [Use -> Labels]
      /\ \A i \in Buf : Users(i)' = Users(i)
  BY <1>1, <1>2, MovesFacts DEF Labels
<1>4. owner'[b[p]] = None /\ \A i \in Buf : i # b[p] => owner'[i] = owner[i]
  BY <1>1, <1>2 DEF Types
<1>5. Types'
  BY <1>1, <1>2, <1>3 DEF Types
<1>6. ListInv' /\ PinInv' /\ RefInv'
  BY <1>1, <1>3 DEF IInv, ListInv, PinInv, RefInv
<1>7. \A q \in Use : pc[q] \in Owns /\ b[q] = b[p] => q = p
  BY <1>1, OneOwner DEF Owns
<1>8. OwnInv'
  BY SMTT(300), <1>1, <1>2, <1>3, <1>4, <1>7, BioAssumption
     DEF IInv, OwnInv, Owns, Moves
<1>9. BlockInv' /\ ValidInv' /\ CleanInv'
  BY SMTT(300), <1>1, <1>3 DEF IInv, BlockInv, ValidInv, CleanInv, Moves, Using
<1> QED
  BY <1>5, <1>6, <1>8, <1>9 DEF IInv

\* A move to the front loses no buffer of the list.
LEMMA FrontKeeps ==
  ASSUME ListInv, NEW j \in Buf, lru' = MoveToFront(j)
  PROVE  ListInv'
<1> DEFINE at == CHOOSE n \in 1..NBUF : lru[n] = j
<1>1. at \in 1..NBUF /\ lru[at] = j
  <2>1. \E n \in 1..NBUF : lru[n] = j
    BY DEF ListInv
  <2> QED
    BY <2>1
<1> HIDE DEF at
<1>2. lru' = [n \in 1..NBUF |-> IF n = 1 THEN j
                               ELSE IF n <= at THEN lru[n - 1] ELSE lru[n]]
  BY DEF MoveToFront, at
<1>3. lru' \in [1..NBUF -> Buf]
  <2>1. \A n \in 1..NBUF : n # 1 => n - 1 \in 1..NBUF
    BY SMTT(300), BioAssumption
  <2>2. \A n \in 1..NBUF : lru[n] \in Buf /\ (n # 1 => lru[n - 1] \in Buf)
    BY <2>1 DEF ListInv
  <2> QED
    BY <1>2, <2>2
<1>4. ASSUME NEW i \in Buf PROVE \E n \in 1..NBUF : lru'[n] = i
  <2>1. PICK m \in 1..NBUF : lru[m] = i
    BY DEF ListInv
  <2>2. CASE m < at
    <3>1. m + 1 \in 1..NBUF /\ lru'[m + 1] = lru[m]
      BY SMTT(300), <1>1, <1>2, <2>2, BioAssumption
    <3> QED
      BY <2>1, <3>1
  <2>3. CASE m = at
    BY SMTT(300), <1>1, <1>2, <2>1, <2>3, BioAssumption
  <2>4. CASE m > at
    BY SMTT(300), <1>1, <1>2, <2>1, <2>4, BioAssumption
  <2> QED
    BY SMTT(300), <1>1, <2>2, <2>3, <2>4
<1> QED
  BY <1>3, <1>4 DEF ListInv

\* The end of brelse() preserves IInv.
LEMMA UnrefInv ==
  ASSUME IInv, NEW p \in Use, Unref(p)
  PROVE  IInv'
<1>1. PICK j \in Buf : b[p] = j
  BY DEF IInv, Types
<1>2. /\ pc[p] = "unref" /\ Goto(p, "idle") /\ b' = [b EXCEPT ![p] = 1]
      /\ refcnt' = [refcnt EXCEPT ![j] = @ - 1]
      /\ lru' = lru \/ lru' = MoveToFront(j)
      /\ UNCHANGED <<block, valid, data, owner, disk, pinned>>
  BY <1>1 DEF Unref, At, Less
<1>3. Types /\ 1 \in Buf
  BY SMTT(300), BioAssumption DEF IInv, Buf
<1>4. /\ pc'[p] = "idle"
      /\ \A q \in Use : q # p => pc'[q] = pc[q] /\ b'[q] = b[q]
  BY <1>2, <1>3 DEF Types, Goto
<1>5. /\ \A i \in Buf : i # j => Users(i)' = Users(i)
      /\ Cardinality(Users(j)) = Cardinality(Users(j)') + 1
      /\ Cardinality(Users(j)') \in Nat
  BY <1>1, <1>2, <1>3, UsersLess
<1>6. refcnt[j] = Cardinality(Users(j)') + 1 + (IF j \in pinned THEN 1 ELSE 0)
  BY <1>5 DEF IInv, RefInv
<1>7. refcnt'[j] = Cardinality(Users(j)') + (IF j \in pinned THEN 1 ELSE 0)
  BY SMTT(300), <1>2, <1>3, <1>5, <1>6 DEF Types
<1>8. \A i \in Buf : i # j => refcnt'[i] = refcnt[i]
  BY <1>2, <1>3 DEF Types
<1>9. RefInv'
  BY <1>2, <1>5, <1>7, <1>8 DEF IInv, RefInv
<1>10. refcnt' \in [Buf -> Nat]
  <2>1. refcnt'[j] \in Nat
    BY SMTT(300), <1>5, <1>7
  <2> QED
    BY <1>2, <1>3, <2>1 DEF Types
<1>11. Types'
  BY <1>2, <1>3, <1>10 DEF Types, Goto, Labels
<1>12. ListInv' /\ PinInv'
  BY <1>2, FrontKeeps DEF IInv, ListInv, PinInv
<1>13. OwnInv' /\ BlockInv' /\ ValidInv' /\ CleanInv'
  BY SMTT(300), <1>2, <1>4
     DEF IInv, OwnInv, BlockInv, ValidInv, CleanInv, Owns, Using
<1> QED
  BY <1>9, <1>11, <1>12, <1>13 DEF IInv

\* Every step of bio.c and of its users preserves IInv.
LEMMA InvNext == IInv /\ [Next]_vars => IInv'
<1> SUFFICES ASSUME IInv, [Next]_vars PROVE IInv'
  OBVIOUS
<1>1. CASE UNCHANGED <<block, valid, data, refcnt, owner, lru, disk, pinned, pc, b>>
  <2>1. \A i \in Buf : Users(i)' = Users(i)
    BY <1>1 DEF Users
  <2>2. Types' /\ ListInv' /\ RefInv' /\ PinInv'
    BY <1>1, <2>1 DEF IInv, Types, ListInv, RefInv, PinInv
  <2>3. OwnInv' /\ BlockInv' /\ ValidInv' /\ CleanInv'
    BY SMTT(300), <1>1 DEF IInv, OwnInv, BlockInv, ValidInv, CleanInv
  <2> QED
    BY <2>2, <2>3 DEF IInv
<1>2. CASE Next
  <2>1. PICK p \in Use :
           \/ \E k \in Block : Hit(p, k) \/ Recycle(p, k) \/ NoBuffers(p, k)
           \/ Lock(p) \/ Read(p) \/ \E v \in Val : Change(p, v)
           \/ bpin(p) \/ bwrite(p) \/ bunpin(p) \/ Unlock(p) \/ Unref(p)
    BY <1>2 DEF Next
  <2>2. CASE \E k \in Block : Hit(p, k) \/ Recycle(p, k)
    BY <2>2, HitInv, RecycleInv
  <2>3. CASE \E k \in Block : NoBuffers(p, k)
    BY <1>1, <2>3 DEF NoBuffers, bufs
  <2>4. CASE Lock(p) \/ Read(p) \/ \E v \in Val : Change(p, v)
    BY <2>4, LockInv, ReadInv, ChangeInv
  <2>5. CASE bpin(p) \/ bwrite(p) \/ bunpin(p)
    BY <2>5, PinStepInv, WriteInv, UnpinInv
  <2>6. CASE Unlock(p) \/ Unref(p)
    BY <2>6, UnlockInv, UnrefInv
  <2> QED
    BY <2>1, <2>2, <2>3, <2>4, <2>5, <2>6
<1>3. CASE UNCHANGED vars
  BY <1>1, <1>3 DEF vars, bufs
<1> QED
  BY <1>2, <1>3

\* A step of bget(), brelse() or the log's pins needs bcache.lock, which the panic
\* keeps: after it no reference is counted any more.
LEMMA FullNext == FullInv /\ [Next]_vars => FullInv'
<1> SUFFICES ASSUME FullInv, [Next]_vars PROVE FullInv'
  OBVIOUS
<1>1. CASE panicked = None /\ panicked' = None
  BY <1>1 DEF FullInv
<1>2. CASE UNCHANGED <<refcnt, panicked>>
  BY <1>2 DEF FullInv
<1>3. ASSUME NEW p \in Use, NEW k \in Block, NoBuffers(p, k) PROVE FullInv'
  BY <1>3 DEF NoBuffers, FullInv, Unused, bufs
<1>4. ASSUME NEW p \in Use,
             \/ \E k \in Block : Hit(p, k) \/ Recycle(p, k)
             \/ bpin(p) \/ bunpin(p) \/ Unref(p)
      PROVE  FullInv'
  BY <1>1, <1>4 DEF Hit, Recycle, bpin, bunpin, Unref, Bcache
<1>5. ASSUME NEW p \in Use,
             \/ Lock(p) \/ Read(p) \/ \E v \in Val : Change(p, v)
             \/ bwrite(p) \/ Unlock(p)
      PROVE  FullInv'
  BY <1>2, <1>5 DEF Lock, Read, Change, bwrite, Unlock, bufs
<1>6. CASE UNCHANGED vars
  BY <1>2, <1>6 DEF vars, bufs
<1> QED
  BY <1>3, <1>4, <1>5, <1>6 DEF Next

\* Counts, owners, blocks, validity and cleanliness stay as IInv says, and a panic
\* leaves the counts as FullInv says.
THEOREM BioInvariant == Spec => [](IInv /\ FullInv)
<1>1. Init => FullInv
  BY DEF Init, FullInv
<1> QED
  BY <1>1, InvInit, InvNext, FullNext, PTL DEF Spec

-----------------------------------------------------------------------------
(* What follows                                                            *)

\* Every field of a buffer has its type, the reference count its bound, and the
\* list holds each buffer, after any number of moves to the front.
THEOREM BioTypes == Spec => []TypeOK
<1>1. IInv /\ FullInv => TypeOK
  <2> SUFFICES ASSUME IInv, FullInv PROVE TypeOK
    OBVIOUS
  <2>1. Types /\ ListInv /\ RefInv
    BY DEF IInv
  <2>2. \A i \in Buf : refcnt[i] \in 0..Cardinality(Use) + 1
    <3>1. Cardinality(Use) \in Nat
      BY BioAssumption, FS_CardinalityType
    <3>2. \A i \in Buf : /\ Cardinality(Users(i)) \in Nat
                         /\ Cardinality(Users(i)) <= Cardinality(Use)
      BY <2>1, Counts
    <3> QED
      BY SMTT(300), <2>1, <3>1, <3>2 DEF RefInv
  <2>3. refcnt \in [Buf -> 0..Cardinality(Use) + 1]
    BY <2>1, <2>2 DEF Types
  <2> QED
    BY <2>1, <2>3 DEF Types, ListInv, FullInv, TypeOK, Labels
<1> QED
  BY <1>1, BioInvariant, PTL

\* bget() in bio.c: panic("bget: no buffers") means that every buffer is pinned by the
\* log or has a user that has not given it back; no reference outlives its use or pin,
\* and the scan of the list, whatever its order, misses no buffer.
THEOREM PanicsOnlyFull == Spec => []PanicOnlyFull
<1>1. IInv /\ FullInv => PanicOnlyFull
  <2> SUFFICES ASSUME IInv, FullInv, panicked # None, NEW i \in Buf, i \notin pinned
               PROVE  \E p \in Use : ~At(p, "idle") /\ b[p] = i
    BY DEF PanicOnlyFull
  <2>1. refcnt[i] # 0
    BY DEF FullInv
  <2>2. Users(i) # {}
    <3>1. Users(i) = {} => Cardinality(Users(i)) = 0
      BY FS_EmptySet
    <3> QED
      BY SMTT(300), <2>1, <3>1 DEF IInv, RefInv
  <2> QED
    BY <2>2 DEF Users, At
<1> QED
  BY <1>1, BioInvariant, PTL

-----------------------------------------------------------------------------
(* The cache implements an array of blocks                                 *)

\* The one member of a set is chosen.
LEMMA ChooseOne ==
  /\ \A x : (CHOOSE y \in {x} : TRUE) = x
  /\ \A S : S # {} => (CHOOSE y \in S : TRUE) \in S
OBVIOUS

\* The buffer of a block is the only one that can be filled with it.
LEMMA FilledOne ==
  ASSUME IInv, NEW i \in Buf, block[i] # None
  PROVE  Filled(block[i]) = IF valid[i] THEN {i} ELSE {}
<1>1. \A m \in Buf : block[m] = block[i] => m = i
  BY DEF IInv, BlockInv
<1> QED
  BY <1>1 DEF Filled, Cached

\* The users of a block are the ones that hold it.
LEMMA HoldersOne ==
  ASSUME IInv, NEW p \in Use, pc[p] \in Using
  PROVE  Holders(block[b[p]]) = {p}
<1>1. \A q \in Use : pc[q] \in Using /\ block[b[q]] = block[b[p]] => q = p
  BY OneOwner DEF Using, Owns
<1> QED
  BY <1>1 DEF Holders, Using

\* A step that leaves the buffers' blocks and what is read of them as they were
\* changes no content.
LEMMA ContentSame ==
  ASSUME UNCHANGED <<block, valid, data, disk>>
  PROVE  \A k \in Block : Content(k)' = Content(k)
BY SMTT(300) DEF Content, Filled, Cached

\* A step in which nobody gets or puts a buffer with a block changes no user.
LEMMA UserSame ==
  ASSUME NEW p \in Use, pc[p] \in Using <=> pc'[p] \in Using,
         block' = block,  pc[p] \in Using => b'[p] = b[p],
         \A q \in Use : q # p => pc'[q] = pc[q] /\ b'[q] = b[q]
  PROVE  \A k \in Block : User(k)' = User(k)
<1> TAKE k \in Block
<1>1. Holders(k)' = Holders(k)
  BY DEF Holders, Using
<1> QED
  BY SMTT(300), <1>1 DEF User

\* What the abstract specification sees of a step.
Same ==
  \A k \in Block : Content(k)' = Content(k) /\ User(k)' = User(k)
Gets(p, k) ==
  /\ \A m \in Block : Content(m)' = Content(m)
  /\ User(k) = None /\ User(k)' = p
  /\ \A m \in Block \ {k} : User(m)' = User(m)
Sets(p, k) ==
  /\ User(k) = p /\ Content(k)' \in Val
  /\ \A m \in Block \ {k} : Content(m)' = Content(m)
  /\ \A m \in Block : User(m)' = User(m)
Puts(p, k) ==
  /\ \A m \in Block : Content(m)' = Content(m)
  /\ User(k) = p /\ User(k)' = None
  /\ \A m \in Block \ {k} : User(m)' = User(m)

\* bget() of a cached block, and the sleep lock, show nothing; nor do the log's
\* pins, nor the end of brelse().
LEMMA QuietSame ==
  ASSUME IInv, NEW p \in Use,
         \/ \E k \in Block : Hit(p, k)
         \/ Lock(p) \/ bpin(p) \/ bunpin(p) \/ Unref(p)
  PROVE  Same
<1>1. UNCHANGED <<block, valid, data, disk>>
  BY DEF Hit, Lock, bpin, bunpin, Unref
<1>2. \/ /\ pc[p] \in {"idle", "lock", "unref"}
         /\ \E l \in {"lock", "got", "idle"} : Goto(p, l)
      \/ pc[p] \in {"changed", "written"} /\ Goto(p, "held")
  BY DEF Hit, Lock, bpin, bunpin, Unref, At
<1>3. \/ b' = b \/ (pc[p] \in {"idle", "unref"} /\ \E j : b' = [b EXCEPT ![p] = j])
  BY DEF Hit, Lock, bpin, bunpin, Unref, At
<1>4. Types
  BY DEF IInv
<1>5. /\ pc[p] \in Using <=> pc'[p] \in Using
      /\ pc[p] \in Using => b'[p] = b[p]
      /\ \A q \in Use : q # p => pc'[q] = pc[q] /\ b'[q] = b[q]
  BY <1>2, <1>3, <1>4 DEF Types, Goto, Using
<1> QED
  BY <1>1, <1>5, ContentSame, UserSame DEF Same

\* Recycling a buffer shows nothing: what it held is on the disk.
LEMMA RecycleSame ==
  ASSUME IInv, NEW p \in Use, NEW k \in Block, Recycle(p, k)
  PROVE  Same
<1>1. PICK j \in Buf : /\ refcnt[j] = 0
                       /\ block' = [block EXCEPT ![j] = k]
                       /\ valid' = [valid EXCEPT ![j] = FALSE]
                       /\ b' = [b EXCEPT ![p] = j]
  BY DEF Recycle, Unused
<1>2. /\ pc[p] = "idle" /\ Goto(p, "lock") /\ data' = data /\ disk' = disk
      /\ \A i \in Buf : block[i] # k
  BY DEF Recycle, At, Cached
<1>3. Types
  BY DEF IInv
<1>4. /\ j \notin pinned
      /\ \A q \in Use : pc[q] # "idle" => b[q] # j
  BY <1>1, UnusedFree
<1>5. /\ pc'[p] = "lock" /\ \A q \in Use : q # p => pc'[q] = pc[q] /\ b'[q] = b[q]
      /\ \A i \in Buf : i # j => block'[i] = block[i] /\ valid'[i] = valid[i]
      /\ ~valid'[j]
  BY <1>1, <1>2, <1>3 DEF Types, Goto
<1>6. \A m \in Block : Holders(m)' = Holders(m)
  <2>1. \A q \in Use : pc[q] # "idle" /\ q # p => block'[b'[q]] = block[b[q]]
    BY <1>3, <1>4, <1>5 DEF Types
  <2> QED
    BY SMTT(300), <1>2, <1>5, <2>1 DEF Holders
<1>7. \A m \in Block : Filled(m)' = Filled(m) \ {j}
  BY <1>2, <1>5 DEF Filled, Cached
<1>8. ASSUME NEW m \in Block PROVE Content(m)' = Content(m)
  <2>1. CASE j \in Filled(m)
    <3>1. block[j] = m /\ valid[j] /\ m # None
      BY <2>1, BioAssumption DEF Filled, Cached
    <3>2. data[j] = disk[m]
      BY <1>4, <3>1 DEF IInv, CleanInv
    <3>3. Filled(m) = {j} /\ Filled(m)' = {}
      BY <1>7, <3>1, FilledOne
    <3> QED
      BY <1>2, <3>2, <3>3, ChooseOne DEF Content
  <2>2. CASE j \notin Filled(m)
    <3>1. Filled(m)' = Filled(m)
      BY <1>7, <2>2
    <3> QED
      BY SMTT(300), <1>2, <3>1 DEF Content
  <2> QED
    BY <2>1, <2>2
<1>9. ASSUME NEW m \in Block PROVE User(m)' = User(m)
  <2>1. Holders(m)' = Holders(m)
    BY <1>6
  <2> QED
    BY SMTT(300), <2>1 DEF User
<1> QED
  BY <1>8, <1>9 DEF Same

\* bread() gets the block for its caller, who is the only one; what it reads is the
\* content of the block.
LEMMA ReadGets ==
  ASSUME IInv, NEW p \in Use, Read(p)
  PROVE  \E k \in Block : Gets(p, k)
<1>1. PICK j \in Buf, k \in Block : b[p] = j /\ block[j] = k
  BY DEF Read, At, IInv, Types, BlockInv
<1>2. /\ pc[p] = "got" /\ Goto(p, "held") /\ data' = [data EXCEPT ![j] = Fill(j)]
      /\ valid' = [valid EXCEPT ![j] = TRUE] /\ block' = block /\ disk' = disk /\ b' = b
  BY <1>1 DEF Read, At
<1>3. Types /\ k # None
  BY BioAssumption DEF IInv
<1>4. /\ pc'[p] = "held" /\ \A q \in Use : q # p => pc'[q] = pc[q]
      /\ data'[j] = Fill(j) /\ valid'[j]
      /\ \A i \in Buf : i # j => data'[i] = data[i] /\ valid'[i] = valid[i]
  BY <1>2, <1>3 DEF Types, Goto
<1>5. \A q \in Use : pc[q] \in Owns /\ block[b[q]] = k => q = p
  BY <1>1, <1>2, OneOwner DEF Owns
<1>6. Holders(k) = {} /\ Holders(k)' = {p}
  BY SMTT(300), <1>1, <1>2, <1>4, <1>5 DEF Holders, Owns
<1>7. User(k) = None /\ User(k)' = p
  BY <1>6, ChooseOne DEF User
<1>8. ASSUME NEW m \in Block \ {k} PROVE User(m)' = User(m)
  <2>1. Holders(m)' = Holders(m)
    BY <1>1, <1>2, <1>4 DEF Holders
  <2> QED
    BY SMTT(300), <2>1 DEF User
<1>9. Content(k)' = Content(k)
  <2>1. Filled(k) = IF valid[j] THEN {j} ELSE {}
    BY <1>1, <1>3, FilledOne
  <2>2. Filled(k)' = {j}
    <3>1. \A i \in Buf : block[i] = k => i = j
      BY <1>1, <1>3 DEF IInv, BlockInv
    <3> QED
      BY <1>1, <1>2, <1>4, <3>1 DEF Filled, Cached
  <2>3. Content(k)' = Fill(j)
    BY <1>4, <2>2, ChooseOne DEF Content
  <2>4. Content(k) = Fill(j)
    BY SMTT(300), <1>1, <2>1, ChooseOne DEF Content, Fill
  <2> QED
    BY <2>3, <2>4
<1>10. ASSUME NEW m \in Block \ {k} PROVE Content(m)' = Content(m)
  <2>1. Filled(m)' = Filled(m) /\ j \notin Filled(m) /\ Filled(m) \subseteq Buf
    BY SMTT(300), <1>1, <1>2, <1>4 DEF Filled, Cached
  <2>2. Filled(m) # {} => (CHOOSE i \in Filled(m) : TRUE) \in Filled(m)
    BY ChooseOne
  <2>3. Filled(m) # {} => data'[CHOOSE i \in Filled(m) : TRUE]
                          = data[CHOOSE i \in Filled(m) : TRUE]
    BY <1>4, <2>1, <2>2
  <2> QED
    BY <1>2, <2>1, <2>3 DEF Content
<1> QED
  BY <1>7, <1>8, <1>9, <1>10 DEF Gets

\* A change of a block in its buffer changes the content of that block.
LEMMA ChangeSets ==
  ASSUME IInv, NEW p \in Use, NEW v \in Val, Change(p, v)
  PROVE  \E k \in Block : Sets(p, k)
<1>1. PICK j \in Buf, k \in Block : b[p] = j /\ block[j] = k
  BY DEF Change, At, IInv, Types, BlockInv
<1>2. /\ pc[p] = "held" /\ Goto(p, "changed") /\ data' = [data EXCEPT ![j] = v]
      /\ UNCHANGED <<block, valid, disk, b>>
  BY <1>1 DEF Change, At
<1>3. Types /\ k # None /\ valid[j]
  BY <1>1, <1>2, BioAssumption DEF IInv, ValidInv, Using
<1>4. /\ pc'[p] = "changed" /\ \A q \in Use : q # p => pc'[q] = pc[q]
      /\ data'[j] = v /\ \A i \in Buf : i # j => data'[i] = data[i]
  BY <1>2, <1>3 DEF Types, Goto
<1>5. User(k) = p
  BY SMTT(300), <1>1, <1>2, HoldersOne, ChooseOne DEF User, Using
<1>6. \A m \in Block : User(m)' = User(m)
  BY <1>2, <1>4, UserSame DEF Using
<1>7. \A m \in Block : Filled(m)' = Filled(m)
  BY <1>2 DEF Filled, Cached
<1>8. Content(k)' = v
  <2>1. Filled(k)' = {j}
    BY <1>1, <1>3, <1>7, FilledOne
  <2> QED
    BY <1>4, <2>1, ChooseOne DEF Content
<1>9. ASSUME NEW m \in Block \ {k} PROVE Content(m)' = Content(m)
  <2>1. Filled(m)' = Filled(m) /\ j \notin Filled(m) /\ Filled(m) \subseteq Buf
    BY <1>1, <1>7 DEF Filled, Cached
  <2>2. Filled(m) # {} => (CHOOSE i \in Filled(m) : TRUE) \in Filled(m)
    BY ChooseOne
  <2>3. Filled(m) # {} => data'[CHOOSE i \in Filled(m) : TRUE]
                          = data[CHOOSE i \in Filled(m) : TRUE]
    BY <1>4, <2>1, <2>2
  <2> QED
    BY <1>2, <2>1, <2>3 DEF Content
<1> QED
  BY <1>5, <1>6, <1>8, <1>9 DEF Sets

\* brelse() puts the block back.
LEMMA UnlockPuts ==
  ASSUME IInv, NEW p \in Use, Unlock(p)
  PROVE  \E k \in Block : Puts(p, k)
<1>1. PICK k \in Block : block[b[p]] = k
  BY DEF Unlock, IInv, Types, BlockInv
<1>2. /\ pc[p] \in Using /\ Goto(p, "unref") /\ UNCHANGED <<block, valid, data, disk, b>>
  BY DEF Unlock, Using
<1>3. pc'[p] = "unref" /\ \A q \in Use : q # p => pc'[q] = pc[q]
  BY <1>2 DEF IInv, Types, Goto
<1>4. Holders(k) = {p}
  BY <1>1, <1>2, HoldersOne
<1>5. Holders(k)' = {}
  BY <1>2, <1>3, <1>4 DEF Holders
<1>6. User(k) = p /\ User(k)' = None
  BY <1>4, <1>5, ChooseOne DEF User
<1>7. ASSUME NEW m \in Block \ {k} PROVE User(m)' = User(m)
  <2>1. Holders(m)' = Holders(m)
    BY <1>1, <1>2, <1>3 DEF Holders
  <2> QED
    BY SMTT(300), <2>1 DEF User
<1>8. \A m \in Block : Content(m)' = Content(m)
  BY <1>2, ContentSame
<1> QED
  BY <1>6, <1>7, <1>8 DEF Puts

\* bwrite() shows nothing: the block's content was in its buffer before and is after.
LEMMA WriteSame ==
  ASSUME IInv, NEW p \in Use, bwrite(p)
  PROVE  Same
<1>1. PICK j \in Buf, k \in Block : b[p] = j /\ block[j] = k
  BY DEF bwrite, At, IInv, Types, BlockInv
<1>2. /\ pc[p] \in Using /\ Goto(p, "written") /\ disk' = [disk EXCEPT ![k] = data[j]]
      /\ UNCHANGED <<block, valid, data, b>>
  BY <1>1 DEF bwrite, At, Using, bufs
<1>3. Types /\ valid[j]
  BY <1>1, <1>2 DEF IInv, ValidInv
<1>4. /\ pc'[p] = "written" /\ \A q \in Use : q # p => pc'[q] = pc[q]
      /\ \A m \in Block : m # k => disk'[m] = disk[m]
  BY <1>2, <1>3 DEF Types, Goto
<1>5. \A m \in Block : User(m)' = User(m)
  BY <1>2, <1>4, UserSame DEF Using
<1>6. ASSUME NEW m \in Block PROVE Content(m)' = Content(m)
  <2>1. Filled(m)' = Filled(m)
    BY <1>2 DEF Filled, Cached
  <2>2. m = k => j \in Filled(m)
    BY <1>1, <1>3 DEF Filled, Cached
  <2> QED
    BY SMTT(300), <1>2, <1>4, <2>1, <2>2 DEF Content
<1> QED
  BY <1>5, <1>6 DEF Same

\* Every step of the cache is a step of the array of blocks, or shows nothing.
LEMMA StepShows ==
  ASSUME IInv, [Next]_vars
  PROVE  Same \/ \E p \in Use, k \in Block : Gets(p, k) \/ Sets(p, k) \/ Puts(p, k)
<1>1. CASE UNCHANGED <<block, valid, data, disk, pc, b>>
  <2>1. ASSUME NEW k \in Block PROVE User(k)' = User(k)
    <3>1. Holders(k)' = Holders(k)
      BY <1>1 DEF Holders
    <3> QED
      BY SMTT(300), <3>1 DEF User
  <2> QED
    BY <1>1, <2>1, ContentSame DEF Same
<1>2. CASE Next
  <2>1. PICK p \in Use :
           \/ \E k \in Block : Hit(p, k) \/ Recycle(p, k) \/ NoBuffers(p, k)
           \/ Lock(p) \/ Read(p) \/ \E v \in Val : Change(p, v)
           \/ bpin(p) \/ bwrite(p) \/ bunpin(p) \/ Unlock(p) \/ Unref(p)
    BY <1>2 DEF Next
  <2>2. CASE \/ \E k \in Block : Hit(p, k)
             \/ Lock(p) \/ bpin(p) \/ bunpin(p) \/ Unref(p)
    BY <2>2, QuietSame
  <2>3. CASE \E k \in Block : NoBuffers(p, k)
    BY <1>1, <2>3 DEF NoBuffers, bufs
  <2>4. CASE (\E k \in Block : Recycle(p, k)) \/ bwrite(p)
    BY <2>4, RecycleSame, WriteSame
  <2>5. CASE Read(p) \/ (\E v \in Val : Change(p, v)) \/ Unlock(p)
    BY <2>5, ReadGets, ChangeSets, UnlockPuts
  <2> QED
    BY <2>1, <2>2, <2>3, <2>4, <2>5
<1>3. CASE UNCHANGED vars
  BY <1>1, <1>3 DEF vars, bufs
<1> QED
  BY <1>2, <1>3

\* At boot every block is what the disk has, and nobody uses it.
LEMMA AbsInit == Init => Abs!Init
<1> SUFFICES ASSUME Init PROVE Abs!Init
  OBVIOUS
<1>1. \A k \in Block : Filled(k) = {} /\ Holders(k) = {}
  BY BioAssumption DEF Init, Filled, Cached, Holders
<1>2. \A k \in Block : Content(k) = disk[k] /\ User(k) = None
  BY <1>1 DEF Content, User
<1>3. disk \in [Block -> Val]
  BY DEF Init
<1> HIDE DEF Content, User
<1> QED
  BY <1>2, <1>3 DEF Abs!Init

\* Every step of the cache is a step of BioAbs.
LEMMA AbsNext == IInv /\ [Next]_vars => [Abs!Next]_(Abs!vars)
<1> SUFFICES ASSUME IInv, [Next]_vars PROVE [Abs!Next]_(Abs!vars)
  OBVIOUS
<1>1. CASE Same
  BY <1>1 DEF Same, Abs!vars
<1>2. ASSUME NEW p \in Use, NEW k \in Block, Gets(p, k) PROVE Abs!Get(p, k)
  BY <1>2 DEF Gets, Abs!Get
<1>3. ASSUME NEW p \in Use, NEW k \in Block, Sets(p, k) PROVE Abs!Set(p, k)
  BY <1>3 DEF Sets, Abs!Set
<1>4. ASSUME NEW p \in Use, NEW k \in Block, Puts(p, k) PROVE Abs!Put(p, k)
  BY <1>4 DEF Puts, Abs!Put
<1> QED
  BY <1>1, <1>2, <1>3, <1>4, StepShows DEF Abs!Next

\* bio.c: whichever buffers it moves the blocks through, the cache is one copy of
\* every block, used once at a time; a changed block is never dropped, or read from
\* the disk, before it is written home.
THEOREM BioIsBlocks == Spec => ImplementsBlocks
<1> QED
  BY BioInvariant, AbsInit, AbsNext, PTL DEF Spec, ImplementsBlocks, Abs!Spec
=============================================================================
