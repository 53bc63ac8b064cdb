----------------------------- MODULE PipeProofs -----------------------------
(***************************************************************************)
(* Proofs about kernel/pipe.c for every number of writers and readers,     *)
(* every capacity and every length of read() and write(): the inductive    *)
(* invariant IInv, no lost wakeup, no use after pipeclose() frees the page *)
(* and the implementation of a bounded queue (PipeAbs).                    *)
(*                                                                         *)
(* A step is described by the move of one process, and the frame lemmas    *)
(* say which part of IInv such a move cannot disturb; what remains is one  *)
(* lemma for each action.  The leaves are for Zenon, but for those that    *)
(* name the SMT solver.                                                    *)
(***************************************************************************)
EXTENDS Pipe, SequenceTheorems, TLAPS

USE ZenonT(120)

\* Places at which a process holds pi->lock.
Critical == {"loop", "full", "rwait", "empty", "copy"}

\* pi->lock is held by the one process that is at such a place.
LockInv == \A p \in Proc : lock = p <=> pc[p] \in Critical

\* Writers run pipewrite() and readers piperead().
RoleInv ==
  /\ \A w \in Writer : pc[w] \notin {"rwait", "empty", "rsleep", "copy"}
  /\ \A r \in Reader : pc[r] \notin {"loop", "full", "wsleep"}

\* Never more than PIPESIZE bytes, across the wrap-around of the counters.
RingInv == Count <= PIPESIZE

\* A process has given up its file exactly when it is in or past pipeclose().
FdInv == \A p \in Proc : fdopen[p] = 0 <=> pc[p] \in {"close", "free", "closed"}

\* One closer for each end, the last of its peers; and one of the two, which
\* finds the other end closed, frees the page.
CloseInv ==
  /\ \A p \in Proc : pc[p] = "close" => \A x \in Peers(p) \ {p} : pc[x] = "closed"
  /\ writeopen = 0 => \A w \in Writer : pc[w] \in {"closed", "free"}
  /\ readopen = 0 => \A r \in Reader : pc[r] \in {"closed", "free"}
  /\ \A p \in Proc : pc[p] = "free" =>
       /\ readopen = 0 /\ writeopen = 0 /\ freed = 0
       /\ \A x \in Proc \ {p} : pc[x] = "closed"
  /\ freed = 1 => \A p \in Proc : pc[p] = "closed"

\* A writer sleeps, or is about to, while the ring is full; or a reader has made
\* room and holds pi->lock until its wakeup(&pi->nwrite).
WriterInv ==
  \A w \in Writer :
    /\ pc[w] = "full" => Full /\ readopen = 1
    /\ pc[w] = "wsleep" => readopen = 1 /\ (Full \/ \E r \in Reader : pc[r] = "copy")

\* A reader sleeps, or is about to, while the ring is empty; or a writer has put
\* bytes in and holds pi->lock until its wakeup(&pi->nread), which it leaves out
\* only if it was killed.
ReaderInv ==
  \A r \in Reader :
    /\ pc[r] = "empty" => Empty /\ writeopen = 1
    /\ pc[r] = "rsleep" =>
         /\ writeopen = 1
         /\ \/ Empty \/ torn = 1
            \/ \E w \in Writer : pc[w] \in {"loop", "full"} /\ i[w] > 0

IInv ==
  /\ TypeOK /\ LockInv /\ RoleInv /\ RingInv /\ FdInv /\ CloseInv
  /\ WriterInv /\ ReaderInv

-----------------------------------------------------------------------------
(* Unsigned arithmetic of the counters                                     *)

\* One more, with the wrap-around.
LEMMA IncIs ==
  ASSUME NEW x \in 0..(UMOD - 1)
  PROVE  (x + 1) % UMOD = IF x + 1 = UMOD THEN 0 ELSE x + 1
BY SMTT(300), PipeAssumption

\* nread + PIPESIZE, with the wrap-around.
LEMMA FullIs ==
  ASSUME NEW x \in 0..(UMOD - 1)
  PROVE  (x + PIPESIZE) % UMOD = IF x + PIPESIZE < UMOD THEN x + PIPESIZE
                                 ELSE x + PIPESIZE - UMOD
BY SMTT(300), PipeAssumption

\* nwrite - nread, with the wrap-around.
LEMMA DiffIs ==
  ASSUME NEW x \in 0..(UMOD - 1), NEW y \in 0..(UMOD - 1)
  PROVE  (y - x) % UMOD = IF x <= y THEN y - x ELSE y - x + UMOD
BY SMTT(300), PipeAssumption

\* The tests of pipewrite() and piperead() are tests of the number of bytes.
LEMMA CountFacts ==
  ASSUME TypeOK
  PROVE  /\ Count \in 0..(UMOD - 1)
         /\ Full <=> Count = PIPESIZE
         /\ Empty <=> Count = 0
<1>1. nread \in 0..(UMOD - 1) /\ nwrite \in 0..(UMOD - 1)
  BY DEF TypeOK
<1>2. Count = IF nread <= nwrite THEN nwrite - nread ELSE nwrite - nread + UMOD
  BY <1>1, DiffIs DEF Count
<1>3. Full <=> nwrite = IF nread + PIPESIZE < UMOD THEN nread + PIPESIZE
                        ELSE nread + PIPESIZE - UMOD
  BY <1>1, FullIs DEF Full
<1> QED
  BY SMTT(300), <1>1, <1>2, <1>3, PipeAssumption DEF Empty

\* A byte written is one more, a byte read is one less.
LEMMA CountSteps ==
  ASSUME TypeOK, Count <= PIPESIZE
  PROVE  /\ nread' = nread /\ nwrite' = (nwrite + 1) % UMOD /\ ~Full
              => Count' = Count + 1 /\ Count' <= PIPESIZE
         /\ nwrite' = nwrite /\ nread' = (nread + 1) % UMOD /\ ~Empty
              => Count' = Count - 1 /\ Count' <= PIPESIZE
<1>1. nread \in 0..(UMOD - 1) /\ nwrite \in 0..(UMOD - 1)
  BY DEF TypeOK
<1>2. Count = IF nread <= nwrite THEN nwrite - nread ELSE nwrite - nread + UMOD
  BY <1>1, DiffIs DEF Count
<1>3. Count # PIPESIZE <=> ~Full
  BY CountFacts
<1>4. ASSUME nread' = nread, nwrite' = (nwrite + 1) % UMOD, ~Full
      PROVE  Count' = Count + 1 /\ Count' <= PIPESIZE
  <2>1. nwrite' = IF nwrite + 1 = UMOD THEN 0 ELSE nwrite + 1
    BY <1>1, <1>4, IncIs
  <2>2. nwrite' \in 0..(UMOD - 1)
    BY SMTT(300), <1>1, <2>1, PipeAssumption
  <2>3. Count' = IF nread <= nwrite' THEN nwrite' - nread ELSE nwrite' - nread + UMOD
    BY <1>1, <1>4, <2>2, DiffIs DEF Count
  <2> QED
    BY SMTT(300), <1>1, <1>2, <1>3, <1>4, <2>1, <2>3, PipeAssumption
<1>5. ASSUME nwrite' = nwrite, nread' = (nread + 1) % UMOD, ~Empty
      PROVE  Count' = Count - 1 /\ Count' <= PIPESIZE
  <2>1. nread' = IF nread + 1 = UMOD THEN 0 ELSE nread + 1
    BY <1>1, <1>5, IncIs
  <2>2. nread' \in 0..(UMOD - 1)
    BY SMTT(300), <1>1, <2>1, PipeAssumption
  <2>3. Count' = IF nread' <= nwrite THEN nwrite - nread' ELSE nwrite - nread' + UMOD
    BY <1>1, <1>5, <2>2, DiffIs DEF Count
  <2> QED
    BY SMTT(300), <1>1, <1>2, <1>5, <2>1, <2>3, PipeAssumption DEF Empty
<1> QED
  BY <1>4, <1>5

\* Quotient and remainder.
LEMMA DivMod ==
  ASSUME NEW x \in Int, NEW p \in Nat \ {0}
  PROVE  \E a \in Int, r \in 0..(p - 1) : x = p * a + r /\ x % p = r
<1>1. PICK r \in Int : r = x % p
  BY SMTT(300)
<1>2. PICK a \in Int : a = x \div p
  BY SMTT(300)
<1>3. x = p * a + r
  BY SMTT(300), <1>1, <1>2
<1>4. r \in 0..(p - 1)
  BY SMTT(300), <1>1
<1> QED
  BY <1>1, <1>3, <1>4

\* Less than a turn is no whole number of turns.
LEMMA NoTurn ==
  ASSUME NEW p \in Nat \ {0}, NEW d \in 1..(p - 1), NEW k \in Int
  PROVE  d # p * k
<1>1. CASE k <= 0
  BY SMTT(300), <1>1
<1>2. CASE k >= 1
  BY SMTT(300), <1>2
<1> QED
  BY SMTT(300), <1>1, <1>2

\* UMOD is a multiple of PIPESIZE: the wrap-around of a counter does not move it
\* in the ring.
LEMMA RingPeriod ==
  ASSUME NEW x \in Int
  PROVE  (x - UMOD) % PIPESIZE = x % PIPESIZE
<1>1. PIPESIZE \in Nat \ {0} /\ UMOD \in Int /\ UMOD % PIPESIZE = 0
  BY SMTT(300), PipeAssumption
<1>2. PICK m \in Int, s \in 0..(PIPESIZE - 1) : UMOD = PIPESIZE * m + s /\ UMOD % PIPESIZE = s
  BY <1>1, DivMod
<1>3. PICK a \in Int, r \in 0..(PIPESIZE - 1) : x = PIPESIZE * a + r /\ x % PIPESIZE = r
  BY <1>1, DivMod
<1>4. UMOD = PIPESIZE * m + s /\ x = PIPESIZE * a + r /\ s = 0
  BY <1>1, <1>2, <1>3
<1>5. PICK y \in Int, k \in Int : y = x - UMOD /\ k = a - m
  BY SMTT(300), <1>1
<1>6. y = PIPESIZE * k + r
  BY SMTT(300), <1>1, <1>4, <1>5
<1>7. y % PIPESIZE = r
  BY SMTT(300), <1>1, <1>6
<1> QED
  BY <1>3, <1>5, <1>7

\* Bytes less than PIPESIZE apart are at different places of the ring.
LEMMA RingDistinct ==
  ASSUME NEW x \in Int, NEW d \in 1..(PIPESIZE - 1)
  PROVE  (x + d) % PIPESIZE # x % PIPESIZE
<1>1. PIPESIZE \in Nat \ {0} /\ PIPESIZE \in Int /\ x + d \in Int
  BY SMTT(300), PipeAssumption
<1> SUFFICES ASSUME (x + d) % PIPESIZE = x % PIPESIZE PROVE FALSE
  OBVIOUS
<1>2. PICK a \in Int, r \in 0..(PIPESIZE - 1) : x = PIPESIZE * a + r /\ x % PIPESIZE = r
  BY <1>1, DivMod
<1>3. PICK e \in Int, s \in 0..(PIPESIZE - 1) :
         x + d = PIPESIZE * e + s /\ (x + d) % PIPESIZE = s
  BY <1>1, DivMod
<1>4. s = r
  BY <1>2, <1>3
<1>5. x = PIPESIZE * a + r /\ x + d = PIPESIZE * e + r
  BY <1>2, <1>3, <1>4
<1>6. PICK k \in Int : k = e - a
  BY SMTT(300)
<1>7. d = PIPESIZE * k
  BY SMTT(300), <1>1, <1>5, <1>6
<1> QED
  BY <1>1, <1>7, NoTurn
-----------------------------------------------------------------------------
(* What a step leaves alone                                                *)

Gone == {"close", "free", "closed"}

\* Process p goes from a to l; a wakeup may send sleepers back to pi->lock.
Moves(p, a, l) ==
  /\ pc[p] = a /\ pc'[p] = l
  /\ \A x \in Proc \ {p} :
       pc'[x] = pc[x] \/ (pc[x] \in {"wsleep", "rsleep"} /\ pc'[x] = "enter")

\* Nobody is a process and no process is both a writer and a reader.
LEMMA ProcFacts ==
  /\ None \notin Proc
  /\ \A w \in Writer : w \in Proc /\ w \notin Reader
  /\ \A r \in Reader : r \in Proc /\ r \notin Writer
  /\ \A p \in Proc : p \in Writer \/ p \in Reader
BY PipeAssumption DEF Proc

\* pi->lock is exclusive: who is at such a place is the holder.
LEMMA HolderIs ==
  ASSUME LockInv, NEW p \in Proc, NEW x \in Proc, pc[p] \in Critical, pc[x] \in Critical
  PROVE  x = p
BY DEF LockInv

\* Nobody is at such a place while pi->lock is free.
LEMMA NobodyIn ==
  ASSUME LockInv, lock = None, NEW x \in Proc
  PROVE  pc[x] \notin Critical
BY ProcFacts DEF LockInv

\* acquire() and release() of pi->lock go with the places where it is held.
LEMMA LockFrame ==
  ASSUME LockInv, NEW p \in Proc, NEW a, NEW l, Moves(p, a, l),
         a \notin Critical /\ l \in Critical => lock = None,
         lock' = IF l \in Critical THEN p ELSE IF a \in Critical THEN None ELSE lock
  PROVE  LockInv'
<1> SUFFICES ASSUME NEW x \in Proc PROVE lock' = x <=> pc'[x] \in Critical
  BY DEF LockInv, Critical
<1>1. lock = x <=> pc[x] \in Critical
  BY DEF LockInv
<1>2. lock = p <=> a \in Critical
  BY DEF LockInv, Moves
<1>3. x # None /\ p # None
  BY ProcFacts
<1>4. CASE x = p
  BY <1>2, <1>3, <1>4 DEF Moves
<1>5. CASE x # p
  <2>1. pc'[x] \in Critical <=> pc[x] \in Critical
    BY <1>5 DEF Moves, Critical
  <2> QED
    BY <1>1, <1>2, <1>3, <1>5, <2>1
<1> QED
  BY <1>4, <1>5

\* Writers stay in pipewrite() and readers in piperead().
LEMMA RoleFrame ==
  ASSUME RoleInv, NEW p \in Proc, NEW a, NEW l, Moves(p, a, l),
         p \in Writer => l \notin {"rwait", "empty", "rsleep", "copy"},
         p \in Reader => l \notin {"loop", "full", "wsleep"}
  PROVE  RoleInv'
<1>1. ASSUME NEW w \in Writer PROVE pc'[w] \notin {"rwait", "empty", "rsleep", "copy"}
  <2>1. CASE w = p
    BY <2>1 DEF Moves
  <2>2. CASE w # p
    BY <2>2 DEF Moves, RoleInv, Proc
  <2> QED
    BY <2>1, <2>2
<1>2. ASSUME NEW r \in Reader PROVE pc'[r] \notin {"loop", "full", "wsleep"}
  <2>1. CASE r = p
    BY <2>1 DEF Moves
  <2>2. CASE r # p
    BY <2>2 DEF Moves, RoleInv, Proc
  <2> QED
    BY <2>1, <2>2
<1> QED
  BY <1>1, <1>2 DEF RoleInv

\* A step that closes no file.
LEMMA FdFrame ==
  ASSUME FdInv, NEW p \in Proc, NEW a, NEW l, Moves(p, a, l),
         fdopen' = fdopen, a \in Gone <=> l \in Gone
  PROVE  FdInv'
<1> SUFFICES ASSUME NEW x \in Proc PROVE fdopen[x] = 0 <=> pc'[x] \in Gone
  BY DEF FdInv, Gone
<1>1. fdopen[x] = 0 <=> pc[x] \in Gone
  BY DEF FdInv, Gone
<1>2. CASE x = p
  BY <1>1, <1>2 DEF Moves
<1>3. CASE x # p
  BY <1>1, <1>3 DEF Moves, Gone
<1> QED
  BY <1>2, <1>3

\* A step outside pipeclose().
LEMMA CloseFrame ==
  ASSUME CloseInv, NEW p \in Proc, NEW a, NEW l, Moves(p, a, l),
         UNCHANGED <<readopen, writeopen, freed>>,
         (a \notin Gone /\ l \notin Gone) \/ a = l
  PROVE  CloseInv'
<1>1. \A x \in Proc, g \in Gone : pc'[x] = g <=> pc[x] = g
  <2> SUFFICES ASSUME NEW x \in Proc, NEW g \in Gone PROVE pc'[x] = g <=> pc[x] = g
    OBVIOUS
  <2>1. CASE x = p
    BY <2>1 DEF Moves
  <2>2. CASE x # p
    BY <2>2 DEF Moves, Gone
  <2> QED
    BY <2>1, <2>2
<1>2. \A x \in Proc : /\ pc'[x] = "close" <=> pc[x] = "close"
                      /\ pc'[x] = "free" <=> pc[x] = "free"
                      /\ pc'[x] = "closed" <=> pc[x] = "closed"
  BY <1>1 DEF Gone
<1>3. \A x \in Proc : Peers(x) \subseteq Proc
  BY DEF Peers, Proc
<1>4. \A x \in Proc : pc'[x] = "close" => \A y \in Peers(x) \ {x} : pc'[y] = "closed"
  BY <1>2, <1>3 DEF CloseInv
<1>5. writeopen' = 0 => \A w \in Writer : pc'[w] \in {"closed", "free"}
  BY <1>2 DEF CloseInv, Proc
<1>6. readopen' = 0 => \A r \in Reader : pc'[r] \in {"closed", "free"}
  BY <1>2 DEF CloseInv, Proc
<1>7. \A x \in Proc : pc'[x] = "free" =>
        /\ readopen' = 0 /\ writeopen' = 0 /\ freed' = 0
        /\ \A y \in Proc \ {x} : pc'[y] = "closed"
  BY <1>2 DEF CloseInv
<1>8. freed' = 1 => \A x \in Proc : pc'[x] = "closed"
  BY <1>2 DEF CloseInv
<1> QED
  BY <1>4, <1>5, <1>6, <1>7, <1>8 DEF CloseInv, Peers

\* A step that neither moves a counter nor closes the read end, by a process
\* that does not go to sleep in pipewrite() nor leave piperead()'s copy loop.
LEMMA WriterFrame ==
  ASSUME WriterInv, NEW p \in Proc, NEW a, NEW l, Moves(p, a, l),
         UNCHANGED <<nread, nwrite, readopen>>,
         (l \notin {"full", "wsleep"} /\ a # "copy") \/ a = l
  PROVE  WriterInv'
<1>1. \A x \in Proc : /\ pc'[x] = "full" => pc[x] = "full"
                      /\ pc'[x] = "wsleep" => pc[x] = "wsleep"
                      /\ pc[x] = "copy" => pc'[x] = "copy"
  <2> SUFFICES ASSUME NEW x \in Proc
               PROVE  /\ pc'[x] = "full" => pc[x] = "full"
                      /\ pc'[x] = "wsleep" => pc[x] = "wsleep"
                      /\ pc[x] = "copy" => pc'[x] = "copy"
    OBVIOUS
  <2>1. CASE x = p
    BY <2>1 DEF Moves
  <2>2. CASE x # p
    BY <2>2 DEF Moves
  <2> QED
    BY <2>1, <2>2
<1>2. Full' <=> Full
  BY DEF Full
<1> SUFFICES ASSUME NEW w \in Writer
             PROVE  /\ pc'[w] = "full" => Full' /\ readopen' = 1
                    /\ pc'[w] = "wsleep" =>
                         readopen' = 1 /\ (Full' \/ \E r \in Reader : pc'[r] = "copy")
  BY DEF WriterInv
<1>3. /\ pc[w] = "full" => Full /\ readopen = 1
      /\ pc[w] = "wsleep" => readopen = 1 /\ (Full \/ \E r \in Reader : pc[r] = "copy")
  BY DEF WriterInv
<1>4. w \in Proc /\ Reader \subseteq Proc
  BY DEF Proc
<1> QED
  BY <1>1, <1>2, <1>3, <1>4

\* A step that neither moves a counter nor closes the write end, by a process
\* that does not go to sleep in piperead() nor leave pipewrite()'s loop.
LEMMA ReaderFrame ==
  ASSUME ReaderInv, NEW p \in Proc, NEW a, NEW l, Moves(p, a, l),
         UNCHANGED <<nread, nwrite, writeopen>>,
         torn' = torn \/ torn' = 1, \A x \in Proc \ {p} : i'[x] = i[x],
         (l \notin {"empty", "rsleep"} /\ a \notin {"loop", "full"}) \/ (a = l /\ i' = i)
  PROVE  ReaderInv'
<1>1. \A x \in Proc : /\ pc'[x] = "empty" => pc[x] = "empty"
                      /\ pc'[x] = "rsleep" => pc[x] = "rsleep"
                      /\ pc[x] \in {"loop", "full"} => pc'[x] = pc[x] /\ i'[x] = i[x]
  <2> SUFFICES ASSUME NEW x \in Proc
               PROVE  /\ pc'[x] = "empty" => pc[x] = "empty"
                      /\ pc'[x] = "rsleep" => pc[x] = "rsleep"
                      /\ pc[x] \in {"loop", "full"} => pc'[x] = pc[x] /\ i'[x] = i[x]
    OBVIOUS
  <2>1. CASE x = p
    BY <2>1 DEF Moves
  <2>2. CASE x # p
    BY <2>2 DEF Moves
  <2> QED
    BY <2>1, <2>2
<1>2. Empty' <=> Empty
  BY DEF Empty
<1> SUFFICES ASSUME NEW r \in Reader
             PROVE  /\ pc'[r] = "empty" => Empty' /\ writeopen' = 1
                    /\ pc'[r] = "rsleep" =>
                         /\ writeopen' = 1
                         /\ \/ Empty' \/ torn' = 1
                            \/ \E w \in Writer : pc'[w] \in {"loop", "full"} /\ i'[w] > 0
  BY DEF ReaderInv
<1>3. /\ pc[r] = "empty" => Empty /\ writeopen = 1
      /\ pc[r] = "rsleep" =>
           /\ writeopen = 1
           /\ \/ Empty \/ torn = 1
              \/ \E w \in Writer : pc[w] \in {"loop", "full"} /\ i[w] > 0
  BY DEF ReaderInv
<1>4. r \in Proc /\ Writer \subseteq Proc
  BY DEF Proc
<1>5. ASSUME NEW w \in Writer, pc[w] \in {"loop", "full"}, i[w] > 0
      PROVE  pc'[w] \in {"loop", "full"} /\ i'[w] > 0
  BY <1>1, <1>4, <1>5
<1> QED
  BY <1>1, <1>2, <1>3, <1>4, <1>5

\* After wakeup(&pi->nread) no reader sleeps.
LEMMA NoReaderSleeps ==
  ASSUME ReaderInv, NEW p \in Proc, NEW l, WakeReaders(p, l), l \notin {"empty", "rsleep"},
         UNCHANGED <<nread, nwrite>>,
         writeopen' = writeopen \/ \A r \in Reader : pc[r] # "empty"
  PROVE  ReaderInv'
<1>1. \A x \in Proc : pc'[x] # "rsleep" /\ (pc'[x] = "empty" => pc[x] = "empty")
  BY DEF WakeReaders, wakeup
<1>2. Empty' <=> Empty
  BY DEF Empty
<1>3. \A r \in Reader : r \in Proc /\ (pc[r] = "empty" => Empty /\ writeopen = 1)
  BY DEF ReaderInv, Proc
<1> QED
  BY <1>1, <1>2, <1>3 DEF ReaderInv

\* After wakeup(&pi->nwrite) no writer sleeps.
LEMMA NoWriterSleeps ==
  ASSUME WriterInv, NEW p \in Proc, NEW l, WakeWriters(p, l), l \notin {"full", "wsleep"},
         UNCHANGED <<nread, nwrite>>,
         readopen' = readopen \/ \A w \in Writer : pc[w] # "full"
  PROVE  WriterInv'
<1>1. \A x \in Proc : pc'[x] # "wsleep" /\ (pc'[x] = "full" => pc[x] = "full")
  BY DEF WakeWriters, wakeup
<1>2. Full' <=> Full
  BY DEF Full
<1>3. \A w \in Writer : w \in Proc /\ (pc[w] = "full" => Full /\ readopen = 1)
  BY DEF WriterInv, Proc
<1> QED
  BY <1>1, <1>2, <1>3 DEF WriterInv

\* The move of p, alone or with a wakeup.
LEMMA MovesIs ==
  ASSUME pc \in [Proc -> Inside \cup Outside], NEW p \in Proc, NEW l,
         Goto(p, l) \/ WakeReaders(p, l) \/ WakeWriters(p, l)
  PROVE  Moves(p, pc[p], l)
BY DEF Goto, WakeReaders, WakeWriters, wakeup, Moves

\* The counters stand.
LEMMA RingFrame ==
  ASSUME RingInv, UNCHANGED <<nread, nwrite>>
  PROVE  RingInv'
BY DEF RingInv, Count

-----------------------------------------------------------------------------
(* Types                                                                   *)

\* A process goes to a place of the model.
LEMMA PcType ==
  ASSUME pc \in [Proc -> Inside \cup Outside], NEW p \in Proc, NEW l \in Inside \cup Outside,
         Goto(p, l) \/ WakeReaders(p, l) \/ WakeWriters(p, l)
  PROVE  pc' \in [Proc -> Inside \cup Outside]
<1>1. "enter" \in Inside
  BY DEF Inside
<1> QED
  BY <1>1 DEF Goto, WakeReaders, WakeWriters, wakeup

\* The labels of the model.
LEMMA LabelFacts ==
  \A l \in {"idle", "enter", "loop", "full", "wsleep", "rwait", "empty", "rsleep", "copy",
            "close", "free", "closed", "dead"} : l \in Inside \cup Outside
BY DEF Inside, Outside

\* The fields of struct pipe that a system call leaves alone keep their types.
LEMMA TypeKept ==
  ASSUME TypeOK, UNCHANGED <<pipe, proc>>,
         lock' \in Proc \cup {None}, torn' \in {0, 1},
         pc' \in [Proc -> Inside \cup Outside],
         i' \in [Proc -> 0..MaxN], n' \in [Proc -> 0..MaxN]
  PROVE  TypeOK'
BY DEF TypeOK, pipe, proc

\* pipewrite() keeps the types.
LEMMA WriteTypes ==
  ASSUME TypeOK, NEW w \in Writer, Write(w)
  PROVE  TypeOK'
<1>0. /\ w \in Proc /\ 0 \in 0..MaxN
      /\ lock \in Proc \cup {None} /\ torn \in {0, 1}
      /\ pc \in [Proc -> Inside \cup Outside]
      /\ i \in [Proc -> 0..MaxN] /\ n \in [Proc -> 0..MaxN]
  BY SMTT(300), ProcFacts, PipeAssumption DEF TypeOK
<1>1. CASE WriteDone(w)
  <2>1. pc' \in [Proc -> Inside \cup Outside]
    BY <1>0, <1>1, PcType, LabelFacts DEF WriteDone
  <2>2. /\ lock' \in Proc \cup {None} /\ torn' \in {0, 1}
        /\ i' \in [Proc -> 0..MaxN] /\ n' \in [Proc -> 0..MaxN]
    BY <1>0, <1>1 DEF WriteDone, Return
  <2>3. UNCHANGED <<pipe, proc>>
    BY <1>1 DEF WriteDone
  <2> QED
    BY <2>1, <2>2, <2>3, TypeKept
<1>2. CASE WriteFail(w)
  <2>1. pc' \in [Proc -> Inside \cup Outside]
    BY <1>0, <1>2, PcType, LabelFacts DEF WriteFail
  <2>2. /\ lock' \in Proc \cup {None} /\ torn' \in {0, 1}
        /\ i' \in [Proc -> 0..MaxN] /\ n' \in [Proc -> 0..MaxN]
    BY <1>0, <1>2 DEF WriteFail, Return
  <2>3. UNCHANGED <<pipe, proc>>
    BY <1>2 DEF WriteFail
  <2> QED
    BY <2>1, <2>2, <2>3, TypeKept
<1>3. CASE WriteByte(w)
  <2>1. nwrite' \in 0..(UMOD - 1)
    BY SMTT(300), <1>3, IncIs, PipeAssumption DEF WriteByte, TypeOK
  <2>2. i' \in [Proc -> 0..MaxN]
    BY SMTT(300), <1>0, <1>3, PipeAssumption DEF WriteByte, More
  <2>3. data' \in [0..(PIPESIZE - 1) -> Byte]
    <3>1. PICK b \in Byte : data' = [data EXCEPT ![nwrite % PIPESIZE] = b]
      BY <1>3 DEF WriteByte
    <3>2. data \in [0..(PIPESIZE - 1) -> Byte]
      BY DEF TypeOK
    <3> QED
      BY <3>1, <3>2
  <2> QED
    BY <1>3, <2>1, <2>2, <2>3 DEF WriteByte, proc, TypeOK
<1>4. CASE WriteFull(w)
  <2>1. pc' \in [Proc -> Inside \cup Outside]
    BY <1>0, <1>4, PcType, LabelFacts DEF WriteFull
  <2>2. /\ lock' \in Proc \cup {None} /\ torn' \in {0, 1}
        /\ i' \in [Proc -> 0..MaxN] /\ n' \in [Proc -> 0..MaxN]
    BY <1>0, <1>4 DEF WriteFull, args
  <2>3. UNCHANGED <<pipe, proc>>
    BY <1>4 DEF WriteFull
  <2> QED
    BY <2>1, <2>2, <2>3, TypeKept
<1>5. CASE WriteSleep(w)
  <2>1. pc' \in [Proc -> Inside \cup Outside]
    BY <1>0, <1>5, PcType, LabelFacts DEF WriteSleep
  <2>2. /\ lock' \in Proc \cup {None} /\ torn' \in {0, 1}
        /\ i' \in [Proc -> 0..MaxN] /\ n' \in [Proc -> 0..MaxN]
    BY <1>0, <1>5 DEF WriteSleep, args
  <2>3. UNCHANGED <<pipe, proc>>
    BY <1>5 DEF WriteSleep
  <2> QED
    BY <2>1, <2>2, <2>3, TypeKept
<1> QED
  BY <1>1, <1>2, <1>3, <1>4, <1>5 DEF Write

\* piperead() keeps the types.
LEMMA ReadTypes ==
  ASSUME TypeOK, NEW r \in Reader, Read(r)
  PROVE  TypeOK'
<1>0. /\ r \in Proc /\ 0 \in 0..MaxN
      /\ lock \in Proc \cup {None} /\ torn \in {0, 1}
      /\ pc \in [Proc -> Inside \cup Outside]
      /\ i \in [Proc -> 0..MaxN] /\ n \in [Proc -> 0..MaxN]
  BY SMTT(300), ProcFacts, PipeAssumption DEF TypeOK
<1>1. CASE ReadKilled(r)
  <2>1. pc' \in [Proc -> Inside \cup Outside]
    BY <1>0, <1>1, PcType, LabelFacts DEF ReadKilled
  <2>2. /\ lock' \in Proc \cup {None} /\ torn' \in {0, 1}
        /\ i' \in [Proc -> 0..MaxN] /\ n' \in [Proc -> 0..MaxN]
    BY <1>0, <1>1 DEF ReadKilled, Return
  <2>3. UNCHANGED <<pipe, proc>>
    BY <1>1 DEF ReadKilled
  <2> QED
    BY <2>1, <2>2, <2>3, TypeKept
<1>2. CASE ReadEmpty(r)
  <2>1. pc' \in [Proc -> Inside \cup Outside]
    BY <1>0, <1>2, PcType, LabelFacts DEF ReadEmpty
  <2>2. /\ lock' \in Proc \cup {None} /\ torn' \in {0, 1}
        /\ i' \in [Proc -> 0..MaxN] /\ n' \in [Proc -> 0..MaxN]
    BY <1>0, <1>2 DEF ReadEmpty, args
  <2>3. UNCHANGED <<pipe, proc>>
    BY <1>2 DEF ReadEmpty
  <2> QED
    BY <2>1, <2>2, <2>3, TypeKept
<1>3. CASE ReadSleep(r)
  <2>1. pc' \in [Proc -> Inside \cup Outside]
    BY <1>0, <1>3, PcType, LabelFacts DEF ReadSleep
  <2>2. /\ lock' \in Proc \cup {None} /\ torn' \in {0, 1}
        /\ i' \in [Proc -> 0..MaxN] /\ n' \in [Proc -> 0..MaxN]
    BY <1>0, <1>3 DEF ReadSleep, args
  <2>3. UNCHANGED <<pipe, proc>>
    BY <1>3 DEF ReadSleep
  <2> QED
    BY <2>1, <2>2, <2>3, TypeKept
<1>4. CASE ReadStart(r)
  <2>1. pc' \in [Proc -> Inside \cup Outside]
    BY <1>0, <1>4, PcType, LabelFacts DEF ReadStart
  <2>2. /\ lock' \in Proc \cup {None} /\ torn' \in {0, 1}
        /\ i' \in [Proc -> 0..MaxN] /\ n' \in [Proc -> 0..MaxN]
    BY <1>0, <1>4 DEF ReadStart, args
  <2>3. UNCHANGED <<pipe, proc>>
    BY <1>4 DEF ReadStart
  <2> QED
    BY <2>1, <2>2, <2>3, TypeKept
<1>5. CASE ReadByte(r)
  <2>1. nread' \in 0..(UMOD - 1)
    BY SMTT(300), <1>5, IncIs, PipeAssumption DEF ReadByte, TypeOK
  <2>2. i' \in [Proc -> 0..MaxN]
    BY SMTT(300), <1>0, <1>5, PipeAssumption DEF ReadByte, More
  <2> QED
    BY <1>5, <2>1, <2>2 DEF ReadByte, proc, TypeOK
<1>6. CASE ReadDone(r)
  <2>1. pc' \in [Proc -> Inside \cup Outside]
    BY <1>0, <1>6, PcType, LabelFacts DEF ReadDone
  <2>2. /\ lock' \in Proc \cup {None} /\ torn' \in {0, 1}
        /\ i' \in [Proc -> 0..MaxN] /\ n' \in [Proc -> 0..MaxN]
    BY <1>0, <1>6 DEF ReadDone, Return
  <2>3. UNCHANGED <<pipe, proc>>
    BY <1>6 DEF ReadDone
  <2> QED
    BY <2>1, <2>2, <2>3, TypeKept
<1> QED
  BY <1>1, <1>2, <1>3, <1>4, <1>5, <1>6 DEF Read

\* The rest of the kernel keeps the types.
LEMMA OtherTypes ==
  ASSUME TypeOK, CloseInv, NEW p \in Proc,
         \/ Call(p) \/ Acquire(p) \/ Close(p) \/ PipeClose(p) \/ Free(p) \/ Kill(p) \/ Exit(p)
  PROVE  TypeOK'
<1>0. /\ lock \in Proc \cup {None} /\ torn \in {0, 1}
      /\ pc \in [Proc -> Inside \cup Outside]
      /\ i \in [Proc -> 0..MaxN] /\ n \in [Proc -> 0..MaxN]
  BY DEF TypeOK
<1>1. CASE Call(p)
  <2>1. pc' \in [Proc -> Inside \cup Outside]
    BY <1>0, <1>1, PcType, LabelFacts DEF Call
  <2>2. /\ lock' \in Proc \cup {None} /\ torn' \in {0, 1}
        /\ i' \in [Proc -> 0..MaxN] /\ n' \in [Proc -> 0..MaxN]
    BY <1>0, <1>1 DEF Call
  <2>3. UNCHANGED <<pipe, proc>>
    BY <1>1 DEF Call
  <2> QED
    BY <2>1, <2>2, <2>3, TypeKept
<1>2. CASE Acquire(p)
  <2>1. pc' \in [Proc -> Inside \cup Outside]
    BY <1>0, <1>2, PcType, LabelFacts DEF Acquire
  <2>2. /\ lock' \in Proc \cup {None} /\ torn' \in {0, 1}
        /\ i' \in [Proc -> 0..MaxN] /\ n' \in [Proc -> 0..MaxN]
    BY <1>0, <1>2 DEF Acquire, args
  <2>3. UNCHANGED <<pipe, proc>>
    BY <1>2 DEF Acquire
  <2> QED
    BY <2>1, <2>2, <2>3, TypeKept
<1>3. CASE Close(p)
  <2>1. pc' \in [Proc -> Inside \cup Outside]
    BY <1>0, <1>3, PcType, LabelFacts DEF Close
  <2>2. fdopen' \in [Proc -> {0, 1}]
    BY <1>3 DEF Close, TypeOK
  <2> QED
    BY <1>3, <2>1, <2>2 DEF Close, pipe, args, TypeOK
<1>4. CASE PipeClose(p)
  <2>1. PICK l \in {"free", "closed"} : WakeReaders(p, l) \/ WakeWriters(p, l)
    BY <1>4 DEF PipeClose
  <2>2. pc' \in [Proc -> Inside \cup Outside]
    BY <1>0, <2>1, PcType, LabelFacts
  <2> QED
    BY <1>4, <2>2 DEF PipeClose, args, proc, TypeOK
<1>5. CASE Free(p)
  <2>1. pc' \in [Proc -> Inside \cup Outside]
    BY <1>0, <1>5, PcType, LabelFacts DEF Free
  <2>2. freed = 0
    BY <1>5 DEF Free, CloseInv
  <2> QED
    BY SMTT(300), <1>5, <2>1, <2>2 DEF Free, args, proc, TypeOK
<1>6. CASE Kill(p)
  <2>1. pc' \in [Proc -> Inside \cup Outside]
    BY <1>0, <1>6, PcType, LabelFacts DEF Kill
  <2>2. killed' \in [Proc -> {0, 1}]
    BY <1>6 DEF Kill, TypeOK
  <2> QED
    BY <1>6, <2>1, <2>2 DEF Kill, pipe, args, TypeOK
<1>7. CASE Exit(p)
  <2>1. pc' \in [Proc -> Inside \cup Outside]
    BY <1>0, <1>7, PcType, LabelFacts DEF Exit
  <2>2. /\ lock' \in Proc \cup {None} /\ torn' \in {0, 1}
        /\ i' \in [Proc -> 0..MaxN] /\ n' \in [Proc -> 0..MaxN]
    BY <1>0, <1>7 DEF Exit, args
  <2>3. UNCHANGED <<pipe, proc>>
    BY <1>7 DEF Exit
  <2> QED
    BY <2>1, <2>2, <2>3, TypeKept
<1> QED
  BY <1>1, <1>2, <1>3, <1>4, <1>5, <1>6, <1>7

-----------------------------------------------------------------------------
(* Every step preserves IInv                                               *)

\* Steps that move no counter, close nothing and end no loop.
LEMMA PlainStep ==
  ASSUME IInv, TypeOK', NEW p \in Proc, NEW a, NEW l, Moves(p, a, l),
         UNCHANGED <<pipe, fdopen>>,
         a \notin Critical /\ l \in Critical => lock = None,
         lock' = IF l \in Critical THEN p ELSE IF a \in Critical THEN None ELSE lock,
         p \in Writer => l \notin {"rwait", "empty", "rsleep", "copy"},
         p \in Reader => l \notin {"loop", "full", "wsleep"},
         (a \notin Gone /\ l \notin Gone) \/ a = l,
         WriterInv', ReaderInv'
  PROVE  IInv'
<1>1. /\ LockInv /\ RoleInv /\ RingInv /\ FdInv /\ CloseInv
      /\ UNCHANGED <<nread, nwrite>> /\ UNCHANGED <<readopen, writeopen, freed>>
      /\ fdopen' = fdopen
  BY DEF IInv, pipe
<1>2. LockInv'
  BY <1>1, LockFrame
<1>3. RoleInv'
  BY <1>1, RoleFrame
<1>4. RingInv'
  BY <1>1, RingFrame
<1>5. FdInv'
  BY <1>1, FdFrame
<1>6. CloseInv'
  BY <1>1, CloseFrame
<1> QED
  BY <1>2, <1>3, <1>4, <1>5, <1>6 DEF IInv

\* Steps that concern nobody's sleep: the system call and its return, acquire(),
\* the exit, kkill(), the start of piperead()'s copy loop.
LEMMA QuietStep ==
  ASSUME IInv, TypeOK', NEW p \in Proc, NEW a, NEW l, Moves(p, a, l),
         UNCHANGED <<pipe, fdopen, torn>>,
         a \notin Critical /\ l \in Critical => lock = None,
         lock' = IF l \in Critical THEN p ELSE IF a \in Critical THEN None ELSE lock,
         p \in Writer => l \notin {"rwait", "empty", "rsleep", "copy"},
         p \in Reader => l \notin {"loop", "full", "wsleep"},
         \A x \in Proc \ {p} : i'[x] = i[x],
         \/ /\ a \notin Gone /\ l \notin Gone
            /\ l \notin {"full", "wsleep"} /\ a # "copy"
            /\ l \notin {"empty", "rsleep"} /\ a \notin {"loop", "full"}
         \/ a = l /\ i' = i
  PROVE  IInv'
<1>1. /\ WriterInv /\ ReaderInv
      /\ UNCHANGED <<nread, nwrite, readopen>> /\ UNCHANGED <<nread, nwrite, writeopen>>
      /\ UNCHANGED <<pipe, fdopen>>
  BY DEF IInv, pipe
<1>2. WriterInv'
  BY <1>1, WriterFrame
<1>3. ReaderInv'
  BY <1>1, ReaderFrame
<1> QED
  BY <1>1, <1>2, <1>3, PlainStep

\* read() or write() reaches the pipe.
LEMMA CallInv ==
  ASSUME IInv, TypeOK', NEW p \in Proc, Call(p)
  PROVE  IInv'
<1>1. Moves(p, "idle", "enter")
  BY SMTT(300), MovesIs DEF IInv, TypeOK, Call
<1>2. UNCHANGED <<pipe, fdopen, torn>> /\ lock' = lock /\ i' = i
  BY DEF Call, proc
<1>3. "idle" \notin Critical /\ "enter" \notin Critical /\ "idle" \notin Gone /\ "enter" \notin Gone
  BY DEF Critical, Gone
<1> QED
  BY <1>1, <1>2, <1>3, QuietStep

\* acquire(&pi->lock).
LEMMA AcquireInv ==
  ASSUME IInv, TypeOK', NEW p \in Proc, Acquire(p)
  PROVE  IInv'
<1>1. PICK l \in {"loop", "rwait"} : Goto(p, l) /\ (l = "loop" <=> p \in Writer)
  BY DEF Acquire
<1>2. Moves(p, "enter", l)
  BY <1>1, MovesIs DEF IInv, TypeOK, Acquire
<1>3. UNCHANGED <<pipe, fdopen, torn>> /\ lock = None /\ lock' = p /\ i' = i
  BY DEF Acquire, proc, args
<1>4. "enter" \notin Critical /\ l \in Critical /\ "enter" \notin Gone /\ l \notin Gone
  BY DEF Critical, Gone
<1>5. p \in Writer => p \notin Reader
  BY ProcFacts
<1> QED
  BY <1>1, <1>2, <1>3, <1>4, <1>5, QuietStep

\* kexit().
LEMMA ExitInv ==
  ASSUME IInv, TypeOK', NEW p \in Proc, Exit(p)
  PROVE  IInv'
<1>1. Moves(p, "idle", "dead")
  BY MovesIs DEF IInv, TypeOK, Exit
<1>2. UNCHANGED <<pipe, fdopen, torn>> /\ lock' = lock /\ i' = i
  BY DEF Exit, proc, args
<1>3. "idle" \notin Critical /\ "dead" \notin Critical /\ "idle" \notin Gone /\ "dead" \notin Gone
  BY DEF Critical, Gone
<1> QED
  BY <1>1, <1>2, <1>3, QuietStep

\* kkill() of a process anywhere in the pipe code.
LEMMA KillInv ==
  ASSUME IInv, TypeOK', NEW p \in Proc, Kill(p)
  PROVE  IInv'
<1>1. UNCHANGED <<pipe, fdopen, torn>> /\ lock' = lock /\ i' = i
  BY DEF Kill, args
<1>2. CASE pc[p] \in {"rsleep", "wsleep"}
  <2>1. Moves(p, pc[p], "enter")
    BY <1>2, MovesIs DEF IInv, TypeOK, Kill
  <2>2. /\ pc[p] \notin Critical /\ "enter" \notin Critical
        /\ pc[p] \notin Gone /\ "enter" \notin Gone
        /\ pc[p] # "copy" /\ pc[p] \notin {"loop", "full"}
    BY <1>2 DEF Critical, Gone
  <2> QED
    BY <1>1, <2>1, <2>2, QuietStep
<1>3. CASE pc[p] \notin {"rsleep", "wsleep"}
  <2>1. Moves(p, pc[p], pc[p])
    BY <1>3 DEF Kill, Moves
  <2>2. /\ lock' = IF pc[p] \in Critical THEN p ELSE lock
        /\ p \in Writer => pc[p] \notin {"rwait", "empty", "rsleep", "copy"}
        /\ p \in Reader => pc[p] \notin {"loop", "full", "wsleep"}
    BY <1>1 DEF IInv, LockInv, RoleInv
  <2> QED
    BY <1>1, <2>1, <2>2, QuietStep
<1> QED
  BY <1>2, <1>3

\* The end of pipewrite(), which wakes the readers.
LEMMA WriteDoneInv ==
  ASSUME IInv, TypeOK', NEW w \in Writer, WriteDone(w)
  PROVE  IInv'
<1>1. /\ w \in Proc /\ w \notin Reader /\ WakeReaders(w, "idle") /\ pc[w] = "loop"
      /\ lock' = None /\ UNCHANGED <<pipe, fdopen>>
  BY ProcFacts DEF WriteDone, At, Return, proc
<1>2. Moves(w, "loop", "idle")
  BY SMTT(300), <1>1, MovesIs DEF IInv, TypeOK
<1>3. "loop" \in Critical /\ "idle" \notin Critical /\ "loop" \notin Gone /\ "idle" \notin Gone
  BY DEF Critical, Gone
<1>4. /\ WriterInv /\ ReaderInv /\ writeopen' = writeopen
      /\ UNCHANGED <<nread, nwrite, readopen>> /\ UNCHANGED <<nread, nwrite>>
  BY <1>1 DEF IInv, pipe
<1>5. WriterInv'
  BY <1>1, <1>2, <1>4, WriterFrame
<1>6. ReaderInv'
  BY <1>1, <1>4, NoReaderSleeps
<1> QED
  BY <1>1, <1>2, <1>3, <1>5, <1>6, PlainStep

\* pipewrite() giving up: the readers it leaves asleep are the ones that torn
\* stands for.
LEMMA WriteFailInv ==
  ASSUME IInv, TypeOK', NEW w \in Writer, WriteFail(w)
  PROVE  IInv'
<1>1. /\ w \in Proc /\ w \notin Reader /\ Goto(w, "idle") /\ pc[w] = "loop"
      /\ lock' = None /\ UNCHANGED <<pipe, fdopen>>
      /\ torn' = IF i[w] > 0 THEN 1 ELSE torn
  BY ProcFacts DEF WriteFail, At, Return, proc
<1>2. Moves(w, "loop", "idle")
  BY SMTT(300), <1>1, MovesIs DEF IInv, TypeOK
<1>3. "loop" \in Critical /\ "idle" \notin Critical /\ "loop" \notin Gone /\ "idle" \notin Gone
  BY DEF Critical, Gone
<1>4. /\ WriterInv /\ ReaderInv /\ writeopen' = writeopen /\ LockInv
      /\ UNCHANGED <<nread, nwrite, readopen>> /\ UNCHANGED <<nread, nwrite>>
  BY <1>1 DEF IInv, pipe
<1>5. WriterInv'
  BY <1>1, <1>2, <1>4, WriterFrame
<1>6. ReaderInv'
  <2>1. \A x \in Writer : pc[x] \in {"loop", "full"} => x = w
    <3>1. \A x \in Writer : pc[x] \in {"loop", "full"} => pc[x] \in Critical
      BY DEF Critical
    <3> QED
      BY <1>1, <1>3, <1>4, <3>1, HolderIs, ProcFacts
  <2>2. Empty' <=> Empty
    BY <1>4 DEF Empty
  <2>3. \A r \in Reader : r \in Proc /\ pc'[r] = pc[r]
    BY <1>1, ProcFacts DEF Goto, IInv, TypeOK
  <2> QED
    BY <1>1, <1>4, <2>1, <2>2, <2>3 DEF ReaderInv
<1> QED
  BY <1>1, <1>2, <1>3, <1>5, <1>6, PlainStep

\* pipewrite() finding the ring full.
LEMMA WriteFullInv ==
  ASSUME IInv, TypeOK', NEW w \in Writer, WriteFull(w)
  PROVE  IInv'
<1>1. /\ w \in Proc /\ w \notin Reader /\ Goto(w, "full") /\ pc[w] = "loop" /\ lock = w
      /\ lock' = w /\ UNCHANGED <<pipe, fdopen>> /\ i' = i /\ torn' = torn
      /\ Full /\ readopen = 1
  BY ProcFacts DEF WriteFull, At, args, proc
<1>2. Moves(w, "loop", "full")
  BY SMTT(300), <1>1, MovesIs DEF IInv, TypeOK
<1>3. "loop" \in Critical /\ "full" \in Critical /\ "loop" \notin Gone /\ "full" \notin Gone
  BY DEF Critical, Gone
<1>4. /\ WriterInv /\ ReaderInv /\ UNCHANGED <<nread, nwrite, readopen, writeopen>>
      /\ pc \in [Proc -> Inside \cup Outside]
  BY <1>1 DEF IInv, pipe, TypeOK
<1>5. /\ pc'[w] = "full" /\ \A x \in Proc \ {w} : pc'[x] = pc[x]
      /\ (Full' <=> Full) /\ (Empty' <=> Empty)
  BY <1>1, <1>4 DEF Goto, Full, Empty
<1>6. WriterInv'
  <2>1. \A r \in Reader : pc'[r] = pc[r]
    BY <1>1, <1>5, ProcFacts
  <2> QED
    BY <1>1, <1>4, <1>5, <2>1, ProcFacts DEF WriterInv
<1>7. ReaderInv'
  <2>1. \A r \in Reader : pc'[r] = pc[r]
    BY <1>1, <1>5, ProcFacts
  <2>2. \A x \in Writer : pc[x] \in {"loop", "full"} => pc'[x] \in {"loop", "full"}
    BY <1>5, ProcFacts
  <2> QED
    BY <1>1, <1>4, <1>5, <2>1, <2>2 DEF ReaderInv
<1> QED
  BY <1>1, <1>2, <1>3, <1>6, <1>7, PlainStep

\* pipewrite() going to sleep, having woken the readers.
LEMMA WriteSleepInv ==
  ASSUME IInv, TypeOK', NEW w \in Writer, WriteSleep(w)
  PROVE  IInv'
<1>1. /\ w \in Proc /\ w \notin Reader /\ WakeReaders(w, "wsleep") /\ pc[w] = "full"
      /\ lock' = None /\ UNCHANGED <<pipe, fdopen>>
  BY ProcFacts DEF WriteSleep, At, proc
<1>2. Moves(w, "full", "wsleep")
  BY SMTT(300), <1>1, MovesIs DEF IInv, TypeOK
<1>3. "full" \in Critical /\ "wsleep" \notin Critical /\ "full" \notin Gone /\ "wsleep" \notin Gone
  BY DEF Critical, Gone
<1>4. /\ WriterInv /\ ReaderInv /\ writeopen' = writeopen /\ readopen' = readopen
      /\ UNCHANGED <<nread, nwrite>>
  BY <1>1 DEF IInv, pipe
<1>5. WriterInv'
  <2>1. Full /\ readopen = 1 /\ (Full' <=> Full)
    BY <1>1, <1>4 DEF WriterInv, Full
  <2> QED
    BY <1>4, <2>1 DEF WriterInv
<1>6. ReaderInv'
  BY <1>1, <1>4, NoReaderSleeps
<1> QED
  BY <1>1, <1>2, <1>3, <1>5, <1>6, PlainStep

\* One byte into the ring: whoever slept in pipewrite() was woken before, and a
\* reader that sleeps has a writer to wake it.
LEMMA WriteByteInv ==
  ASSUME IInv, TypeOK', NEW w \in Writer, WriteByte(w)
  PROVE  IInv'
<1>1. /\ w \in Proc /\ w \notin Reader /\ pc[w] = "loop" /\ lock = w /\ ~Full
      /\ nwrite' = (nwrite + 1) % UMOD /\ i' = [i EXCEPT ![w] = @ + 1]
      /\ UNCHANGED <<nread, readopen, writeopen, freed, lock, pc, fdopen>>
  BY ProcFacts DEF WriteByte, At, proc
<1>2. TypeOK /\ LockInv /\ RingInv /\ WriterInv /\ ReaderInv
  BY DEF IInv
<1>3. RingInv'
  BY <1>1, <1>2, CountSteps DEF RingInv
<1>4. LockInv' /\ RoleInv' /\ FdInv' /\ CloseInv'
  BY <1>1 DEF IInv, LockInv, RoleInv, FdInv, CloseInv, Peers
<1>5. \A x \in Proc : pc[x] \in {"full", "empty", "copy"} => FALSE
  <2>1. pc[w] \in Critical /\ \A x \in Proc : pc[x] \in {"full", "empty", "copy"} => pc[x] \in Critical
    BY <1>1 DEF Critical
  <2> QED
    BY <1>1, <1>2, <2>1, HolderIs
<1>6. WriterInv'
  <2>1. \A x \in Writer : pc[x] # "full" /\ pc[x] # "wsleep"
    BY <1>1, <1>2, <1>5, ProcFacts DEF WriterInv
  <2> QED
    BY <1>1, <2>1 DEF WriterInv
<1>7. ReaderInv'
  <2>1. i'[w] > 0 /\ pc'[w] \in {"loop", "full"}
    BY SMTT(300), <1>1, <1>2 DEF TypeOK
  <2>2. \A r \in Reader : pc[r] # "empty" /\ (pc[r] = "rsleep" => writeopen = 1)
    BY <1>2, <1>5, ProcFacts DEF ReaderInv
  <2> QED
    BY <1>1, <2>1, <2>2 DEF ReaderInv
<1> QED
  BY <1>3, <1>4, <1>6, <1>7 DEF IInv

\* piperead() of a killed process.
LEMMA ReadKilledInv ==
  ASSUME IInv, TypeOK', NEW r \in Reader, ReadKilled(r)
  PROVE  IInv'
<1>1. /\ r \in Proc /\ r \notin Writer /\ pc[r] = "rwait" /\ lock' = None
      /\ UNCHANGED <<pipe, fdopen, torn>> /\ i' = [i EXCEPT ![r] = 0] /\ Goto(r, "idle")
  BY ProcFacts DEF ReadKilled, At, Return, proc
<1>2. Moves(r, "rwait", "idle")
  BY SMTT(300), <1>1, MovesIs DEF IInv, TypeOK
<1>3. "rwait" \in Critical /\ "idle" \notin Critical /\ "rwait" \notin Gone /\ "idle" \notin Gone
  BY DEF Critical, Gone
<1>4. \A x \in Proc \ {r} : i'[x] = i[x]
  BY <1>1 DEF IInv, TypeOK
<1> QED
  BY <1>1, <1>2, <1>3, <1>4, QuietStep

\* piperead() leaving its first loop.
LEMMA ReadStartInv ==
  ASSUME IInv, TypeOK', NEW r \in Reader, ReadStart(r)
  PROVE  IInv'
<1>1. /\ r \in Proc /\ r \notin Writer /\ pc[r] = "rwait" /\ lock' = r
      /\ UNCHANGED <<pipe, fdopen, torn>> /\ i' = i /\ Goto(r, "copy")
  BY ProcFacts DEF ReadStart, At, args, proc
<1>2. Moves(r, "rwait", "copy")
  BY SMTT(300), <1>1, MovesIs DEF IInv, TypeOK
<1>3. "rwait" \in Critical /\ "copy" \in Critical /\ "rwait" \notin Gone /\ "copy" \notin Gone
  BY DEF Critical, Gone
<1> QED
  BY <1>1, <1>2, <1>3, QuietStep

\* piperead() finding the ring empty, and going to sleep.
LEMMA ReadEmptyInv ==
  ASSUME IInv, TypeOK', NEW r \in Reader, ReadEmpty(r) \/ ReadSleep(r)
  PROVE  IInv'
<1>1. PICK a \in {"rwait", "empty"}, l \in {"empty", "rsleep"} :
         /\ r \in Proc /\ r \notin Writer /\ pc[r] = a /\ Goto(r, l)
         /\ lock' = IF l \in Critical THEN r ELSE None
         /\ UNCHANGED <<pipe, fdopen>> /\ torn' = torn /\ i' = i
  <2>1. CASE ReadEmpty(r)
    <3>1. /\ r \in Proc /\ r \notin Writer /\ pc[r] = "rwait" /\ Goto(r, "empty")
          /\ lock' = r /\ UNCHANGED <<pipe, fdopen>> /\ torn' = torn /\ i' = i
      BY <2>1, ProcFacts DEF ReadEmpty, At, args, proc
    <3>2. "empty" \in Critical
      BY DEF Critical
    <3> QED
      BY <3>1, <3>2
  <2>2. CASE ReadSleep(r)
    <3>1. /\ r \in Proc /\ r \notin Writer /\ pc[r] = "empty" /\ Goto(r, "rsleep")
          /\ lock' = None /\ UNCHANGED <<pipe, fdopen>> /\ torn' = torn /\ i' = i
      BY <2>2, ProcFacts DEF ReadSleep, At, args, proc
    <3>2. "rsleep" \notin Critical
      BY DEF Critical
    <3> QED
      BY <3>1, <3>2
  <2> QED
    BY <2>1, <2>2
<1>2. Moves(r, a, l)
  BY <1>1, MovesIs DEF IInv, TypeOK
<1>3. a \in Critical /\ a \notin Gone /\ l \notin Gone /\ a # "copy"
  BY DEF Critical, Gone
<1>4. /\ WriterInv /\ ReaderInv /\ UNCHANGED <<nread, nwrite, readopen>>
      /\ writeopen' = writeopen /\ pc \in [Proc -> Inside \cup Outside]
  BY <1>1 DEF IInv, pipe, TypeOK
<1>5. WriterInv'
  BY <1>1, <1>2, <1>3, <1>4, WriterFrame
<1>6. Empty /\ writeopen = 1
  BY <1>4 DEF ReadEmpty, ReadSleep, At, ReaderInv
<1>7. Empty' /\ writeopen' = 1
  BY <1>4, <1>6 DEF Empty
<1>8. ReaderInv'
  BY <1>7 DEF ReaderInv
<1> QED
  BY <1>1, <1>2, <1>3, <1>5, <1>8, PlainStep

\* The end of piperead(), which wakes the writers.
LEMMA ReadDoneInv ==
  ASSUME IInv, TypeOK', NEW r \in Reader, ReadDone(r)
  PROVE  IInv'
<1>1. /\ r \in Proc /\ r \notin Writer /\ WakeWriters(r, "idle") /\ pc[r] = "copy"
      /\ lock' = None /\ UNCHANGED <<pipe, fdopen>> /\ torn' = torn
      /\ i' = [i EXCEPT ![r] = 0]
  BY ProcFacts DEF ReadDone, At, Return, proc
<1>2. Moves(r, "copy", "idle")
  BY SMTT(300), <1>1, MovesIs DEF IInv, TypeOK
<1>3. "copy" \in Critical /\ "idle" \notin Critical /\ "copy" \notin Gone /\ "idle" \notin Gone
  BY DEF Critical, Gone
<1>4. /\ WriterInv /\ ReaderInv /\ readopen' = readopen
      /\ UNCHANGED <<nread, nwrite, writeopen>> /\ UNCHANGED <<nread, nwrite>>
      /\ \A x \in Proc \ {r} : i'[x] = i[x]
  BY <1>1 DEF IInv, pipe, TypeOK
<1>5. WriterInv'
  BY <1>1, <1>4, NoWriterSleeps
<1>6. ReaderInv'
  BY <1>1, <1>2, <1>4, ReaderFrame
<1> QED
  BY <1>1, <1>2, <1>3, <1>5, <1>6, PlainStep

\* One byte out of the ring: the reader will wake the writers that sleep.
LEMMA ReadByteInv ==
  ASSUME IInv, TypeOK', NEW r \in Reader, ReadByte(r)
  PROVE  IInv'
<1>1. /\ r \in Proc /\ r \notin Writer /\ pc[r] = "copy" /\ lock = r /\ ~Empty
      /\ nread' = (nread + 1) % UMOD /\ nwrite' = nwrite
      /\ torn' = IF nread' = nwrite THEN 0 ELSE torn
      /\ UNCHANGED <<readopen, writeopen, freed, lock, pc, fdopen>>
  BY ProcFacts DEF ReadByte, At, proc
<1>2. TypeOK /\ LockInv /\ RingInv /\ WriterInv /\ ReaderInv
  BY DEF IInv
<1>3. RingInv'
  BY <1>1, <1>2, CountSteps DEF RingInv
<1>4. LockInv' /\ RoleInv' /\ FdInv' /\ CloseInv'
  BY <1>1 DEF IInv, LockInv, RoleInv, FdInv, CloseInv, Peers
<1>5. \A x \in Proc : pc[x] \notin {"full", "empty", "loop"}
  <2>1. pc[r] \in Critical /\ \A x \in Proc : pc[x] \in {"full", "empty", "loop"} => pc[x] \in Critical
    BY <1>1 DEF Critical
  <2> QED
    BY <1>1, <1>2, <2>1, HolderIs
<1>6. WriterInv'
  <2>1. \A x \in Writer : pc[x] # "full" /\ (pc[x] = "wsleep" => readopen = 1)
    BY <1>2, <1>5, ProcFacts DEF WriterInv
  <2> QED
    BY <1>1, <2>1 DEF WriterInv
<1>7. ReaderInv'
  <2>1. \A x \in Reader : pc[x] # "empty" /\ (pc[x] = "rsleep" => writeopen = 1 /\ torn = 1)
    BY <1>1, <1>2, <1>5, ProcFacts DEF ReaderInv
  <2>2. Empty' \/ torn' = torn
    BY <1>1 DEF Empty
  <2> QED
    BY <1>1, <2>1, <2>2 DEF ReaderInv
<1> QED
  BY <1>3, <1>4, <1>6, <1>7 DEF IInv

\* The last close() of a file leads one process of each end to pipeclose().
LEMMA CloseStepInv ==
  ASSUME IInv, TypeOK', NEW p \in Proc, Close(p)
  PROVE  IInv'
<1>1. PICK l \in {"closed", "close"} :
         /\ Goto(p, l)
         /\ l = "close" => \A x \in Peers(p) \ {p} : fdopen[x] # 1
  BY DEF Close
<1>2. /\ pc[p] = "idle" /\ fdopen' = [fdopen EXCEPT ![p] = 0]
      /\ UNCHANGED <<nread, nwrite, readopen, writeopen, freed, lock, i, torn>>
  BY DEF Close, pipe, args
<1>3. /\ TypeOK /\ LockInv /\ RoleInv /\ RingInv /\ FdInv /\ CloseInv /\ WriterInv /\ ReaderInv
      /\ pc \in [Proc -> Inside \cup Outside] /\ fdopen \in [Proc -> {0, 1}]
  BY DEF IInv, TypeOK
<1>4. Moves(p, "idle", l)
  BY <1>1, <1>2, <1>3, MovesIs
<1>5. "idle" \notin Critical /\ l \notin Critical
  BY DEF Critical
<1>6. LockInv'
  BY <1>2, <1>3, <1>4, <1>5, LockFrame
<1>7. RoleInv'
  BY <1>3, <1>4, RoleFrame
<1>8. RingInv'
  BY <1>2, <1>3, RingFrame
<1>9. /\ pc'[p] = l /\ \A x \in Proc \ {p} : pc'[x] = pc[x]
      /\ fdopen'[p] = 0 /\ \A x \in Proc \ {p} : fdopen'[x] = fdopen[x]
  BY <1>1, <1>2, <1>3 DEF Goto
<1>10. FdInv'
  BY <1>3, <1>9 DEF FdInv
<1>11. CloseInv'
  <2>1. \A x \in Proc : pc[x] = "close" => p \notin Peers(x)
    BY <1>2, <1>3 DEF CloseInv
  <2>2. \A x \in Proc : pc[x] # "free"
    BY <1>2, <1>3 DEF CloseInv
  <2>3. freed # 1
    BY <1>2, <1>3 DEF CloseInv
  <2>4. \A x \in Proc : x \in Peers(p) => Peers(x) = Peers(p) /\ p \in Peers(x)
    BY ProcFacts DEF Peers, Proc
  <2>5. l = "close" => \A x \in Peers(p) \ {p} : pc'[x] = "closed"
    <3> SUFFICES ASSUME l = "close", NEW x \in Peers(p) \ {p} PROVE pc'[x] = "closed"
      OBVIOUS
    <3>1. x \in Proc
      BY DEF Peers, Proc
    <3>2. fdopen[x] = 0
      BY <1>1, <1>3, <3>1
    <3>3. pc[x] \in {"close", "free", "closed"}
      BY <1>3, <3>1, <3>2 DEF FdInv
    <3> QED
      BY <1>9, <2>1, <2>2, <2>4, <3>1, <3>3
  <2>6. \A x \in Proc : pc'[x] = "close" => \A y \in Peers(x) \ {x} : pc'[y] = "closed"
    <3> SUFFICES ASSUME NEW x \in Proc, pc'[x] = "close", NEW y \in Peers(x) \ {x}
                 PROVE  pc'[y] = "closed"
      OBVIOUS
    <3>1. y \in Proc
      BY DEF Peers, Proc
    <3>2. CASE x = p
      BY <1>9, <2>5, <3>2
    <3>3. CASE x # p
      <4>1. pc[x] = "close"
        BY <1>9, <3>3
      <4>2. y # p /\ pc[y] = "closed"
        BY SMTT(300), <1>3, <2>1, <4>1 DEF CloseInv
      <4> QED
        BY <1>9, <3>1, <4>2
    <3> QED
      BY <3>2, <3>3
  <2>7. writeopen' = 0 => \A w \in Writer : pc'[w] \in {"closed", "free"}
    <3> SUFFICES ASSUME writeopen = 0, NEW w \in Writer PROVE pc'[w] \in {"closed", "free"}
      BY <1>2
    <3>1. w \in Proc /\ pc[w] \in {"closed", "free"}
      BY <1>3, ProcFacts DEF CloseInv
    <3> QED
      BY <1>2, <1>9, <3>1
  <2>8. readopen' = 0 => \A r \in Reader : pc'[r] \in {"closed", "free"}
    <3> SUFFICES ASSUME readopen = 0, NEW r \in Reader PROVE pc'[r] \in {"closed", "free"}
      BY <1>2
    <3>1. r \in Proc /\ pc[r] \in {"closed", "free"}
      BY <1>3, ProcFacts DEF CloseInv
    <3> QED
      BY <1>2, <1>9, <3>1
  <2>9. \A x \in Proc : pc'[x] # "free"
    BY <1>9, <2>2
  <2> QED
    BY <1>2, <2>3, <2>6, <2>7, <2>8, <2>9 DEF CloseInv, Peers
<1>12. WriterInv'
  BY <1>2, <1>3, <1>4, WriterFrame
<1>13. ReaderInv'
  BY <1>2, <1>3, <1>4, ReaderFrame
<1> QED
  BY <1>6, <1>7, <1>8, <1>10, <1>11, <1>12, <1>13 DEF IInv

\* kfree() of the pipe.
LEMMA FreeInv ==
  ASSUME IInv, TypeOK', NEW p \in Proc, Free(p)
  PROVE  IInv'
<1>1. /\ pc[p] = "free" /\ Goto(p, "closed") /\ freed' = freed + 1
      /\ UNCHANGED <<nread, nwrite, readopen, writeopen, lock, i, fdopen, torn>>
  BY DEF Free, args, proc
<1>2. /\ TypeOK /\ LockInv /\ RoleInv /\ RingInv /\ FdInv /\ CloseInv /\ WriterInv /\ ReaderInv
      /\ pc \in [Proc -> Inside \cup Outside]
  BY DEF IInv, TypeOK
<1>3. Moves(p, "free", "closed")
  BY <1>1, <1>2, MovesIs
<1>4. /\ "free" \notin Critical /\ "closed" \notin Critical
      /\ "free" \in Gone /\ "closed" \in Gone
  BY DEF Critical, Gone
<1>5. LockInv'
  BY <1>1, <1>2, <1>3, <1>4, LockFrame
<1>6. RoleInv'
  BY <1>2, <1>3, RoleFrame
<1>7. RingInv'
  BY <1>1, <1>2, RingFrame
<1>8. FdInv'
  BY <1>1, <1>2, <1>3, <1>4, FdFrame
<1>9. CloseInv'
  <2>1. \A x \in Proc \ {p} : pc[x] = "closed"
    BY <1>1, <1>2 DEF CloseInv
  <2>2. \A x \in Proc : pc'[x] = "closed"
    BY <1>1, <1>2, <2>1 DEF Goto
  <2> QED
    BY <2>2, ProcFacts DEF CloseInv
<1>10. WriterInv'
  BY <1>1, <1>2, <1>3, WriterFrame
<1>11. ReaderInv'
  BY <1>1, <1>2, <1>3, ReaderFrame
<1> QED
  BY <1>5, <1>6, <1>7, <1>8, <1>9, <1>10, <1>11 DEF IInv

\* pipeclose(): the two ends may be closed in either order, and each closer wakes
\* the other side.
LEMMA PipeCloseInv ==
  ASSUME IInv, TypeOK', NEW p \in Proc, PipeClose(p)
  PROVE  IInv'
<1>1. PICK l \in {"free", "closed"} :
         /\ p \in Writer => WakeReaders(p, l)
         /\ p \notin Writer => WakeWriters(p, l)
         /\ l = "free" <=> (readopen' = 0 /\ writeopen' = 0)
  BY DEF PipeClose, LastClose
<1>2. /\ pc[p] = "close" /\ lock = None
      /\ writeopen' = IF p \in Writer THEN 0 ELSE writeopen
      /\ readopen' = IF p \in Writer THEN readopen ELSE 0
      /\ torn' = IF p \in Writer THEN 0 ELSE torn
      /\ UNCHANGED <<nread, nwrite, freed, lock, i, fdopen>>
  BY DEF PipeClose, args, proc
<1>3. /\ TypeOK /\ LockInv /\ RoleInv /\ RingInv /\ FdInv /\ CloseInv /\ WriterInv /\ ReaderInv
      /\ pc \in [Proc -> Inside \cup Outside]
  BY DEF IInv, TypeOK
<1>4. Moves(p, "close", l)
  BY <1>1, <1>2, <1>3, MovesIs
<1>5. /\ "close" \notin Critical /\ l \notin Critical
      /\ "close" \in Gone /\ l \in Gone
  BY DEF Critical, Gone
<1>6. LockInv'
  BY <1>2, <1>3, <1>4, <1>5, LockFrame
<1>7. RoleInv'
  BY <1>3, <1>4, RoleFrame
<1>8. RingInv'
  BY <1>2, <1>3, RingFrame
<1>9. FdInv'
  BY <1>2, <1>3, <1>4, <1>5, FdFrame
<1>10. CloseInv'
  <2>1. /\ pc'[p] = l
        /\ \A x \in Proc \ {p} : /\ pc'[x] = "close" <=> pc[x] = "close"
                                 /\ pc'[x] = "free" <=> pc[x] = "free"
                                 /\ pc'[x] = "closed" <=> pc[x] = "closed"
    BY <1>4 DEF Moves
  <2>2. \A x \in Proc : pc[x] = "close" /\ x # p => p \notin Peers(x)
    BY <1>2, <1>3 DEF CloseInv
  <2>3. freed # 1 /\ \A x \in Proc : pc[x] # "free"
    BY <1>2, <1>3 DEF CloseInv
  <2>4. \A x \in Peers(p) \ {p} : x \in Proc /\ pc[x] = "closed"
    BY <1>2, <1>3 DEF CloseInv, Peers, Proc
  <2>5. \A x \in Proc : pc'[x] = "close" => \A y \in Peers(x) \ {x} : pc'[y] = "closed"
    <3> SUFFICES ASSUME NEW x \in Proc, pc'[x] = "close", NEW y \in Peers(x) \ {x}
                 PROVE  pc'[y] = "closed"
      OBVIOUS
    <3>1. y \in Proc
      BY DEF Peers, Proc
    <3>2. x # p /\ pc[x] = "close"
      BY <2>1
    <3>3. y # p /\ pc[y] = "closed"
      BY SMTT(300), <1>3, <2>2, <3>2 DEF CloseInv
    <3> QED
      BY <2>1, <3>1, <3>3
  <2>6. writeopen' = 0 => \A w \in Writer : pc'[w] \in {"closed", "free"}
    <3> SUFFICES ASSUME writeopen' = 0, NEW w \in Writer PROVE pc'[w] \in {"closed", "free"}
      OBVIOUS
    <3>1. CASE w = p
      BY <2>1, <3>1
    <3>2. CASE w # p
      <4>1. w \in Proc
        BY ProcFacts
      <4>2. CASE p \in Writer
        BY <2>1, <2>4, <3>2, <4>1, <4>2 DEF Peers
      <4>3. CASE p \notin Writer
        <5>1. pc[w] \in {"closed", "free"}
          BY <1>2, <1>3, <4>3 DEF CloseInv
        <5> QED
          BY <2>1, <3>2, <4>1, <5>1
      <4> QED
        BY <4>2, <4>3
    <3> QED
      BY <3>1, <3>2
  <2>7. readopen' = 0 => \A r \in Reader : pc'[r] \in {"closed", "free"}
    <3> SUFFICES ASSUME readopen' = 0, NEW r \in Reader PROVE pc'[r] \in {"closed", "free"}
      OBVIOUS
    <3>1. CASE r = p
      BY <2>1, <3>1
    <3>2. CASE r # p
      <4>1. r \in Proc
        BY ProcFacts
      <4>2. CASE p \in Writer
        <5>1. pc[r] \in {"closed", "free"}
          BY <1>2, <1>3, <4>2 DEF CloseInv
        <5> QED
          BY <2>1, <3>2, <4>1, <5>1
      <4>3. CASE p \notin Writer
        BY <2>1, <2>4, <3>2, <4>1, <4>3 DEF Peers
      <4> QED
        BY <4>2, <4>3
    <3> QED
      BY <3>1, <3>2
  <2>8. ASSUME NEW x \in Proc, pc'[x] = "free"
        PROVE  /\ readopen' = 0 /\ writeopen' = 0 /\ freed' = 0
               /\ \A y \in Proc \ {x} : pc'[y] = "closed"
    <3>1. x = p /\ l = "free"
      BY <2>1, <2>3, <2>8
    <3>2. readopen' = 0 /\ writeopen' = 0
      BY <1>1, <3>1
    <3>3. freed' = 0
      BY SMTT(300), <1>2, <1>3, <2>3 DEF TypeOK
    <3>4. \A y \in Proc \ {p} : pc'[y] \in {"closed", "free"}
      BY <2>6, <2>7, <3>2, ProcFacts
    <3>5. \A y \in Proc \ {p} : pc'[y] # "free"
      BY <2>1, <2>3
    <3> QED
      BY <3>1, <3>2, <3>3, <3>4, <3>5
  <2>9. freed' # 1
    BY <1>2, <2>3
  <2> QED
    BY <2>5, <2>6, <2>7, <2>8, <2>9 DEF CloseInv, Peers
<1>11. WriterInv'
  <2>1. CASE p \in Writer
    BY <1>2, <1>3, <1>4, <2>1, WriterFrame
  <2>2. CASE p \notin Writer
    <3>1. \A w \in Writer : pc[w] # "full"
      BY <1>2, <1>3, NobodyIn, ProcFacts DEF Critical
    <3> QED
      BY <1>1, <1>2, <1>3, <2>2, <3>1, NoWriterSleeps
  <2> QED
    BY <2>1, <2>2
<1>12. ReaderInv'
  <2>1. CASE p \in Writer
    <3>1. \A r \in Reader : pc[r] # "empty"
      BY <1>2, <1>3, NobodyIn, ProcFacts DEF Critical
    <3> QED
      BY <1>1, <1>2, <1>3, <2>1, <3>1, NoReaderSleeps
  <2>2. CASE p \notin Writer
    BY <1>2, <1>3, <1>4, <2>2, ReaderFrame
  <2> QED
    BY <2>1, <2>2
<1> QED
  BY <1>6, <1>7, <1>8, <1>9, <1>10, <1>11, <1>12 DEF IInv

-----------------------------------------------------------------------------
(* The invariant                                                           *)

\* A new pipe, as pipealloc() leaves it.
LEMMA InvInit ==
  ASSUME Init
  PROVE  IInv
<1>1. TypeOK
  <2>1. data \in [0..(PIPESIZE - 1) -> Byte]
    BY PipeAssumption DEF Init
  <2>2. "idle" \in Inside \cup Outside /\ 0 \in 0..MaxN /\ 0 \in 0..(UMOD - 1)
    BY SMTT(300), PipeAssumption, LabelFacts
  <2> QED
    BY SMTT(300), <2>1, <2>2 DEF Init, TypeOK
<1>2. LockInv /\ RoleInv /\ FdInv /\ CloseInv /\ WriterInv /\ ReaderInv
  BY SMTT(300), ProcFacts
     DEF Init, LockInv, RoleInv, FdInv, CloseInv, WriterInv, ReaderInv,
     Critical
<1>3. RingInv
  <2>1. Count = 0
    BY <1>1, CountFacts DEF Init, Empty
  <2> QED
    BY SMTT(300), <2>1, PipeAssumption DEF RingInv
<1> QED
  BY <1>1, <1>2, <1>3 DEF IInv

\* Every step preserves IInv.
LEMMA InvNext ==
  ASSUME IInv, [Next]_vars
  PROVE  IInv'
<1>1. ASSUME NEW w \in Writer, Write(w) PROVE IInv'
  <2>1. TypeOK'
    BY <1>1, WriteTypes DEF IInv
  <2> QED
    BY <1>1, <2>1, WriteDoneInv, WriteFailInv, WriteByteInv, WriteFullInv,
       WriteSleepInv
       DEF Write
<1>2. ASSUME NEW r \in Reader, Read(r) PROVE IInv'
  <2>1. TypeOK'
    BY <1>2, ReadTypes DEF IInv
  <2> QED
    BY <1>2, <2>1, ReadKilledInv, ReadEmptyInv, ReadStartInv, ReadByteInv,
       ReadDoneInv
       DEF Read
<1>3. ASSUME NEW p \in Proc,
             \/ Call(p) \/ Acquire(p) \/ Close(p) \/ PipeClose(p) \/ Free(p)
             \/ Kill(p) \/ Exit(p)
      PROVE  IInv'
  <2>1. TypeOK'
    BY <1>3, OtherTypes DEF IInv
  <2> QED
    BY <1>3, <2>1, CallInv, AcquireInv, CloseStepInv, PipeCloseInv, FreeInv,
       KillInv, ExitInv
<1>4. CASE UNCHANGED vars
  BY <1>4
     DEF vars, pipe, args, proc, IInv, TypeOK, LockInv, RoleInv, RingInv,
     Count, FdInv,
              CloseInv, Peers, WriterInv, ReaderInv, Full, Empty
<1> QED
  BY <1>1, <1>2, <1>3, <1>4 DEF Next

\* IInv holds in every reachable state of every pipe.
THEOREM PipeInvariant == Spec => []IInv
BY InvInit, InvNext, PTL DEF Spec

\* TypeOK: the fields of struct pipe and the locals keep their ranges; the page is
\* freed at most once.
THEOREM PipeTypes == Spec => []TypeOK
<1>1. IInv => TypeOK
  BY DEF IInv
<1> QED
  BY <1>1, PipeInvariant, PTL

\* NoLostWakeup: for any number of writers and readers, whenever pi->lock is free,
\* pipewrite() sleeps only on a full ring and piperead() only on an empty one.
THEOREM PipeWakesSleepers == Spec => []NoLostWakeup
<1>1. ASSUME IInv PROVE NoLostWakeup
  <2> SUFFICES ASSUME lock = None
               PROVE  /\ \A w \in Writer : pc[w] = "wsleep" => Full /\ readopen = 1
                      /\ \A r \in Reader : pc[r] = "rsleep" =>
                           (Empty /\ writeopen = 1) \/ torn = 1
    BY DEF NoLostWakeup
  <2>1. \A x \in Proc : pc[x] \notin {"copy", "loop", "full"}
    BY <1>1, NobodyIn DEF IInv, Critical
  <2>2. WriterInv /\ ReaderInv
    BY <1>1 DEF IInv
  <2> QED
    BY <2>1, <2>2, ProcFacts DEF WriterInv, ReaderInv
<1> QED
  BY <1>1, PipeInvariant, PTL

\* NoUseAfterFree: however the closers of the two ends race, after pipeclose() has
\* freed the page nobody is in the pipe code or has a file that leads there.
THEOREM PipeFreedLast == Spec => []NoUseAfterFree
<1>1. ASSUME IInv PROVE NoUseAfterFree
  BY <1>1 DEF IInv, CloseInv, FdInv, NoUseAfterFree
<1> QED
  BY <1>1, PipeInvariant, PTL

-----------------------------------------------------------------------------
(* The ring implements the queue                                           *)

\* nwrite is Count places after nread in the ring.
LEMMA WritePlace ==
  ASSUME TypeOK
  PROVE  nwrite % PIPESIZE = (nread + Count) % PIPESIZE
<1>1. nread \in Int /\ nwrite \in Int /\ UMOD \in Int
  BY SMTT(300), PipeAssumption DEF TypeOK
<1>2. Count = IF nread <= nwrite THEN nwrite - nread ELSE nwrite - nread + UMOD
  BY DiffIs DEF Count, TypeOK
<1>3. CASE nread <= nwrite
  <2>1. nread + Count = nwrite
    BY SMTT(300), <1>1, <1>2, <1>3
  <2> QED
    BY <2>1
<1>4. CASE ~(nread <= nwrite)
  <2>1. PICK x \in Int : x = nread + Count
    BY SMTT(300), <1>1, <1>2, <1>4
  <2>2. nwrite = x - UMOD
    BY SMTT(300), <1>1, <1>2, <1>4, <2>1
  <2> QED
    BY <2>1, <2>2, RingPeriod
<1> QED
  BY <1>3, <1>4

\* Bytes of the ring, from place r on, as a sequence.
LEMMA RingSeq ==
  ASSUME NEW f \in [0..(PIPESIZE - 1) -> Byte], NEW r \in Int, NEW c \in Nat
  PROVE  /\ [k \in 1..c |-> f[(r + k - 1) % PIPESIZE]] \in Seq(Byte)
         /\ Len([k \in 1..c |-> f[(r + k - 1) % PIPESIZE]]) = c
<1>1. \A k \in 1..c : f[(r + k - 1) % PIPESIZE] \in Byte
  <2> SUFFICES ASSUME NEW k \in 1..c PROVE f[(r + k - 1) % PIPESIZE] \in Byte
    OBVIOUS
  <2>1. PICK x \in Int : x = r + k - 1
    BY SMTT(300)
  <2>2. x % PIPESIZE \in 0..(PIPESIZE - 1)
    BY SMTT(300), PipeAssumption
  <2> QED
    BY <2>1, <2>2
<1> DEFINE g == [k \in 1..c |-> f[(r + k - 1) % PIPESIZE]]
<1>2. g \in [1..c -> Byte]
  BY <1>1
<1>3. \A h \in [1..c -> Byte] : h \in Seq(Byte) /\ Len(h) = c
  BY SMTT(300)
<1> QED
  BY <1>2, <1>3

\* The queue is a sequence of Count bytes.
LEMMA QueueIs ==
  ASSUME TypeOK
  PROVE  Queue \in Seq(Byte) /\ Len(Queue) = Count /\ Count \in Nat
<1>1. data \in [0..(PIPESIZE - 1) -> Byte] /\ nread \in Int /\ Count \in Nat
  BY SMTT(300), CountFacts DEF TypeOK
<1> QED
  BY <1>1, RingSeq DEF Queue

\* The counters stand and so does the queue.
LEMMA QueueFrame ==
  ASSUME UNCHANGED <<data, nread, nwrite>>
  PROVE  Queue' = Queue
BY DEF Queue, Count

\* One more byte in the ring is one more at the end of the queue: its place holds
\* no byte that is still to be read.
LEMMA WriteIsPut ==
  ASSUME IInv, IInv', NEW w \in Writer, WriteByte(w)
  PROVE  \E b \in Byte : Abs!Put(b)
<1>1. PICK b \in Byte : data' = [data EXCEPT ![nwrite % PIPESIZE] = b]
  BY DEF WriteByte
<1>2. /\ TypeOK /\ TypeOK' /\ Count <= PIPESIZE /\ ~Full /\ nread' = nread
      /\ nwrite' = (nwrite + 1) % UMOD
  BY DEF WriteByte, IInv, RingInv
<1>3. /\ Count \in Nat /\ Count' = Count + 1 /\ Count < PIPESIZE
      /\ nread \in Int /\ PIPESIZE \in Nat \ {0}
  BY SMTT(300), <1>2, CountFacts, CountSteps, PipeAssumption DEF TypeOK
<1>4. Queue \in Seq(Byte) /\ Len(Queue) = Count
  BY <1>2, QueueIs
<1>5. Queue' \in Seq(Byte) /\ Len(Queue') = Count'
  <2>1. data' \in [0..(PIPESIZE - 1) -> Byte] /\ nread' \in Int /\ Count' \in Nat
    BY SMTT(300), <1>2, <1>3 DEF TypeOK
  <2> QED
    BY <2>1, RingSeq DEF Queue
<1>6. /\ Append(Queue, b) \in Seq(Byte) /\ Len(Append(Queue, b)) = Count + 1
      /\ \A k \in 1..Count : Append(Queue, b)[k] = Queue[k]
      /\ Append(Queue, b)[Count + 1] = b
  <2>1. PICK s \in Seq(Byte) : s = Queue
    BY <1>4
  <2>2. /\ Append(s, b) \in Seq(Byte) /\ Len(Append(s, b)) = Len(s) + 1
        /\ \A k \in 1..Len(s) : Append(s, b)[k] = s[k]
        /\ Append(s, b)[Len(s) + 1] = b
    BY SMTT(300)
  <2> QED
    BY <1>4, <2>1, <2>2
<1>7. nwrite % PIPESIZE = (nread + Count) % PIPESIZE
  BY <1>2, WritePlace
<1>8. data \in [0..(PIPESIZE - 1) -> Byte]
  BY <1>2 DEF TypeOK
<1>9. \A x \in Int : x % PIPESIZE \in 0..(PIPESIZE - 1)
  BY SMTT(300), <1>3
<1>10. ASSUME NEW k \in 1..Count PROVE Queue'[k] = Queue[k]
  <2>1. PICK x \in Int, d \in 1..(PIPESIZE - 1) : x = nread + k - 1 /\ x + d = nread + Count
    <3>1. nread + k - 1 \in Int /\ Count - k + 1 \in 1..(PIPESIZE - 1)
      BY SMTT(300), <1>3
    <3>2. (nread + k - 1) + (Count - k + 1) = nread + Count
      BY SMTT(300), <1>3
    <3> QED
      BY <3>1, <3>2
  <2>2. x % PIPESIZE # nwrite % PIPESIZE
    BY <1>7, <2>1, RingDistinct
  <2>3. data'[x % PIPESIZE] = data[x % PIPESIZE]
    BY <1>1, <1>8, <1>9, <2>2
  <2>4. k \in 1..Count'
    BY SMTT(300), <1>3
  <2>5. Queue'[k] = data'[x % PIPESIZE]
    BY <1>2, <2>1, <2>4 DEF Queue
  <2>6. Queue[k] = data[x % PIPESIZE]
    BY <2>1 DEF Queue
  <2> QED
    BY <2>3, <2>5, <2>6
<1>11. Queue'[Count + 1] = b
  <2>1. PICK x \in Int : x = nread + (Count + 1) - 1 /\ x = nread + Count
    BY SMTT(300), <1>3
  <2>2. x % PIPESIZE = nwrite % PIPESIZE /\ x % PIPESIZE \in 0..(PIPESIZE - 1)
    BY <1>7, <1>9, <2>1
  <2>3. data'[x % PIPESIZE] = b
    BY <1>1, <1>8, <2>2
  <2>4. Count + 1 \in 1..Count'
    BY SMTT(300), <1>3
  <2> QED
    BY <1>2, <2>1, <2>3, <2>4 DEF Queue
<1>12. \A k \in 1..(Count + 1) : Queue'[k] = Append(Queue, b)[k]
  <2>1. \A k \in 1..(Count + 1) : k \in 1..Count \/ k = Count + 1
    BY SMTT(300), <1>3
  <2> QED
    BY <1>6, <1>10, <1>11, <2>1
<1>13. Queue' = Append(Queue, b)
  BY <1>3, <1>5, <1>6, <1>12, SeqEqual
<1>14. Len(Queue) < PIPESIZE
  BY <1>3, <1>4
<1> QED
  BY <1>13, <1>14 DEF Abs!Put

\* One byte less in the ring is the first of the queue, also where nread wraps.
LEMMA ReadIsGet ==
  ASSUME IInv, IInv', NEW r \in Reader, ReadByte(r)
  PROVE  Abs!Get
<1>1. /\ TypeOK /\ TypeOK' /\ Count <= PIPESIZE /\ ~Empty /\ nwrite' = nwrite
      /\ nread' = (nread + 1) % UMOD /\ data' = data
  BY DEF ReadByte, IInv, RingInv
<1>2. Count \in Nat /\ Count' = Count - 1 /\ Count # 0 /\ nread \in 0..(UMOD - 1)
  <2>1. Count' = Count - 1
    BY <1>1, CountSteps
  <2>2. Count \in 0..(UMOD - 1) /\ Count # 0
    BY <1>1, CountFacts
  <2> QED
    BY SMTT(300), <1>1, <2>1, <2>2 DEF TypeOK
<1>3. Queue \in Seq(Byte) /\ Len(Queue) = Count
  BY <1>1, QueueIs
<1>4. Queue' \in Seq(Byte) /\ Len(Queue') = Count'
  <2>1. data' \in [0..(PIPESIZE - 1) -> Byte] /\ nread' \in Int /\ Count' \in Nat
    BY SMTT(300), <1>1, <1>2 DEF TypeOK
  <2> QED
    BY <2>1, RingSeq DEF Queue
<1>5. Queue # <<>>
  BY <1>2, <1>3, EmptySeq
<1>6. /\ Tail(Queue) \in Seq(Byte) /\ Len(Tail(Queue)) = Count - 1
      /\ \A k \in 1..(Count - 1) : Tail(Queue)[k] = Queue[k + 1]
  BY <1>3, <1>5, HeadTailProperties
<1>7. ASSUME NEW k \in 1..(Count - 1) PROVE Queue'[k] = Queue[k + 1]
  <2>1. PICK x \in Int, y \in Int : x = nread + (k + 1) - 1 /\ y = nread' + k - 1
    BY SMTT(300), <1>1, <1>2 DEF TypeOK
  <2>2. y = x \/ y = x - UMOD
    <3>1. nread' = IF nread + 1 = UMOD THEN 0 ELSE nread + 1
      BY <1>1, <1>2, IncIs
    <3> QED
      BY SMTT(300), <1>2, <2>1, <3>1, PipeAssumption
  <2>3. y % PIPESIZE = x % PIPESIZE
    BY <2>2, RingPeriod
  <2>4. k \in 1..Count' /\ k + 1 \in 1..Count
    BY SMTT(300), <1>2
  <2>5. Queue'[k] = data[y % PIPESIZE]
    BY <1>1, <2>1, <2>4 DEF Queue
  <2>6. Queue[k + 1] = data[x % PIPESIZE]
    BY <2>1, <2>4 DEF Queue
  <2> QED
    BY <2>3, <2>5, <2>6
<1>8. Queue' = Tail(Queue)
  <2>1. \A k \in 1..Len(Queue') : Queue'[k] = Tail(Queue)[k]
    BY <1>2, <1>4, <1>6, <1>7
  <2>2. Len(Queue') = Len(Tail(Queue))
    BY <1>2, <1>4, <1>6
  <2> QED
    BY <1>4, <1>6, <2>1, <2>2, SeqEqual
<1> QED
  BY <1>5, <1>8 DEF Abs!Get

\* ImplementsFifo: for any number of writers and readers, any capacity and any
\* length of the calls, pipewrite() and piperead() implement a bounded queue.
THEOREM PipeIsFifo == Spec => ImplementsFifo
<1>1. ASSUME Init PROVE Abs!Init
  <2>1. Queue \in Seq(Byte) /\ Len(Queue) = Count /\ Count = 0
    BY <1>1, InvInit, QueueIs, CountFacts DEF IInv, Init, Empty
  <2> QED
    BY <2>1, EmptySeq DEF Abs!Init
<1>2. ASSUME IInv, IInv', [Next]_vars PROVE [Abs!Next]_Queue
  <2>1. ASSUME NEW w \in Writer, Write(w) PROVE Abs!Next \/ Queue' = Queue
    <3>1. CASE WriteByte(w)
      BY <1>2, <3>1, WriteIsPut DEF Abs!Next
    <3>2. CASE ~WriteByte(w)
      BY <2>1, <3>2, QueueFrame
         DEF Write, WriteDone, WriteFail, WriteFull, WriteSleep, pipe
    <3> QED
      BY <3>1, <3>2
  <2>2. ASSUME NEW r \in Reader, Read(r) PROVE Abs!Next \/ Queue' = Queue
    <3>1. CASE ReadByte(r)
      BY <1>2, <3>1, ReadIsGet DEF Abs!Next
    <3>2. CASE ~ReadByte(r)
      BY <2>2, <3>2, QueueFrame
         DEF Read, ReadKilled, ReadEmpty, ReadSleep, ReadStart, ReadDone, pipe
    <3> QED
      BY <3>1, <3>2
  <2>3. ASSUME NEW p \in Proc,
               \/ Call(p) \/ Acquire(p) \/ Close(p) \/ PipeClose(p) \/ Free(p)
               \/ Kill(p) \/ Exit(p)
        PROVE  Queue' = Queue
    BY <2>3, QueueFrame
       DEF Call, Acquire, Close, PipeClose, Free, Kill, Exit, pipe
  <2>4. CASE UNCHANGED vars
    BY <2>4, QueueFrame DEF vars, pipe
  <2> QED
    BY <1>2, <2>1, <2>2, <2>3, <2>4 DEF Next
<1> QED
  BY <1>1, <1>2, PipeInvariant, PTL DEF Spec, ImplementsFifo, Abs!Spec
=============================================================================
