--------------------------- MODULE SpinlockProofs ---------------------------
(***************************************************************************)
(* Spinlocks, interrupt nesting and context switches, for any number of    *)
(* CPUs, threads and locks.                                                *)
(*                                                                         *)
(* All that a CPU does is done by the context it executes, so the          *)
(* invariant speaks of CPUs: of the critical sections CPU c is inside,     *)
(* the locks that name c in lk->cpu and the push_off() calls of c.  A      *)
(* step of acquire(), release() or pop_off() changes these for one CPU and *)
(* leaves its context in place; interrupts and context switches replace    *)
(* the context and leave these as they are.                                *)
(***************************************************************************)
EXTENDS Spinlock, FiniteSetTheorems, TLAPS

\* A context that no CPU executes holds no lock and is between calls.
Quiet(x) == pc[x] \in {"run", "on"} /\ lk[x] = None /\ held[x] = {}

\* acquire() from push_off() on, release() up to pop_off().
Pushed == {"check", "spin", "own", "unlock", "pop"}

\* push_off() calls of context x that are not popped.
Depth(x) == Cardinality(held[x]) + (IF pc[x] \in Pushed THEN 1 ELSE 0)

\* The locks in whose critical section CPU c is, those that it holds by
\* lk->cpu, and its push_off() calls.
Inside(c) == Owns(Active(c))
Keeps(c)  == held[Active(c)]
Pushes(c) == Depth(Active(c))

\* The nesting of locks, as far as it shows in a context.
Ordered(x) ==
  /\ pc[x] # "panic"
  /\ lk[x] # None <=> pc[x] \in {"check", "spin", "own", "unlock"}
  /\ IsFiniteSet(held[x])
  /\ pc[x] \in {"check", "spin", "own"} => \A h \in held[x] : <<h, lk[x]>> \in Nests
  /\ pc[x] = "unlock" => lk[x] \notin held[x]

\* A thread is on one CPU at most, and on none while it is RUNNABLE.
CurInv ==
  /\ \A c \in Cpu : cur[c] \in Cpu => cur[c] = c
  /\ \A c, d \in Cpu : cur[c] = cur[d] => c = d
  /\ \A c \in Cpu : cur[c] \in Thread
                      => ready[cur[c]] = 0 /\ saved[cur[c]] = None

\* All that happens in acquire() and release() is done by contexts on a CPU.
QuietInv ==
  /\ \A x \in Context : (\A c \in Cpu : x # Active(c)) => Quiet(x)
  /\ \A x \in Context : pc[x] = "on" => x \in Cpu /\ cur[x] = x /\ held[x] = {}

\* No context panics, or nests its locks in another way.
OrderInv == \A x \in Context : Ordered(x)

\* noff counts, and interrupts are off inside critical sections and handlers.
NoffInv ==
  \A c \in Cpu :
    /\ noff[c] = Pushes(c)
    /\ intr[c] = 1 => noff[c] = 0 /\ irq[c] = 0
    /\ irq[c] = 1 /\ noff[c] > 0 => intena[c] = 0

\* A lock is taken while one CPU is in its critical section; lk->cpu names the
\* CPU that holds it.
LockInv ==
  /\ \A l \in Lock : locked[l] = 1 <=> \E c \in Cpu : l \in Inside(c)
  /\ \A c, d \in Cpu : Inside(c) \cap Inside(d) # {} => c = d
  /\ \A l \in Lock, c \in Cpu : lcpu[l] = c <=> l \in Keeps(c)

\* The interrupt state of a thread once it is out of its critical sections.
BaseInv ==
  /\ \A c \in Cpu : cur[c] \in Thread =>
       /\ irq[c] = 1 => base[cur[c]] = 1
       /\ irq[c] = 0 /\ noff[c] = 0 => intr[c] = base[cur[c]]
       /\ irq[c] = 0 /\ noff[c] > 0 => intena[c] = base[cur[c]]
  /\ \A t \in Thread : saved[t] # None => saved[t] = base[t]

\* The same for scheduler() that has found nothing to run.
SchedInv ==
  \A c \in Cpu : cur[c] = c /\ found[c] = 0 /\ pc[c] # "on" =>
    /\ irq[c] = 0
    /\ noff[c] = 0 => intr[c] = 0
    /\ noff[c] > 0 => intena[c] = 0

IInv ==
  /\ TypeOK /\ CurInv /\ QuietInv /\ OrderInv /\ NoffInv /\ LockInv
  /\ BaseInv /\ SchedInv

\* What a step may do to the critical sections: nothing, or one CPU enters or
\* leaves one.
Same == \A d \in Cpu : Inside(d)' = Inside(d)

Takes(c, l) ==
  /\ l \in Lock /\ \A d \in Cpu : l \notin Inside(d)
  /\ Inside(c)' = Inside(c) \cup {l}
  /\ \A d \in Cpu \ {c} : Inside(d)' = Inside(d)

Gives(c, l) ==
  /\ l \in Lock /\ l \in Inside(c)
  /\ Inside(c)' = Inside(c) \ {l}
  /\ \A d \in Cpu \ {c} : Inside(d)' = Inside(d)

\* A step of context x, and a step of CPU c, as the others see it.
OnlyContext(x) ==
  \A y \in Context \ {x} : pc'[y] = pc[y] /\ lk'[y] = lk[y] /\ held'[y] = held[y]
OnlyCpu(c) ==
  \A d \in Cpu \ {c} : intr'[d] = intr[d] /\ noff'[d] = noff[d]
                       /\ intena'[d] = intena[d]
Others(c) ==
  \A d \in Cpu \ {c} : Inside(d)' = Inside(d) /\ Keeps(d)' = Keeps(d)
                       /\ Pushes(d)' = Pushes(d)

USE ZenonT(120)

-----------------------------------------------------------------------------
(* Contexts and CPUs *)

\* A handler context is no thread and no scheduler, and has one CPU.
LEMMA IrqOwn ==
  \A c, d \in Cpu : Irq(c) \notin Cpu \cup Thread /\ (Irq(c) = Irq(d) => c = d)
  BY SpinlockAssumption DEF Irq

\* Every CPU executes a context of its own.
LEMMA ActiveOwn ==
  ASSUME TypeOK, CurInv
  PROVE  /\ \A c \in Cpu : Active(c) \in Context
         /\ \A c, d \in Cpu : Active(c) = Active(d) => c = d
  BY SMTT(300), IrqOwn DEF TypeOK, CurInv, Active, Context

\* A CPU that executes a thread or scheduler() is not in a handler.
LEMMA NoHandler ==
  ASSUME NEW c \in Cpu, TypeOK, Active(c) \in Cpu \cup Thread
  PROVE  irq[c] = 0 /\ cur[c] = Active(c)
  BY IrqOwn DEF Active, TypeOK

\* Nobody asks for a lock that it holds.
LEMMA NoSelf == \A l \in Lock : <<l, l>> \notin Nests
  <1>1. ASSUME NEW l \in Lock PROVE <<l, l>> \notin Nests
    <2>1. {l} \in SUBSET (Thread \cup Dev) /\ {l} # {}
          BY DEF Lock
    <2>2. PICK k \in {l} : \A m \in {l} : <<k, m>> \notin Nests
          BY <2>1, NestsAssumption
    <2> QED BY <2>2
  <1> QED BY <1>1

\* A context holds a number of locks.
LEMMA HeldNumber ==
  ASSUME IInv, NEW x \in Context
  PROVE  Cardinality(held[x]) \in Nat
  <1>1. IsFiniteSet(held[x])
        BY DEF IInv, OrderInv, Ordered
  <1> QED BY <1>1, FS_CardinalityType

\* Outside critical sections every push_off() is popped.
LEMMA NotNested ==
  ASSUME NEW c \in Cpu, NoffInv, pc[Active(c)] \notin Pushed, held[Active(c)] = {}
  PROVE  noff[c] = 0
  <1>1. Pushes(c) = 0
        BY SMTT(300), FS_EmptySet DEF Pushes, Depth
  <1> QED BY <1>1 DEF NoffInv

\* lk->cpu names a CPU only inside its critical section.
LEMMA KeepsInside == \A c \in Cpu : Keeps(c) \subseteq Inside(c)
  BY DEF Keeps, Inside, Owns

\* Nobody executes the handler context of a CPU that is in no handler, nor the
\* context that a handler has interrupted.
LEMMA Idle ==
  ASSUME IInv, NEW c \in Cpu
  PROVE  /\ irq[c] = 0 => Quiet(Irq(c))
         /\ irq[c] = 1 => Quiet(cur[c])
  <1>1. TypeOK /\ CurInv /\ QuietInv
        BY DEF IInv
  <1>2. Irq(c) \in Context /\ cur[c] \in Context
        BY <1>1 DEF Context, TypeOK
  <1>3. irq[c] = 0 => \A d \in Cpu : Irq(c) # Active(d)
        BY SMTT(300), <1>1, IrqOwn DEF Active, TypeOK
  <1>4. irq[c] = 1 => \A d \in Cpu : cur[c] # Active(d)
        BY SMTT(300), <1>1, IrqOwn DEF Active, TypeOK, CurInv
  <1> QED BY <1>1, <1>2, <1>3, <1>4 DEF QuietInv

-----------------------------------------------------------------------------
(* What a step of acquire(), release() or pop_off() leaves alone *)

\* The CPUs keep their contexts, and what CPU c does to its own is not seen by
\* the others.
LEMMA LocalStep ==
  ASSUME IInv, NEW c \in Cpu, NEW x \in Context, x = Active(c),
         UNCHANGED <<cur, irq>>, OnlyContext(x)
  PROVE  Active(c)' = x /\ Others(c)
  <1>1. \A d \in Cpu : Active(d)' = Active(d)
        BY DEF Active
  <1>2. \A d \in Cpu \ {c} : Active(d) \in Context /\ Active(d) # x
        BY ActiveOwn DEF IInv
  <1> QED BY <1>1, <1>2
          DEF OnlyContext, Others, Inside, Owns, Keeps, Pushes, Depth

\* A context that is not about to turn interrupts on leaves the handlers quiet.
LEMMA LocalQuiet ==
  ASSUME IInv, NEW c \in Cpu, NEW x \in Context, x = Active(c),
         UNCHANGED <<cur, irq>>, OnlyContext(x), pc'[x] # "on"
  PROVE  QuietInv'
  <1>1. \A d \in Cpu : Active(d)' = Active(d)
        BY DEF Active
  <1>2. QuietInv
        BY DEF IInv
  <1> QED BY SMTT(300), <1>1, <1>2 DEF QuietInv, Quiet, OnlyContext

\* A context leaves the nesting of the others as it is, whatever it does to its own.
LEMMA LocalOrder ==
  ASSUME IInv, NEW x \in Context, OnlyContext(x), Ordered(x)'
  PROVE  OrderInv'
  <1>1. OrderInv
        BY DEF IInv
  <1>2. ASSUME NEW y \in Context, y # x PROVE Ordered(y)'
        BY <1>1, <1>2 DEF OrderInv, OnlyContext, Ordered
  <1> QED BY <1>2 DEF OrderInv

\* No context switch: every thread stays where it was.
LEMMA SameCur ==
  ASSUME IInv, UNCHANGED <<cur, ready, saved>>
  PROVE  CurInv'
  <1>1. CurInv
        BY DEF IInv
  <1> QED BY <1>1 DEF CurInv

\* push_off() and pop_off() untouched: noff still counts the pushes.
LEMMA SameNoff ==
  ASSUME IInv, NEW c \in Cpu, Others(c), Pushes(c)' = Pushes(c),
         UNCHANGED <<intr, noff, intena, irq>>
  PROVE  NoffInv'
  <1>1. NoffInv
        BY DEF IInv
  <1> QED BY <1>1 DEF NoffInv, Others

\* The lock words untouched and nobody in or out: the owners are the same.
LEMMA SameLock ==
  ASSUME IInv, NEW c \in Cpu, Others(c), Inside(c)' = Inside(c),
         Keeps(c)' = Keeps(c), UNCHANGED <<locked, lcpu>>
  PROVE  LockInv' /\ Same
  <1>1. LockInv
        BY DEF IInv
  <1>2. \A d \in Cpu : Inside(d)' = Inside(d) /\ Keeps(d)' = Keeps(d)
        BY DEF Others
  <1> QED BY SMTT(300), <1>1, <1>2 DEF LockInv, Same

\* The CPU's interrupt state untouched: it is still the one to be restored.
LEMMA SameBase ==
  ASSUME IInv, UNCHANGED <<intr, noff, intena, cur, irq, saved, base>>
  PROVE  BaseInv'
  <1>1. BaseInv
        BY DEF IInv
  <1> QED BY <1>1 DEF BaseInv

\* A step outside wfi keeps what the scheduler knows of its interrupts.
LEMMA SameSched ==
  ASSUME IInv, UNCHANGED <<intr, noff, intena, cur, irq, found>>,
         NEW x \in Context, OnlyContext(x), pc[x] # "on"
  PROVE  SchedInv'
  <1>1. SchedInv
        BY DEF IInv
  <1>2. \A d \in Cpu : pc'[d] # "on" => pc[d] # "on"
        BY DEF OnlyContext, Context
  <1> QED BY <1>1, <1>2 DEF SchedInv

-----------------------------------------------------------------------------
(* acquire() *)

\* push_off(), and the nesting of the callers.
LEMMA AcquireInv ==
  ASSUME IInv, NEW c \in Cpu, NEW x \in Context, NEW l \in Lock,
         Acquire(c, x, l)
  PROVE  IInv' /\ Same
  <1>1. /\ x = Active(c) /\ pc[x] = "run" /\ (\A h \in held[x] : <<h, l>> \in Nests)
        /\ lk' = [lk EXCEPT ![x] = l]
        /\ pc' = [pc EXCEPT ![x] = "check"]
        /\ held' = held
        BY DEF Acquire, At, Goto
  <1>2. /\ intr' = [intr EXCEPT ![c] = 0]
        /\ intena' = [intena EXCEPT ![c] = IF noff[c] = 0 THEN intr[c] ELSE @]
        /\ noff' = [noff EXCEPT ![c] = @ + 1]
        BY DEF Acquire, push_off
  <1>3. UNCHANGED <<locked, lcpu, cur, irq, saved, ready, found, base>>
        BY DEF Acquire, spin, where, sw
  <1>4. TypeOK /\ OrderInv /\ NoffInv /\ BaseInv /\ SchedInv
        BY DEF IInv
  <1>5. /\ pc'[x] = "check" /\ lk'[x] = l /\ held'[x] = held[x]
        /\ OnlyContext(x)
        BY <1>1, <1>4 DEF TypeOK, OnlyContext
  <1>6. /\ intr'[c] = 0 /\ noff'[c] = noff[c] + 1
        /\ intena'[c] = IF noff[c] = 0 THEN intr[c] ELSE intena[c]
        /\ OnlyCpu(c)
        BY <1>2, <1>4 DEF TypeOK, OnlyCpu
  <1>7. Active(c)' = x /\ Others(c)
        BY <1>1, <1>3, <1>5, LocalStep
  <1>8. Inside(c)' = Inside(c) /\ Keeps(c)' = Keeps(c)
        BY <1>1, <1>5, <1>7 DEF Inside, Owns, Keeps
  <1>9. Pushes(c)' = Pushes(c) + 1
        BY SMTT(300), <1>1, <1>5, <1>7, HeldNumber DEF Pushes, Depth, Pushed
  <1>10. TypeOK'
         BY SMTT(300), <1>1, <1>2, <1>3, <1>4 DEF TypeOK, Labels
  <1>11. CurInv' /\ QuietInv'
         BY <1>1, <1>3, <1>5, SameCur, LocalQuiet
  <1>12. Ordered(x)
         BY <1>4 DEF OrderInv
  <1>13. Ordered(x)'
         BY <1>1, <1>5, <1>12, SpinlockAssumption
            DEF Ordered, Lock
  <1>14. noff[c] \in Nat /\ intr[c] \in {0, 1}
         BY <1>4 DEF TypeOK
  <1>15. NoffInv'
         BY SMTT(300), <1>3, <1>4, <1>6, <1>7, <1>9, <1>14
            DEF NoffInv, Others, OnlyCpu
  <1>16. LockInv' /\ Same
         BY <1>3, <1>7, <1>8, SameLock
  <1>17. irq[c] = 1 /\ noff[c] = 0 => intr[c] = 0
         BY <1>4, <1>14 DEF NoffInv
  <1>18. BaseInv'
         BY SMTT(300), <1>3, <1>4, <1>6, <1>14 DEF BaseInv, OnlyCpu
  <1>19. \A d \in Cpu : pc'[d] # "on" => pc[d] # "on"
         BY <1>1, <1>5 DEF OnlyContext, Context
  <1>20. SchedInv'
         BY SMTT(300), <1>3, <1>4, <1>6, <1>14, <1>19 DEF SchedInv, OnlyCpu
  <1> QED BY <1>5, <1>10, <1>11, <1>13, <1>15, <1>16, <1>18, <1>20, LocalOrder
          DEF IInv

\* The check of acquire() passes: no CPU acquires a lock that it holds.
LEMMA AcquireCheckInv ==
  ASSUME IInv, NEW c \in Cpu, NEW x \in Context, AcquireCheck(c, x)
  PROVE  IInv' /\ Same
  <1>1. /\ x = Active(c) /\ pc[x] = "check"
        /\ pc' = [pc EXCEPT ![x] = IF holding(c, lk[x]) THEN "panic" ELSE "spin"]
        BY DEF AcquireCheck, At, Goto
  <1>2. /\ UNCHANGED <<locked, lcpu, intr, noff, intena, cur, irq, lk, held>>
        /\ UNCHANGED <<saved, ready, found, base>>
        BY DEF AcquireCheck, spin, cpu, where, sw
  <1>3. TypeOK /\ OrderInv /\ LockInv
        BY DEF IInv
  <1>4. lk[x] \in Lock \cup {None} /\ Ordered(x)
        BY <1>3 DEF TypeOK, OrderInv
  <1>5. lk[x] \in Lock /\ lk[x] \notin Keeps(c)
        BY <1>1, <1>4, NoSelf DEF Ordered, Keeps
  <1>6. lcpu[lk[x]] # c
        BY <1>3, <1>5 DEF LockInv
  <1>7. pc' = [pc EXCEPT ![x] = "spin"]
        BY <1>1, <1>6 DEF holding
  <1>8. pc'[x] = "spin" /\ lk'[x] = lk[x] /\ held'[x] = held[x] /\ OnlyContext(x)
        BY <1>2, <1>3, <1>7 DEF TypeOK, OnlyContext
  <1>9. Active(c)' = x /\ Others(c)
        BY <1>1, <1>2, <1>8, LocalStep
  <1>10. Inside(c)' = Inside(c) /\ Keeps(c)' = Keeps(c)
        BY <1>1, <1>8, <1>9 DEF Inside, Owns, Keeps
  <1>11. Pushes(c)' = Pushes(c)
         BY <1>1, <1>8, <1>9 DEF Pushes, Depth, Pushed
  <1>12. TypeOK'
         BY <1>2, <1>3, <1>7 DEF TypeOK, Labels
  <1>13. CurInv' /\ QuietInv'
         BY <1>1, <1>2, <1>8, SameCur, LocalQuiet
  <1>14. Ordered(x)'
         BY <1>1, <1>4, <1>8 DEF Ordered
  <1>15. NoffInv' /\ LockInv' /\ Same
         BY <1>2, <1>9, <1>10, <1>11, SameNoff, SameLock
  <1>16. BaseInv' /\ SchedInv'
         BY <1>1, <1>2, <1>8, SameBase, SameSched
  <1> QED BY <1>8, <1>12, <1>13, <1>14, <1>15, <1>16, LocalOrder DEF IInv

\* The swap of acquire() that finds the lock free.
LEMMA AcquireSwapInv ==
  ASSUME IInv, NEW c \in Cpu, NEW x \in Context, AcquireSwap(c, x)
  PROVE  IInv' /\ Takes(c, lk[x])
  <1>1. /\ x = Active(c) /\ pc[x] = "spin" /\ locked[lk[x]] = 0
        /\ locked' = [locked EXCEPT ![lk[x]] = 1]
        /\ pc' = [pc EXCEPT ![x] = "own"]
        BY DEF AcquireSwap, At, Goto
  <1>2. /\ UNCHANGED <<lcpu, intr, noff, intena, cur, irq, lk, held>>
        /\ UNCHANGED <<saved, ready, found, base>>
        BY DEF AcquireSwap, cpu, where, sw
  <1>3. TypeOK /\ OrderInv /\ LockInv
        BY DEF IInv
  <1>4. lk[x] \in Lock \cup {None} /\ Ordered(x)
        BY <1>3 DEF TypeOK, OrderInv
  <1>5. lk[x] \in Lock
        BY <1>1, <1>4 DEF Ordered
  <1>6. pc'[x] = "own" /\ lk'[x] = lk[x] /\ held'[x] = held[x] /\ OnlyContext(x)
        BY <1>1, <1>2, <1>3 DEF TypeOK, OnlyContext
  <1>7. Active(c)' = x /\ Others(c)
        BY <1>1, <1>2, <1>6, LocalStep
  <1>8. Inside(c)' = Inside(c) \cup {lk[x]} /\ Keeps(c)' = Keeps(c)
        BY <1>1, <1>6, <1>7 DEF Inside, Owns, Keeps
  <1>9. Pushes(c)' = Pushes(c)
        BY <1>1, <1>6, <1>7 DEF Pushes, Depth, Pushed
  <1>10. TypeOK'
         BY <1>1, <1>2, <1>3, <1>5 DEF TypeOK, Labels
  <1>11. CurInv' /\ QuietInv'
         BY <1>1, <1>2, <1>6, SameCur, LocalQuiet
  <1>12. Ordered(x)'
         BY <1>1, <1>4, <1>6 DEF Ordered
  <1>13. NoffInv'
         BY <1>2, <1>7, <1>9, SameNoff
  <1>14. Takes(c, lk[x])
         BY SMTT(300), <1>1, <1>3, <1>5, <1>7, <1>8 DEF LockInv, Takes, Others
  <1>15. \A l \in Lock : locked'[l] = IF l = lk[x] THEN 1 ELSE locked[l]
         BY <1>1, <1>3 DEF TypeOK
  <1>16. LockInv'
         BY SMTT(300), <1>2, <1>3, <1>7, <1>8, <1>14, <1>15
            DEF LockInv, Takes, Others
  <1>17. BaseInv' /\ SchedInv'
         BY <1>1, <1>2, <1>6, SameBase, SameSched
  <1> QED BY <1>6, <1>10, <1>11, <1>12, <1>13, <1>14, <1>16, <1>17, LocalOrder
          DEF IInv

\* acquire() records its CPU in the lock.
LEMMA AcquireOwnInv ==
  ASSUME IInv, NEW c \in Cpu, NEW x \in Context, AcquireOwn(c, x)
  PROVE  IInv' /\ Same
  <1>1. /\ x = Active(c) /\ pc[x] = "own"
        /\ lcpu' = [lcpu EXCEPT ![lk[x]] = c]
        /\ held' = [held EXCEPT ![x] = @ \cup {lk[x]}]
        /\ lk' = [lk EXCEPT ![x] = None]
        /\ pc' = [pc EXCEPT ![x] = "run"]
        BY DEF AcquireOwn, At, Goto
  <1>2. /\ UNCHANGED <<locked, intr, noff, intena, cur, irq>>
        /\ UNCHANGED <<saved, ready, found, base>>
        BY DEF AcquireOwn, cpu, where, sw
  <1>3. TypeOK /\ OrderInv /\ LockInv
        BY DEF IInv
  <1>4. lk[x] \in Lock \cup {None} /\ held[x] \subseteq Lock /\ Ordered(x)
        BY <1>3 DEF TypeOK, OrderInv
  <1>5. lk[x] \in Lock /\ lk[x] \in Inside(c)
        BY <1>1, <1>4 DEF Ordered, Inside, Owns
  <1>6. /\ pc'[x] = "run" /\ lk'[x] = None /\ held'[x] = held[x] \cup {lk[x]}
        /\ OnlyContext(x)
        BY <1>1, <1>3 DEF TypeOK, OnlyContext
  <1>7. Active(c)' = x /\ Others(c)
        BY <1>1, <1>2, <1>6, LocalStep
  <1>8. Inside(c)' = Inside(c) /\ Keeps(c)' = Keeps(c) \cup {lk[x]}
        BY <1>1, <1>6, <1>7 DEF Inside, Owns, Keeps
  <1>9. lk[x] \notin held[x] /\ IsFiniteSet(held[x])
        BY <1>1, <1>4, <1>5, NoSelf DEF Ordered
  <1>10. /\ IsFiniteSet(held'[x])
         /\ Cardinality(held'[x]) = Cardinality(held[x]) + 1
         BY <1>6, <1>9, FS_AddElement
  <1>11. Pushes(c)' = Pushes(c)
         BY SMTT(300), <1>1, <1>6, <1>7, <1>10, HeldNumber
            DEF Pushes, Depth, Pushed
  <1>12. TypeOK'
         BY SMTT(300), <1>1, <1>2, <1>3, <1>5 DEF TypeOK, Labels
  <1>13. CurInv' /\ QuietInv'
         BY <1>1, <1>2, <1>6, SameCur, LocalQuiet
  <1>14. Ordered(x)'
         BY <1>4, <1>6, <1>10 DEF Ordered
  <1>15. NoffInv'
         BY <1>2, <1>7, <1>11, SameNoff
  <1>16. \A l \in Lock : lcpu'[l] = IF l = lk[x] THEN c ELSE lcpu[l]
         BY <1>1, <1>3 DEF TypeOK
  <1>17. LockInv' /\ Same
         BY SMTT(300), <1>2, <1>3, <1>5, <1>7, <1>8, <1>16, KeepsInside
            DEF LockInv, Others, Same
  <1>18. BaseInv' /\ SchedInv'
         BY <1>1, <1>2, <1>6, SameBase, SameSched
  <1> QED BY <1>6, <1>12, <1>13, <1>14, <1>15, <1>17, <1>18, LocalOrder
          DEF IInv

-----------------------------------------------------------------------------
(* release() and pop_off() *)

\* release() passes its check and forgets its CPU.
LEMMA ReleaseInv ==
  ASSUME IInv, NEW c \in Cpu, NEW x \in Context, NEW l \in Lock,
         Release(c, x, l)
  PROVE  IInv' /\ Same
  <1>1. x = Active(c) /\ pc[x] = "run" /\ l \in held[x]
        BY DEF Release, At
  <1>2. /\ UNCHANGED <<locked, intr, noff, intena, cur, irq>>
        /\ UNCHANGED <<saved, ready, found, base>>
        BY DEF Release, cpu, where, sw
  <1>3. TypeOK /\ OrderInv /\ LockInv
        BY DEF IInv
  <1>4. l \in Keeps(c) /\ l \in Inside(c)
        BY <1>1, KeepsInside DEF Keeps
  <1>5. holding(c, l)
        BY <1>3, <1>4 DEF holding, LockInv
  <1>6. /\ lcpu' = [lcpu EXCEPT ![l] = None]
        /\ held' = [held EXCEPT ![x] = @ \ {l}]
        /\ lk' = [lk EXCEPT ![x] = l]
        /\ pc' = [pc EXCEPT ![x] = "unlock"]
        BY <1>5 DEF Release, Goto
  <1>7. /\ pc'[x] = "unlock" /\ lk'[x] = l /\ held'[x] = held[x] \ {l}
        /\ OnlyContext(x)
        BY <1>3, <1>6 DEF TypeOK, OnlyContext
  <1>8. Active(c)' = x /\ Others(c)
        BY <1>1, <1>2, <1>7, LocalStep
  <1>9. Inside(c)' = Inside(c) /\ Keeps(c)' = Keeps(c) \ {l}
        BY <1>1, <1>7, <1>8 DEF Inside, Owns, Keeps
  <1>10. held[x] \subseteq Lock /\ Ordered(x)
         BY <1>3 DEF TypeOK, OrderInv
  <1>11. l # None
         BY SpinlockAssumption DEF Lock
  <1>12. /\ IsFiniteSet(held'[x])
         /\ Cardinality(held'[x]) = Cardinality(held[x]) - 1
    <2>1. IsFiniteSet(held[x])
          BY <1>10 DEF Ordered
    <2>2. /\ IsFiniteSet(held[x] \ {l})
          /\ Cardinality(held[x] \ {l})
               = IF l \in held[x] THEN Cardinality(held[x]) - 1 ELSE Cardinality(held[x])
          BY <2>1, FS_RemoveElement
    <2>3. Cardinality(held[x] \ {l}) = Cardinality(held[x]) - 1
          BY <1>1, <2>2
    <2>4. held'[x] = held[x] \ {l}
          BY <1>7
    <2> QED BY <2>2, <2>3, <2>4
  <1>13. Pushes(c)' = Pushes(c)
    <2>1. Cardinality(held[x]) \in Nat
          BY HeldNumber
    <2>2. Pushes(c) = Cardinality(held[x]) + 0
          BY <1>1 DEF Pushes, Depth, Pushed
    <2>3. Pushes(c)' = Cardinality(held'[x]) + 1
          BY <1>7, <1>8 DEF Pushes, Depth, Pushed
    <2> QED BY SMTT(300), <1>12, <2>1, <2>2, <2>3
  <1>14. TypeOK'
         BY <1>2, <1>3, <1>6 DEF TypeOK, Labels
  <1>15. CurInv' /\ QuietInv'
         BY <1>1, <1>2, <1>7, SameCur, LocalQuiet
  <1>16. Ordered(x)'
         BY <1>7, <1>12, <1>11 DEF Ordered
  <1>17. NoffInv'
         BY <1>2, <1>8, <1>13, SameNoff
  <1>18. \A m \in Lock : lcpu'[m] = IF m = l THEN None ELSE lcpu[m]
         BY <1>3, <1>6 DEF TypeOK
  <1>19. \A d \in Cpu \ {c} : l \notin Keeps(d)
         BY <1>3, <1>4, KeepsInside DEF LockInv
  <1>20. LockInv' /\ Same
         BY SMTT(300), <1>2, <1>3, <1>8, <1>9, <1>18, <1>19, SpinlockAssumption
            DEF LockInv, Others, Same
  <1>21. BaseInv' /\ SchedInv'
         BY <1>1, <1>2, <1>7, SameBase, SameSched
  <1> QED BY <1>7, <1>14, <1>15, <1>16, <1>17, <1>20, <1>21, LocalOrder
          DEF IInv

\* release() frees the lock.
LEMMA ReleaseUnlockInv ==
  ASSUME IInv, NEW c \in Cpu, NEW x \in Context, ReleaseUnlock(c, x)
  PROVE  IInv' /\ Gives(c, lk[x])
  <1>1. /\ x = Active(c) /\ pc[x] = "unlock"
        /\ locked' = [locked EXCEPT ![lk[x]] = 0]
        /\ lk' = [lk EXCEPT ![x] = None]
        /\ pc' = [pc EXCEPT ![x] = "pop"]
        /\ held' = held
        BY DEF ReleaseUnlock, At, Goto
  <1>2. /\ UNCHANGED <<lcpu, intr, noff, intena, cur, irq>>
        /\ UNCHANGED <<saved, ready, found, base>>
        BY DEF ReleaseUnlock, cpu, where, sw
  <1>3. TypeOK /\ OrderInv /\ LockInv
        BY DEF IInv
  <1>4. lk[x] \in Lock \cup {None} /\ Ordered(x)
        BY <1>3 DEF TypeOK, OrderInv
  <1>5. lk[x] \in Lock /\ lk[x] \notin held[x] /\ lk[x] \in Inside(c)
        BY <1>1, <1>4 DEF Ordered, Inside, Owns
  <1>6. pc'[x] = "pop" /\ lk'[x] = None /\ held'[x] = held[x] /\ OnlyContext(x)
        BY <1>1, <1>3 DEF TypeOK, OnlyContext
  <1>7. Active(c)' = x /\ Others(c)
        BY <1>1, <1>2, <1>6, LocalStep
  <1>8. Inside(c)' = Inside(c) \ {lk[x]} /\ Keeps(c)' = Keeps(c)
        BY <1>1, <1>5, <1>6, <1>7 DEF Inside, Owns, Keeps
  <1>9. Pushes(c)' = Pushes(c)
        BY <1>1, <1>6, <1>7 DEF Pushes, Depth, Pushed
  <1>10. TypeOK'
         BY <1>1, <1>2, <1>3, <1>5 DEF TypeOK, Labels
  <1>11. CurInv' /\ QuietInv'
         BY <1>1, <1>2, <1>6, SameCur, LocalQuiet
  <1>12. Ordered(x)'
         BY <1>1, <1>4, <1>6, SpinlockAssumption DEF Ordered
  <1>13. NoffInv'
         BY <1>2, <1>7, <1>9, SameNoff
  <1>14. Gives(c, lk[x])
         BY <1>5, <1>7, <1>8 DEF Gives, Others
  <1>15. \A l \in Lock : locked'[l] = IF l = lk[x] THEN 0 ELSE locked[l]
         BY <1>1, <1>3 DEF TypeOK
  <1>16. LockInv'
         BY SMTT(300), <1>2, <1>3, <1>7, <1>8, <1>14, <1>15
            DEF LockInv, Gives, Others
  <1>17. BaseInv' /\ SchedInv'
         BY <1>1, <1>2, <1>6, SameBase, SameSched
  <1> QED BY <1>6, <1>10, <1>11, <1>12, <1>13, <1>14, <1>16, <1>17, LocalOrder
          DEF IInv

\* pop_off() passes its checks; the last one restores the interrupt state.
LEMMA PopOffInv ==
  ASSUME IInv, NEW c \in Cpu, NEW x \in Context, pop_off(c, x)
  PROVE  IInv' /\ Same
  <1>1. x = Active(c) /\ pc[x] = "pop"
        BY DEF pop_off, At
  <1>2. /\ UNCHANGED <<locked, lcpu, intena, cur, irq, lk, held>>
        /\ UNCHANGED <<saved, ready, found, base>>
        BY DEF pop_off, spin, where, sw
  <1>3. TypeOK /\ OrderInv /\ NoffInv /\ BaseInv /\ SchedInv
        BY DEF IInv
  <1>4. /\ noff[c] \in Nat /\ intr[c] \in {0, 1} /\ intena[c] \in {0, 1}
        /\ irq[c] \in {0, 1}
        BY <1>3 DEF TypeOK
  <1>5. Pushes(c) >= 1
        BY SMTT(300), <1>1, HeldNumber DEF Pushes, Depth, Pushed
  <1>6. /\ intr[c] = 0 /\ noff[c] >= 1
        /\ irq[c] = 1 => intena[c] = 0
        BY SMTT(300), <1>3, <1>4, <1>5 DEF NoffInv
  <1>7. /\ noff' = [noff EXCEPT ![c] = @ - 1]
        /\ intr' = [intr EXCEPT ![c] = IF noff[c] = 1 /\ intena[c] = 1
                                       THEN 1 ELSE @]
        /\ pc' = [pc EXCEPT ![x] = "run"]
        BY SMTT(300), <1>4, <1>6 DEF pop_off, Goto
  <1>8. pc'[x] = "run" /\ lk'[x] = lk[x] /\ held'[x] = held[x] /\ OnlyContext(x)
        BY <1>2, <1>3, <1>7 DEF TypeOK, OnlyContext
  <1>9. /\ intr'[c] = IF noff[c] = 1 /\ intena[c] = 1 THEN 1 ELSE 0
        /\ noff'[c] = noff[c] - 1 /\ intena'[c] = intena[c] /\ OnlyCpu(c)
        BY <1>2, <1>3, <1>6, <1>7 DEF TypeOK, OnlyCpu
  <1>10. Active(c)' = x /\ Others(c)
         BY <1>1, <1>2, <1>8, LocalStep
  <1>11. Inside(c)' = Inside(c) /\ Keeps(c)' = Keeps(c)
         BY <1>1, <1>8, <1>10 DEF Inside, Owns, Keeps
  <1>12. Pushes(c)' = Pushes(c) - 1
         BY SMTT(300), <1>1, <1>8, <1>10, HeldNumber DEF Pushes, Depth, Pushed
  <1>13. TypeOK'
         BY SMTT(300), <1>2, <1>3, <1>6, <1>7 DEF TypeOK, Labels
  <1>14. CurInv' /\ QuietInv'
         BY <1>1, <1>2, <1>8, SameCur, LocalQuiet
  <1>15. Ordered(x)
         BY <1>3 DEF OrderInv
  <1>16. Ordered(x)'
         BY <1>1, <1>8, <1>15 DEF Ordered
  <1>17. NoffInv'
         BY SMTT(300), <1>2, <1>3, <1>4, <1>6, <1>9, <1>10, <1>12
            DEF NoffInv, Others, OnlyCpu
  <1>18. LockInv' /\ Same
         BY <1>2, <1>10, <1>11, SameLock
  <1>19. BaseInv'
         BY SMTT(300), <1>2, <1>3, <1>4, <1>6, <1>9 DEF BaseInv, OnlyCpu
  <1>20. \A d \in Cpu : pc'[d] # "on" => pc[d] # "on"
         BY <1>1, <1>8 DEF OnlyContext, Context
  <1>21. SchedInv'
         BY SMTT(300), <1>2, <1>3, <1>4, <1>6, <1>9, <1>20
            DEF SchedInv, OnlyCpu
  <1> QED BY <1>8, <1>13, <1>14, <1>16, <1>17, <1>18, <1>19, <1>21, LocalOrder
          DEF IInv

-----------------------------------------------------------------------------
(* Interrupts *)

\* A thread chooses its interrupt state, outside critical sections.
LEMMA ThreadIntrInv ==
  ASSUME IInv, NEW c \in Cpu, NEW t \in Thread, ThreadIntr(c, t)
  PROVE  IInv' /\ Same
  <1>1. t = Active(c) /\ pc[t] = "run" /\ held[t] = {}
        BY DEF ThreadIntr, At
  <1>2. /\ intr' = [intr EXCEPT ![c] = 1 - @]
        /\ base' = [base EXCEPT ![t] = 1 - intr[c]]
        BY DEF ThreadIntr
  <1>3. /\ UNCHANGED <<locked, lcpu, noff, intena, cur, irq>>
        /\ UNCHANGED <<pc, lk, held, saved, ready, found>>
        BY DEF ThreadIntr, spin, where, ctx
  <1>4. TypeOK /\ CurInv /\ NoffInv /\ BaseInv /\ SchedInv
        BY DEF IInv
  <1>5. cur[c] = t /\ irq[c] = 0 /\ saved[t] = None /\ t \notin Cpu
        BY <1>1, <1>4, NoHandler, SpinlockAssumption DEF CurInv
  <1>6. noff[c] = 0
        BY <1>1, <1>4, NotNested DEF Pushed
  <1>7. t \in Context /\ pc[t] # "on" /\ OnlyContext(t) /\ Ordered(t)'
        BY <1>1, <1>3 DEF IInv, OrderInv, Ordered, OnlyContext, Context
  <1>8. /\ intr'[c] = 1 - intr[c] /\ noff'[c] = 0 /\ OnlyCpu(c)
        /\ base'[t] = 1 - intr[c]
        /\ \A u \in Thread : u # t => base'[u] = base[u]
        BY <1>2, <1>3, <1>4, <1>6 DEF TypeOK, OnlyCpu
  <1>9. Active(c)' = t /\ Others(c)
        BY <1>1, <1>3, <1>7, LocalStep
  <1>10. Inside(c)' = Inside(c) /\ Keeps(c)' = Keeps(c) /\ Pushes(c)' = Pushes(c)
         BY <1>1, <1>3, <1>9 DEF Inside, Owns, Keeps, Pushes, Depth
  <1>11. TypeOK'
         BY SMTT(300), <1>2, <1>3, <1>4 DEF TypeOK
  <1>12. CurInv' /\ QuietInv' /\ OrderInv'
         BY <1>1, <1>3, <1>7, SameCur, LocalQuiet, LocalOrder
  <1>13. NoffInv'
         BY <1>3, <1>4, <1>5, <1>8, <1>9, <1>10 DEF NoffInv, Others, OnlyCpu
  <1>14. LockInv' /\ Same
         BY <1>3, <1>9, <1>10, SameLock
  <1>15. BaseInv'
         BY SMTT(300), <1>3, <1>4, <1>5, <1>6, <1>8
            DEF BaseInv, CurInv, OnlyCpu
  <1>16. SchedInv'
         BY <1>3, <1>4, <1>5, <1>8 DEF SchedInv, OnlyCpu
  <1> QED BY <1>11, <1>12, <1>13, <1>14, <1>15, <1>16 DEF IInv

\* The top of the loop of scheduler(): intr_on().
LEMMA SchedIntrOnInv ==
  ASSUME IInv, NEW c \in Cpu, SchedIntrOn(c)
  PROVE  IInv' /\ Same
  <1>1. /\ c = Active(c) /\ pc[c] = "run" /\ held[c] = {}
        /\ intr' = [intr EXCEPT ![c] = 1]
        /\ pc' = [pc EXCEPT ![c] = "on"]
        BY DEF SchedIntrOn, At, Goto
  <1>2. /\ UNCHANGED <<locked, lcpu, noff, intena, cur, irq, lk, held>>
        /\ UNCHANGED <<saved, ready, found, base>>
        BY DEF SchedIntrOn, spin, where, sw
  <1>3. TypeOK /\ QuietInv /\ OrderInv /\ NoffInv /\ BaseInv /\ SchedInv
        BY DEF IInv
  <1>4. cur[c] = c /\ irq[c] = 0 /\ c \in Context /\ c \notin Thread
        BY <1>1, <1>3, NoHandler, SpinlockAssumption DEF Context
  <1>5. noff[c] = 0
        BY <1>1, <1>3, NotNested DEF Pushed
  <1>6. pc'[c] = "on" /\ lk'[c] = lk[c] /\ held'[c] = {} /\ OnlyContext(c)
        BY <1>1, <1>2, <1>3, <1>4 DEF TypeOK, OnlyContext
  <1>7. intr'[c] = 1 /\ noff'[c] = 0 /\ OnlyCpu(c)
        BY <1>1, <1>2, <1>3, <1>5 DEF TypeOK, OnlyCpu
  <1>8. Active(c)' = c /\ Others(c)
        BY <1>1, <1>2, <1>4, <1>6, LocalStep
  <1>9. Inside(c)' = Inside(c) /\ Keeps(c)' = Keeps(c)
        BY <1>1, <1>6, <1>8 DEF Inside, Owns, Keeps
  <1>10. Pushes(c)' = Pushes(c)
         BY <1>1, <1>6, <1>8 DEF Pushes, Depth, Pushed
  <1>11. TypeOK'
         BY <1>1, <1>2, <1>3, <1>4 DEF TypeOK, Labels
  <1>12. CurInv'
         BY <1>2, SameCur
  <1>13. \A d \in Cpu : Active(d)' = Active(d)
         BY <1>2 DEF Active
  <1>14. QuietInv'
         BY SMTT(300), <1>1, <1>2, <1>3, <1>4, <1>6, <1>13
            DEF QuietInv, Quiet, OnlyContext
  <1>15. Ordered(c)
         BY <1>3, <1>4 DEF OrderInv
  <1>16. Ordered(c)'
         BY <1>1, <1>6, <1>15 DEF Ordered
  <1>17. NoffInv'
         BY <1>2, <1>3, <1>4, <1>7, <1>8, <1>10 DEF NoffInv, Others, OnlyCpu
  <1>18. LockInv' /\ Same
         BY <1>2, <1>8, <1>9, SameLock
  <1>19. BaseInv'
         BY SMTT(300), <1>2, <1>3, <1>4, <1>7 DEF BaseInv, OnlyCpu
  <1>20. SchedInv'
         BY <1>2, <1>3, <1>6, <1>7 DEF SchedInv, OnlyCpu, OnlyContext, Context
  <1> QED BY <1>4, <1>6, <1>11, <1>12, <1>14, <1>16, <1>17, <1>18, <1>19,
             <1>20,
             LocalOrder DEF IInv

\* ... and intr_off() before the scan of proc[].
LEMMA SchedIntrOffInv ==
  ASSUME IInv, NEW c \in Cpu, SchedIntrOff(c)
  PROVE  IInv' /\ Same
  <1>1. /\ c = Active(c) /\ pc[c] = "on"
        /\ intr' = [intr EXCEPT ![c] = 0]
        /\ found' = [found EXCEPT ![c] = 0]
        /\ pc' = [pc EXCEPT ![c] = "run"]
        BY DEF SchedIntrOff, At, Goto
  <1>2. /\ UNCHANGED <<locked, lcpu, noff, intena, cur, irq, lk, held>>
        /\ UNCHANGED <<saved, ready, base>>
        BY DEF SchedIntrOff, spin, where
  <1>3. TypeOK /\ QuietInv /\ OrderInv /\ NoffInv /\ BaseInv /\ SchedInv
        BY DEF IInv
  <1>4. cur[c] = c /\ irq[c] = 0 /\ c \in Context /\ c \notin Thread
        BY <1>1, <1>3, NoHandler, SpinlockAssumption DEF Context
  <1>5. held[c] = {}
        BY <1>1, <1>3, <1>4 DEF QuietInv
  <1>6. noff[c] = 0
        BY <1>1, <1>3, <1>5, NotNested DEF Pushed
  <1>7. pc'[c] = "run" /\ lk'[c] = lk[c] /\ held'[c] = held[c] /\ OnlyContext(c)
        BY <1>1, <1>2, <1>3, <1>4 DEF TypeOK, OnlyContext
  <1>8. /\ intr'[c] = 0 /\ noff'[c] = 0 /\ OnlyCpu(c)
        /\ \A d \in Cpu : d # c => found'[d] = found[d]
        BY <1>1, <1>2, <1>3, <1>6 DEF TypeOK, OnlyCpu
  <1>9. Active(c)' = c /\ Others(c)
        BY <1>1, <1>2, <1>4, <1>7, LocalStep
  <1>10. Inside(c)' = Inside(c) /\ Keeps(c)' = Keeps(c)
         BY <1>1, <1>7, <1>9 DEF Inside, Owns, Keeps
  <1>11. Pushes(c)' = Pushes(c)
         BY <1>1, <1>7, <1>9 DEF Pushes, Depth, Pushed
  <1>12. TypeOK'
         BY <1>1, <1>2, <1>3, <1>4 DEF TypeOK, Labels
  <1>13. CurInv' /\ QuietInv'
         BY <1>1, <1>2, <1>4, <1>7, SameCur, LocalQuiet
  <1>14. Ordered(c)
         BY <1>3, <1>4 DEF OrderInv
  <1>15. Ordered(c)'
         BY <1>1, <1>7, <1>14 DEF Ordered
  <1>16. NoffInv'
         BY SMTT(300), <1>2, <1>3, <1>8, <1>9, <1>11
            DEF NoffInv, Others, OnlyCpu
  <1>17. LockInv' /\ Same
         BY <1>2, <1>9, <1>10, SameLock
  <1>18. BaseInv'
         BY SMTT(300), <1>2, <1>3, <1>4, <1>8 DEF BaseInv, OnlyCpu
  <1>19. SchedInv'
         BY SMTT(300), <1>2, <1>3, <1>4, <1>7, <1>8
            DEF SchedInv, OnlyCpu, OnlyContext, Context
  <1> QED BY <1>4, <1>7, <1>12, <1>13, <1>15, <1>16, <1>17, <1>18, <1>19,
             LocalOrder DEF IInv

\* A device interrupt finds its CPU outside critical sections.
LEMMA IntrEnterInv ==
  ASSUME IInv, NEW c \in Cpu, IntrEnter(c)
  PROVE  IInv' /\ Same
  <1>1. /\ intr[c] = 1
        /\ irq' = [irq EXCEPT ![c] = 1]
        /\ intr' = [intr EXCEPT ![c] = 0]
        BY DEF IntrEnter
  <1>2. /\ UNCHANGED <<locked, lcpu, noff, intena, cur, pc, lk, held>>
        /\ UNCHANGED <<saved, ready, found, base>>
        BY DEF IntrEnter, spin, ctx, sw
  <1>3. TypeOK /\ QuietInv /\ OrderInv /\ NoffInv /\ BaseInv /\ SchedInv
        BY DEF IInv
  <1>4. noff[c] = 0 /\ irq[c] = 0 /\ Pushes(c) = 0
        BY <1>1, <1>3 DEF NoffInv
  <1>5. /\ irq'[c] = 1 /\ intr'[c] = 0 /\ OnlyCpu(c)
        /\ \A d \in Cpu \ {c} : irq'[d] = irq[d]
        BY <1>1, <1>2, <1>3 DEF TypeOK, OnlyCpu
  <1>6. /\ Active(c) = cur[c] /\ Active(c)' = Irq(c)
        /\ \A d \in Cpu \ {c} : Active(d)' = Active(d)
        BY SMTT(300), <1>2, <1>4, <1>5 DEF Active
  <1>7. /\ cur[c] \in Context /\ pc[cur[c]] \in Labels
        /\ held[cur[c]] \subseteq Lock /\ Ordered(cur[c])
        BY <1>3 DEF TypeOK, Context, OrderInv
  <1>8. Cardinality(held[cur[c]]) = 0 /\ pc[cur[c]] \notin Pushed
         BY SMTT(300), <1>4, <1>6, <1>7, HeldNumber DEF Pushes, Depth
  <1>9. held[cur[c]] = {} /\ pc[cur[c]] \notin Pushed
        BY <1>7, <1>8, FS_EmptySet DEF Ordered
  <1>10. Quiet(cur[c])
        BY <1>7, <1>9 DEF Quiet, Pushed, Ordered, Labels
  <1>11. Quiet(Irq(c))
         BY <1>4, Idle
  <1>12. Others(c)
         BY <1>2, <1>6 DEF Others, Inside, Owns, Keeps, Pushes, Depth
  <1>13. Inside(c)' = Inside(c) /\ Keeps(c)' = Keeps(c)
         BY <1>2, <1>6, <1>10, <1>11 DEF Inside, Owns, Keeps, Quiet
  <1>14. Pushes(c)' = Pushes(c)
         BY <1>2, <1>6, <1>10, <1>11 DEF Pushes, Depth, Pushed, Quiet
  <1>15. TypeOK'
         BY <1>1, <1>2, <1>3 DEF TypeOK
  <1>16. CurInv' /\ LockInv' /\ Same
         BY <1>2, <1>12, <1>13, SameCur, SameLock
  <1>17. QuietInv'
         BY SMTT(300), <1>2, <1>3, <1>6, <1>10 DEF QuietInv, Quiet
  <1>18. OrderInv'
         BY <1>2, <1>3 DEF OrderInv, Ordered
  <1>19. NoffInv'
         BY SMTT(300), <1>2, <1>3, <1>4, <1>5, <1>12, <1>14
            DEF NoffInv, Others, OnlyCpu
  <1>20. BaseInv'
         BY SMTT(300), <1>1, <1>2, <1>3, <1>4, <1>5 DEF BaseInv, OnlyCpu
  <1>21. SchedInv'
         BY <1>1, <1>2, <1>3, <1>4, <1>5 DEF SchedInv, OnlyCpu
  <1> QED BY <1>15, <1>16, <1>17, <1>18, <1>19, <1>20, <1>21 DEF IInv

\* sret out of a handler that has released its locks.
LEMMA IntrReturnInv ==
  ASSUME IInv, NEW c \in Cpu, IntrReturn(c)
  PROVE  IInv' /\ Same
  <1>1. /\ Irq(c) = Active(c) /\ pc[Irq(c)] = "run" /\ held[Irq(c)] = {}
        /\ irq' = [irq EXCEPT ![c] = 0]
        /\ intr' = [intr EXCEPT ![c] = 1]
        BY DEF IntrReturn, At
  <1>2. /\ UNCHANGED <<locked, lcpu, noff, intena, cur, pc, lk, held>>
        /\ UNCHANGED <<saved, ready, found, base>>
        BY DEF IntrReturn, spin, ctx, sw
  <1>3. TypeOK /\ QuietInv /\ OrderInv /\ NoffInv /\ BaseInv /\ SchedInv
        BY DEF IInv
  <1>4. irq[c] = 1
        BY SMTT(300), <1>1, <1>3, IrqOwn DEF Active, TypeOK
  <1>5. noff[c] = 0
        BY <1>1, <1>3, NotNested DEF Pushed
  <1>6. /\ irq'[c] = 0 /\ intr'[c] = 1 /\ OnlyCpu(c)
        /\ \A d \in Cpu \ {c} : irq'[d] = irq[d]
        BY <1>1, <1>2, <1>3 DEF TypeOK, OnlyCpu
  <1>7. Active(c)' = cur[c] /\ \A d \in Cpu \ {c} : Active(d)' = Active(d)
        BY SMTT(300), <1>2, <1>6 DEF Active
  <1>8. Irq(c) \in Context /\ Quiet(cur[c])
        BY <1>4, Idle DEF Context
  <1>9. Quiet(Irq(c))
        BY <1>1, <1>3, <1>8 DEF Quiet, OrderInv, Ordered
  <1>10. Others(c)
         BY <1>2, <1>7 DEF Others, Inside, Owns, Keeps, Pushes, Depth
  <1>11. Inside(c)' = Inside(c) /\ Keeps(c)' = Keeps(c)
         BY <1>1, <1>2, <1>7, <1>8, <1>9 DEF Inside, Owns, Keeps, Quiet
  <1>12. Pushes(c)' = Pushes(c)
         BY <1>1, <1>2, <1>7, <1>8, <1>9 DEF Pushes, Depth, Pushed, Quiet
  <1>13. TypeOK'
         BY <1>1, <1>2, <1>3 DEF TypeOK
  <1>14. CurInv' /\ LockInv' /\ Same
         BY <1>2, <1>10, <1>11, SameCur, SameLock
  <1>15. QuietInv'
         BY SMTT(300), <1>1, <1>2, <1>3, <1>7, <1>9 DEF QuietInv, Quiet
  <1>16. OrderInv'
         BY <1>2, <1>3 DEF OrderInv, Ordered
  <1>17. NoffInv'
         BY SMTT(300), <1>2, <1>3, <1>5, <1>6, <1>10, <1>12
            DEF NoffInv, Others, OnlyCpu
  <1>18. BaseInv'
         BY SMTT(300), <1>2, <1>3, <1>4, <1>5, <1>6 DEF BaseInv, OnlyCpu
  <1>19. SchedInv'
         BY <1>2, <1>3, <1>4, <1>6 DEF SchedInv, OnlyCpu
  <1> QED BY <1>13, <1>14, <1>15, <1>16, <1>17, <1>18, <1>19 DEF IInv

-----------------------------------------------------------------------------
(* Context switches *)

\* CPU c switches from context x to context y, which no CPU executes; the lock
\* of thread t stays held and goes with the CPU.
Switches(c, x, y, t) ==
  /\ x = Active(c) /\ pc[x] = "run" /\ held[x] = {t}
  /\ pc[y] = "run" /\ \A d \in Cpu : y # cur[d]
  /\ cur' = [cur EXCEPT ![c] = y]
  /\ held' = [held EXCEPT ![x] = {}, ![y] = {t}]
  /\ UNCHANGED <<locked, lcpu, noff, intr, irq, pc, lk>>

\* Such a switch, by sched() or by the scheduler, changes no owner of a lock and
\* keeps the nesting of locks.
LEMMA Switch ==
  ASSUME IInv, NEW c \in Cpu, NEW x \in Cpu \cup Thread, NEW y \in Cpu \cup Thread,
         NEW t \in Thread, Switches(c, x, y, t)
  PROVE  /\ QuietInv' /\ OrderInv' /\ LockInv' /\ Same
         /\ held' \in [Context -> SUBSET Lock]
         /\ Others(c) /\ Pushes(c)' = Pushes(c)
  <1>1. /\ x = Active(c) /\ pc[x] = "run" /\ held[x] = {t}
        /\ pc[y] = "run" /\ \A d \in Cpu : y # cur[d]
        BY DEF Switches
  <1>2. UNCHANGED <<locked, lcpu, irq, pc, lk>>
        BY DEF Switches
  <1>3. TypeOK /\ CurInv /\ QuietInv /\ OrderInv
        BY DEF IInv
  <1>4. x \in Context /\ y \in Context /\ t \in Lock
        BY DEF Context, Lock
  <1>5. irq[c] = 0 /\ cur[c] = x
        BY <1>1, <1>3, NoHandler
  <1>6. \A d \in Cpu : y # Active(d)
        BY <1>1, IrqOwn DEF Active
  <1>7. Quiet(y) /\ x # y
        BY <1>1, <1>3, <1>4, <1>6 DEF QuietInv
  <1>8. /\ held'[x] = {} /\ held'[y] = {t}
        /\ \A z \in Context : z # x /\ z # y => held'[z] = held[z]
        BY <1>3, <1>4, <1>7 DEF TypeOK, Switches
  <1>9. cur'[c] = y /\ \A d \in Cpu \ {c} : cur'[d] = cur[d]
        BY <1>3 DEF TypeOK, Switches
  <1>10. Active(c)' = y /\ \A d \in Cpu \ {c} : Active(d)' = Active(d)
         BY SMTT(300), <1>2, <1>5, <1>9 DEF Active
  <1>11. \A d \in Cpu \ {c} : /\ Active(d) \in Context
                              /\ Active(d) # x /\ Active(d) # y
         BY <1>1, <1>3, <1>6, ActiveOwn
  <1>12. Others(c)
         BY <1>2, <1>8, <1>10, <1>11
            DEF Others, Inside, Owns, Keeps, Pushes, Depth
  <1>13. Inside(c)' = Inside(c) /\ Keeps(c)' = Keeps(c)
         BY <1>1, <1>2, <1>8, <1>10 DEF Inside, Owns, Keeps
  <1>14. Pushes(c)' = Pushes(c)
         BY <1>1, <1>2, <1>8, <1>10 DEF Pushes, Depth
  <1>15. LockInv' /\ Same
         BY <1>2, <1>12, <1>13, SameLock
  <1>16. held' \in [Context -> SUBSET Lock]
         BY <1>3, <1>4 DEF TypeOK, Switches
  <1>17. Ordered(x) /\ Ordered(y)
         BY <1>3, <1>4 DEF OrderInv
  <1>18. Quiet(x)'
         BY <1>1, <1>2, <1>8, <1>17 DEF Quiet, Ordered
  <1>19. ASSUME NEW z \in Context, \A d \in Cpu : z # Active(d)', z # x
         PROVE  Quiet(z)'
    <2>1. z # y /\ \A d \in Cpu : z # Active(d)
          BY <1>1, <1>10, <1>19
    <2>2. Quiet(z)
          BY <1>3, <2>1 DEF QuietInv
    <2> QED BY <1>2, <1>8, <1>19, <2>1, <2>2 DEF Quiet
  <1>20. ASSUME NEW z \in Context, pc'[z] = "on"
         PROVE  z \in Cpu /\ cur'[z] = z /\ held'[z] = {}
    <2>1. pc[z] = "on" /\ z # x /\ z # y
          BY <1>1, <1>2, <1>20
    <2>2. z \in Cpu /\ cur[z] = z /\ held[z] = {}
          BY <1>3, <2>1 DEF QuietInv
    <2> QED BY <1>5, <1>8, <1>9, <2>1, <2>2
  <1>21. QuietInv'
         BY <1>18, <1>19, <1>20 DEF QuietInv
  <1>22. ASSUME NEW z \in Context PROVE Ordered(z)'
    <2>1. CASE z = x
          BY <1>1, <1>2, <1>8, <1>17, <2>1, FS_EmptySet DEF Ordered
    <2>2. CASE z = y
          BY <1>1, <1>2, <1>7, <1>8, <1>17, <2>2, FS_Singleton DEF Ordered, Quiet
    <2>3. CASE z # x /\ z # y
          BY <1>2, <1>3, <1>8, <2>3 DEF OrderInv, Ordered
    <2> QED BY <2>1, <2>2, <2>3
  <1> QED BY <1>12, <1>14, <1>15, <1>16, <1>21, <1>22 DEF OrderInv

\* scheduler() switches to a thread, which takes over the lock and the noff of
\* the CPU.
LEMMA SwitchToInv ==
  ASSUME IInv, NEW c \in Cpu, NEW t \in Thread, SwitchTo(c, t)
  PROVE  IInv' /\ Same
  <1>1. /\ c = Active(c) /\ pc[c] = "run" /\ held[c] = {t} /\ ready[t] = 1
        /\ cur' = [cur EXCEPT ![c] = t]
        /\ held' = [held EXCEPT ![c] = {}, ![t] = {t}]
        BY DEF SwitchTo, At
  <1>2. /\ ready' = [ready EXCEPT ![t] = 0]
        /\ intena' = [intena EXCEPT ![c] = IF saved[t] = None THEN @ ELSE saved[t]]
        /\ base' = [base EXCEPT ![t] = IF saved[t] = None THEN intena[c] ELSE @]
        /\ saved' = [saved EXCEPT ![t] = None]
        BY DEF SwitchTo
  <1>3. UNCHANGED <<locked, lcpu, intr, noff, irq, pc, lk, found>>
        BY DEF SwitchTo, spin
  <1>4. TypeOK /\ CurInv /\ QuietInv /\ NoffInv /\ BaseInv /\ SchedInv
        BY DEF IInv
  <1>5. irq[c] = 0 /\ cur[c] = c /\ t \in Context /\ t \notin Cpu /\ t # None
        BY <1>1, <1>4, NoHandler, SpinlockAssumption DEF Context
  <1>6. \A d \in Cpu : cur[d] # t
        BY SMTT(300), <1>1, <1>4 DEF CurInv
  <1>7. \A d \in Cpu : Active(d) # t
        BY <1>6, IrqOwn DEF Active
  <1>8. pc[t] = "run"
        BY <1>4, <1>5, <1>7 DEF QuietInv, Quiet
  <1>9. /\ QuietInv' /\ OrderInv' /\ LockInv' /\ Same
        /\ held' \in [Context -> SUBSET Lock]
        /\ Others(c) /\ Pushes(c)' = Pushes(c)
    <2>1. Switches(c, c, t, t)
          BY <1>1, <1>3, <1>6, <1>8 DEF Switches
    <2>2. c \in Cpu \cup Thread /\ t \in Cpu \cup Thread
          OBVIOUS
    <2> QED BY <2>1, <2>2, Switch
  <1>10. Pushes(c) = 1
    <2>1. Cardinality({t}) = 1
          BY FS_Singleton
    <2> QED BY SMTT(300), <1>1, <2>1 DEF Pushes, Depth, Pushed
  <1>11. /\ cur'[c] = t /\ ready'[t] = 0 /\ saved'[t] = None
         /\ \A d \in Cpu \ {c} : cur'[d] = cur[d] /\ intena'[d] = intena[d]
         /\ \A u \in Thread \ {t} : ready'[u] = ready[u] /\ saved'[u] = saved[u]
         BY <1>1, <1>2, <1>4 DEF TypeOK
  <1>12. /\ intena'[c] = base'[t]
         /\ \A u \in Thread \ {t} : base'[u] = base[u]
         BY <1>2, <1>4 DEF TypeOK, BaseInv
  <1>13. TypeOK'
         BY SMTT(300), <1>1, <1>2, <1>3, <1>4, <1>9 DEF TypeOK
  <1>14. CurInv'
         BY SMTT(300), <1>4, <1>5, <1>6, <1>11 DEF CurInv
  <1>15. NoffInv'
         BY SMTT(300), <1>3, <1>4, <1>5, <1>9, <1>11 DEF NoffInv, Others
  <1>16. noff[c] = 1
         BY <1>4, <1>10 DEF NoffInv
  <1>17. BaseInv'
         BY SMTT(300), <1>3, <1>4, <1>5, <1>6, <1>11, <1>12, <1>16 DEF BaseInv
  <1>18. SchedInv'
         BY SMTT(300), <1>3, <1>4, <1>5, <1>11 DEF SchedInv
  <1> QED BY <1>9, <1>13, <1>14, <1>15, <1>17, <1>18 DEF IInv

\* sched() passes its checks and gives the lock back to scheduler().
LEMMA SchedSwitchInv ==
  ASSUME IInv, NEW c \in Cpu, NEW t \in Thread, sched(c, t)
  PROVE  IInv' /\ Same
  <1>1. t = Active(c) /\ pc[t] = "run" /\ held[t] = {t}
        BY DEF sched, At
  <1>2. UNCHANGED <<locked, lcpu, intr, noff, intena, irq, lk, base>>
        BY DEF sched, spin, cpu
  <1>3. TypeOK /\ CurInv /\ QuietInv /\ NoffInv /\ LockInv /\ BaseInv /\ SchedInv
        BY DEF IInv
  <1>4. irq[c] = 0 /\ cur[c] = t /\ c \in Context /\ t \notin Cpu /\ c \notin Thread
        BY <1>1, <1>3, NoHandler, SpinlockAssumption DEF Context
  <1>5. Pushes(c) = 1
    <2>1. Cardinality({t}) = 1
          BY FS_Singleton
    <2> QED BY SMTT(300), <1>1, <2>1 DEF Pushes, Depth, Pushed
  <1>6. t \in Keeps(c) /\ t \in Inside(c) /\ t \in Lock
        BY <1>1, KeepsInside DEF Keeps, Lock
  <1>7. holding(c, t)
        BY <1>3, <1>6 DEF LockInv, holding
  <1>8. noff[c] = 1 /\ intr[c] = 0
        BY <1>3, <1>5 DEF NoffInv, TypeOK
  <1>9. /\ saved' = [saved EXCEPT ![t] = intena[c]]
        /\ ready' = [ready EXCEPT ![t] = 1]
        /\ cur' = [cur EXCEPT ![c] = c]
        /\ held' = [held EXCEPT ![t] = {}, ![c] = {t}]
        /\ found' = [found EXCEPT ![c] = 1]
        /\ UNCHANGED pc
        BY <1>7, <1>8 DEF sched
  <1>10. \A d \in Cpu : cur[d] # c
         BY SMTT(300), <1>3, <1>4 DEF CurInv, TypeOK
  <1>11. \A d \in Cpu : Active(d) # c
         BY <1>10, IrqOwn DEF Active
  <1>12. pc[c] = "run"
         BY SMTT(300), <1>3, <1>4, <1>11 DEF QuietInv, Quiet
  <1>13. /\ QuietInv' /\ OrderInv' /\ LockInv' /\ Same
         /\ held' \in [Context -> SUBSET Lock]
         /\ Others(c) /\ Pushes(c)' = Pushes(c)
    <2>1. Switches(c, t, c, t)
          BY <1>1, <1>2, <1>9, <1>10, <1>12 DEF Switches
    <2>2. c \in Cpu \cup Thread /\ t \in Cpu \cup Thread
          OBVIOUS
    <2> QED BY <2>1, <2>2, Switch
  <1>14. /\ cur'[c] = c /\ ready'[t] = 1 /\ saved'[t] = intena[c] /\ found'[c] = 1
         /\ \A d \in Cpu \ {c} : cur'[d] = cur[d] /\ found'[d] = found[d]
         /\ \A u \in Thread \ {t} : ready'[u] = ready[u] /\ saved'[u] = saved[u]
         BY <1>3, <1>9 DEF TypeOK
  <1>15. TypeOK'
         BY <1>2, <1>3, <1>9, <1>13 DEF TypeOK
  <1>16. CurInv'
         BY SMTT(300), <1>3, <1>4, <1>10, <1>14 DEF CurInv
  <1>17. NoffInv'
         BY <1>2, <1>3, <1>13 DEF NoffInv, Others
  <1>18. intena[c] = base[t]
         BY SMTT(300), <1>3, <1>4, <1>8 DEF BaseInv
  <1>19. BaseInv'
         BY SMTT(300), <1>2, <1>3, <1>4, <1>14, <1>18 DEF BaseInv
  <1>20. SchedInv'
         BY SMTT(300), <1>2, <1>3, <1>9, <1>14 DEF SchedInv
  <1> QED BY <1>13, <1>15, <1>16, <1>17, <1>19, <1>20 DEF IInv

-----------------------------------------------------------------------------
(* The theorems *)

\* The kernel starts with every lock free and every CPU in scheduler().
LEMMA InitInv ==
  ASSUME Init
  PROVE  IInv /\ \A c \in Cpu : Inside(c) = {}
  <1>1. /\ \A c \in Cpu : Active(c) = c /\ cur[c] = c /\ c \in Context
        /\ \A x \in Context : pc[x] = "run" /\ lk[x] = None /\ held[x] = {}
        BY SMTT(300) DEF Init, Active, Context
  <1>2. \A c \in Cpu : Inside(c) = {} /\ Keeps(c) = {} /\ Pushes(c) = 0
        BY SMTT(300), <1>1, FS_EmptySet
           DEF Inside, Owns, Keeps, Pushes, Depth, Pushed
  <1>3. TypeOK
        BY DEF Init, TypeOK, Labels
  <1>4. CurInv /\ QuietInv
        BY SMTT(300), <1>1, SpinlockAssumption DEF CurInv, QuietInv, Quiet
  <1>5. OrderInv
        BY <1>1, FS_EmptySet DEF OrderInv, Ordered
  <1>6. NoffInv
        BY <1>2 DEF Init, NoffInv
  <1>7. LockInv
        BY SMTT(300), <1>2, SpinlockAssumption DEF Init, LockInv
  <1>8. BaseInv /\ SchedInv
        BY <1>1, SpinlockAssumption DEF Init, BaseInv, SchedInv
  <1> QED BY <1>2, <1>3, <1>4, <1>5, <1>6, <1>7, <1>8 DEF IInv

\* Every step keeps the invariant, and enters or leaves one critical section
\* at most.
LEMMA NextInv ==
  ASSUME IInv, [Next]_vars
  PROVE  IInv' /\ (Same \/ \E c \in Cpu, l \in Lock : Takes(c, l) \/ Gives(c, l))
  <1>1. CASE UNCHANGED vars
    <2>1. /\ UNCHANGED <<locked, lcpu, intr, noff, intena, cur, irq>>
          /\ UNCHANGED <<pc, lk, held, saved, ready, found, base>>
          BY <1>1 DEF vars, spin, cpu, where, ctx, sw
    <2>2. \A c \in Cpu : /\ Active(c)' = Active(c) /\ Inside(c)' = Inside(c)
                         /\ Keeps(c)' = Keeps(c) /\ Pushes(c)' = Pushes(c)
          BY <2>1 DEF Active, Inside, Owns, Keeps, Pushes, Depth
    <2>3. TypeOK' /\ CurInv' /\ OrderInv'
          BY <2>1 DEF IInv, TypeOK, CurInv, OrderInv, Ordered
    <2>4. QuietInv' /\ NoffInv' /\ LockInv'
          BY SMTT(300), <2>1, <2>2 DEF IInv, QuietInv, Quiet, NoffInv, LockInv
    <2>5. BaseInv' /\ SchedInv'
          BY <2>1 DEF IInv, BaseInv, SchedInv
    <2> QED BY <2>2, <2>3, <2>4, <2>5 DEF IInv, Same
  <1>2. ASSUME NEW c \in Cpu, NEW x \in Context, NEW l \in Lock,
               Acquire(c, x, l) \/ Release(c, x, l)
        PROVE  IInv' /\ Same
        BY <1>2, AcquireInv, ReleaseInv
  <1>3. ASSUME NEW c \in Cpu, NEW x \in Context,
               AcquireCheck(c, x) \/ AcquireOwn(c, x) \/ pop_off(c, x)
        PROVE  IInv' /\ Same
        BY <1>3, AcquireCheckInv, AcquireOwnInv, PopOffInv
  <1>4. ASSUME NEW c \in Cpu, NEW x \in Context, AcquireSwap(c, x)
        PROVE  IInv' /\ \E l \in Lock : Takes(c, l)
        BY <1>4, AcquireSwapInv DEF Takes
  <1>5. ASSUME NEW c \in Cpu, NEW x \in Context, ReleaseUnlock(c, x)
        PROVE  IInv' /\ \E l \in Lock : Gives(c, l)
        BY <1>5, ReleaseUnlockInv DEF Gives
  <1>6. ASSUME NEW c \in Cpu, NEW t \in Thread,
               ThreadIntr(c, t) \/ SwitchTo(c, t) \/ sched(c, t)
        PROVE  IInv' /\ Same
        BY <1>6, ThreadIntrInv, SwitchToInv, SchedSwitchInv
  <1>7. ASSUME NEW c \in Cpu,
               IntrEnter(c) \/ IntrReturn(c) \/ SchedIntrOn(c) \/ SchedIntrOff(c)
        PROVE  IInv' /\ Same
        BY <1>7, IntrEnterInv, IntrReturnInv, SchedIntrOnInv, SchedIntrOffInv
  <1> QED BY <1>1, <1>2, <1>3, <1>4, <1>5, <1>6, <1>7 DEF Next

\* The inductive invariant holds in every reachable state.
THEOREM Invariance == Spec => []IInv
  <1>1. Init => IInv
        BY InitInv
  <1>2. IInv /\ [Next]_vars => IInv'
        BY NextInv
  <1> QED BY <1>1, <1>2, PTL DEF Spec

\* noff never goes below zero, and every context is at a place of acquire(),
\* release(), sched() or a handler.
THEOREM SpinlockTypes == Spec => []TypeOK
  <1>1. IInv => TypeOK
        BY DEF IInv
  <1> QED BY <1>1, Invariance, PTL

\* No context has come to a panic.
NeverPanics == \A x \in Context : pc[x] # "panic"

\* The panics of acquire(), release(), pop_off() and sched() are never reached,
\* however deep the callers nest their locks.
THEOREM SpinlockNeverPanics == Spec => []NeverPanics
  <1>1. IInv => NeverPanics
        BY DEF IInv, OrderInv, Ordered, NeverPanics
  <1> QED BY <1>1, Invariance, PTL

\* A thread outside its critical sections has the interrupt state it chose:
\* push_off(), pop_off() and the intena that sched() saves restore it, whatever
\* CPUs the thread was switched to.
THEOREM InterruptStateRestored == Spec => []IntrRestored
  <1>1. ASSUME IInv PROVE IntrRestored
    <2>1. SUFFICES ASSUME NEW c \in Cpu, NEW t \in Thread,
                          t = Active(c), pc[t] = "run", held[t] = {}
                   PROVE  intr[c] = base[t]
          BY DEF IntrRestored, At
    <2>2. TypeOK /\ NoffInv /\ BaseInv
          BY <1>1 DEF IInv
    <2>3. irq[c] = 0 /\ cur[c] = t
          BY <2>1, <2>2, NoHandler
    <2>4. noff[c] = 0
          BY <2>1, <2>2, NotNested DEF Pushed
    <2> QED BY <2>2, <2>3, <2>4 DEF BaseInv
  <1> QED BY <1>1, Invariance, PTL

\* scheduler() reaches its wfi only with interrupts disabled.
THEOREM WfiIsSafe == Spec => []WfiSafe
  <1>1. ASSUME IInv PROVE WfiSafe
    <2>1. SUFFICES ASSUME NEW c \in Cpu, cur[c] = c, pc[c] = "run",
                          held[c] = {}, found[c] = 0
                   PROVE  intr[c] = 0
          BY DEF WfiSafe
    <2>2. TypeOK /\ NoffInv /\ SchedInv
          BY <1>1 DEF IInv
    <2>3. irq[c] = 0
          BY <2>1, <2>2 DEF SchedInv
    <2>4. noff[c] = 0
          BY SMTT(300), <2>1, <2>2, <2>3, NotNested DEF Pushed, Active
    <2> QED BY <2>1, <2>2, <2>4 DEF SchedInv
  <1> QED BY <1>1, Invariance, PTL

\* The owner of a lock, as the refinement defines it, is the CPU inside.
LEMMA InsideIsOwner ==
  ASSUME IInv, NEW c \in Cpu, NEW l
  PROVE  (\E y \in OnCpu(c) : l \in Owns(y)) <=> l \in Inside(c)
  <1>1. irq[c] = 1 => Owns(cur[c]) = {}
        BY Idle DEF Quiet, Owns
  <1>2. CASE irq[c] = 1
        BY <1>1, <1>2 DEF OnCpu, Inside, Active
  <1>3. CASE irq[c] # 1
        BY <1>3 DEF OnCpu, Inside, Active
  <1> QED BY <1>2, <1>3

\* No set of CPUs spins on locks of each other, handlers included, as long as the
\* nestings of locks have no cycle (KernelOrder).  Of the locks that the CPUs of
\* such a set spin on, take one under which no other one of them is acquired: its
\* owner holds it and spins on one of them.
THEOREM SpinlocksNeverDeadlock == Spec => []NoDeadlock
  <1>1. ASSUME IInv PROVE NoDeadlock
    <2>1. SUFFICES ASSUME NEW S \in SUBSET Cpu, NEW c \in S,
                          \A d \in S : SpinsOn(d, S)
                   PROVE  FALSE
          BY DEF NoDeadlock
    <2>2. TypeOK /\ CurInv /\ OrderInv
          BY <1>1 DEF IInv
    <2> DEFINE Waits(d) == lk[Active(d)]
    <2>3. ASSUME NEW d \in S
          PROVE  /\ Waits(d) \in Lock
                 /\ \A h \in Inside(d) : <<h, Waits(d)>> \in Nests
      <3>1. pc[Active(d)] = "spin" /\ Active(d) \in Context
            BY <2>1, <2>2, ActiveOwn DEF SpinsOn
      <3>2. Inside(d) = held[Active(d)]
            BY <3>1 DEF Inside, Owns
      <3> QED BY <2>2, <3>1, <3>2 DEF OrderInv, Ordered, TypeOK
    <2>4. ASSUME NEW d \in S PROVE \E e \in S : Waits(d) \in Inside(e)
          BY <1>1, <2>1, InsideIsOwner DEF SpinsOn
    <2> HIDE DEF Waits
    <2> DEFINE Waited == {Waits(d) : d \in S}
    <2>5. Waited \in SUBSET (Thread \cup Dev) /\ Waited # {}
          BY <2>1, <2>3 DEF Lock
    <2>6. PICK l \in Waited : \A m \in Waited : <<l, m>> \notin Nests
          BY <2>5, NestsAssumption
    <2>7. PICK e \in S : l \in Inside(e)
          BY <2>4, <2>6
    <2>8. <<l, Waits(e)>> \in Nests
          BY <2>3, <2>7
    <2> QED BY <2>6, <2>8
  <1> QED BY <1>1, Invariance, PTL

\* The refinement mapping, in terms of critical sections.
OwnerInv ==
  /\ ownerBar \in [Lock -> Cpu \cup {None}]
  /\ \A l \in Lock :
       \/ ownerBar[l] = None /\ \A c \in Cpu : l \notin Inside(c)
       \/ \E c \in Cpu : ownerBar[l] = c /\ l \in Inside(c)

\* acquire() and release() implement the lock of LockAbs: it goes from nobody to
\* one CPU and back by that CPU only, across handlers and context switches.
THEOREM SpinlockIsLock == Spec => ImplementsLock
  <1>1. ASSUME IInv PROVE OwnerInv
        BY <1>1, InsideIsOwner DEF OwnerInv, ownerBar
  <1>2. ASSUME Init, OwnerInv PROVE Abs!Init
        BY <1>2, InitInv DEF Abs!Init, OwnerInv
  <1>3. ASSUME IInv, OwnerInv, IInv', OwnerInv', [Next]_vars
        PROVE  Abs!Next \/ UNCHANGED ownerBar
    <2>1. LockInv /\ LockInv'
          BY <1>3 DEF IInv
    <2>2. \A l \in Lock, c \in Cpu : /\ ownerBar[l] = c <=> l \in Inside(c)
                                     /\ ownerBar'[l] = c <=> l \in Inside(c)'
          BY SMTT(300), <1>3, <2>1, SpinlockAssumption DEF OwnerInv, LockInv
    <2>3. /\ \A l \in Lock : /\ ownerBar[l] \in Cpu \cup {None}
                             /\ ownerBar'[l] \in Cpu \cup {None}
          /\ ownerBar \in [Lock -> Cpu \cup {None}]
          /\ ownerBar' \in [Lock -> Cpu \cup {None}]
          BY <1>3 DEF OwnerInv
    <2>4. CASE Same
      <3>1. ASSUME NEW l \in Lock PROVE ownerBar'[l] = ownerBar[l]
            BY SMTT(300), <2>2, <2>3, <2>4, SpinlockAssumption DEF Same
      <3> QED BY SMTT(300), <2>3, <3>1
    <2>5. ASSUME NEW c \in Cpu, NEW l \in Lock, Takes(c, l)
          PROVE  Abs!Acquire(c, l)
      <3>1. ownerBar[l] = None
            BY <2>2, <2>3, <2>5, SpinlockAssumption DEF Takes
      <3>2. ASSUME NEW m \in Lock
            PROVE  ownerBar'[m] = IF m = l THEN c ELSE ownerBar[m]
        <4>1. CASE m = l
              BY <2>2, <2>5, <4>1 DEF Takes
        <4>2. CASE m # l
              BY SMTT(300), <2>2, <2>3, <2>5, <4>2, SpinlockAssumption
                 DEF Takes
        <4> QED BY <4>1, <4>2
      <3> QED BY <2>3, <3>1, <3>2 DEF Abs!Acquire, Abs!Only
    <2>6. ASSUME NEW c \in Cpu, NEW l \in Lock, Gives(c, l)
          PROVE  Abs!Release(c, l)
      <3>1. ownerBar[l] = c
            BY <2>2, <2>6 DEF Gives
      <3>2. ASSUME NEW m \in Lock
            PROVE  ownerBar'[m] = IF m = l THEN None ELSE ownerBar[m]
        <4>1. CASE m = l
              BY SMTT(300), <2>1, <2>2, <2>3, <2>6, <4>1 DEF Gives, LockInv
        <4>2. CASE m # l
              BY SMTT(300), <2>2, <2>3, <2>6, <4>2, SpinlockAssumption
                 DEF Gives
        <4> QED BY <4>1, <4>2
      <3> QED BY <2>3, <3>1, <3>2 DEF Abs!Release, Abs!Only
    <2> QED BY <1>3, <2>4, <2>5, <2>6, NextInv DEF Abs!Next
  <1> QED BY <1>1, <1>2, <1>3, Invariance, PTL
          DEF Spec, ImplementsLock, Abs!Spec
=============================================================================
