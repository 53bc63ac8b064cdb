------------------------------- MODULE Clock --------------------------------
(***************************************************************************)
(* The clock (kernel/trap.c, clockintr; kernel/sysproc.c, sys_pause): an   *)
(* unsigned counter of ticks that wraps around, and the processes that     *)
(* wait for it to advance.  tickslock is held from one sleep to the next,  *)
(* so each section of sys_pause is a step; only the flag killed changes    *)
(* under it.                                                               *)
(***************************************************************************)
EXTENDS Integers, TLAPS

CONSTANTS
    Proc,
    UMOD,       \* 2^32, the modulus of ticks
    MaxPause    \* bound: the ticks a pause asks for

(* What the theorems below assume of the constants *)
ClockAssumption == UMOD \in Nat /\ MaxPause \in Nat /\ MaxPause < UMOD

VARIABLES
    ticks,
    pc,          \* "user", "pause" (about to test the counter), "asleep"
    n, ticks0,   \* locals of sys_pause
    killed,
    waited       \* the ticks since the call, which the code does not know

vars == <<ticks, pc, n, ticks0, killed, waited>>

Init ==
    /\ ticks = 0
    /\ pc = [p \in Proc |-> "user"]
    /\ n = [p \in Proc |-> 0] /\ ticks0 = [p \in Proc |-> 0]
    /\ killed = [p \in Proc |-> FALSE] /\ waited = [p \in Proc |-> 0]

(* wakeup(&ticks) *)
Woken == [p \in Proc |-> IF pc[p] = "asleep" THEN "pause" ELSE pc[p]]

(* clockintr on hart 0.  A process is not kept from its CPU for so long     *)
(* that the counter goes all the way round.                                 *)
Tick ==
    /\ \A p \in Proc : pc[p] # "user" => waited[p] < UMOD - 1
    /\ ticks' = IF ticks + 1 = UMOD THEN 0 ELSE ticks + 1
    /\ pc' = Woken
    /\ waited' = [p \in Proc |-> IF pc[p] = "user" THEN 0 ELSE waited[p] + 1]
    /\ UNCHANGED <<n, ticks0, killed>>

(* sys_pause; a negative argument counts as 0 *)
Pause(p) ==
    /\ pc[p] = "user" /\ ~killed[p]
    /\ \E k \in 0..MaxPause : n' = [n EXCEPT ![p] = k]
    /\ ticks0' = [ticks0 EXCEPT ![p] = ticks]
    /\ waited' = [waited EXCEPT ![p] = 0]
    /\ pc' = [pc EXCEPT ![p] = "pause"]
    /\ UNCHANGED <<ticks, killed>>

(* ticks - ticks0 < n, in unsigned arithmetic *)
Elapsed(p) == IF ticks >= ticks0[p] THEN ticks - ticks0[p] ELSE ticks - ticks0[p] + UMOD

Over(p) == Elapsed(p) >= n[p]

(* The pause is over *)
Done(p) ==
    /\ pc[p] = "pause" /\ Over(p)
    /\ pc' = [pc EXCEPT ![p] = "user"]
    /\ UNCHANGED <<ticks, n, ticks0, killed, waited>>

(* The pause is cut short: -1 *)
Cut(p) ==
    /\ pc[p] = "pause" /\ ~Over(p) /\ killed[p]
    /\ pc' = [pc EXCEPT ![p] = "user"]
    /\ UNCHANGED <<ticks, n, ticks0, killed, waited>>

Sleep(p) ==
    /\ pc[p] = "pause" /\ ~Over(p) /\ ~killed[p]
    /\ pc' = [pc EXCEPT ![p] = "asleep"]
    /\ UNCHANGED <<ticks, n, ticks0, killed, waited>>

(* kkill: the flag, and a sleeping process wakes *)
Kill(p) ==
    /\ ~killed[p]
    /\ killed' = [killed EXCEPT ![p] = TRUE]
    /\ pc' = [pc EXCEPT ![p] = IF @ = "asleep" THEN "pause" ELSE @]
    /\ UNCHANGED <<ticks, n, ticks0, waited>>

(* usertrap: a killed process exits; another one takes its place *)
Exit(p) ==
    /\ pc[p] = "user" /\ killed[p]
    /\ killed' = [killed EXCEPT ![p] = FALSE]
    /\ UNCHANGED <<ticks, pc, n, ticks0, waited>>

Step(p) == Done(p) \/ Cut(p) \/ Sleep(p)

Next ==
    \/ Tick
    \/ \E p \in Proc : Pause(p) \/ Step(p) \/ Kill(p) \/ Exit(p)

Spec == Init /\ [][Next]_vars

-----------------------------------------------------------------------------
(* A process sleeps only while it still has ticks to wait for.              *)
NoOversleep == \A p \in Proc : pc[p] = "asleep" => waited[p] < n[p]

(* A pause that is not cut short by a kill lasts the ticks it was asked     *)
(* for, also when the counter wraps around meanwhile.                       *)
LongEnough ==
    [][\A p \in Proc : pc[p] = "pause" /\ pc'[p] = "user" /\ ~killed[p] => waited[p] >= n[p]]_vars

-----------------------------------------------------------------------------
(* The inductive invariant: what sys_pause computes in unsigned arithmetic  *)
(* is the number of ticks since its call.                                   *)
IInv ==
    /\ ticks \in 0..UMOD - 1
    /\ pc \in [Proc -> {"user", "pause", "asleep"}]
    /\ n \in [Proc -> 0..MaxPause] /\ ticks0 \in [Proc -> 0..UMOD - 1]
    /\ killed \in [Proc -> BOOLEAN] /\ waited \in [Proc -> 0..UMOD - 1]
    /\ \A p \in Proc : pc[p] # "user" => Elapsed(p) = waited[p]
    /\ NoOversleep

(* The invariant holds at boot and every step of clockintr, sys_pause and   *)
(* kkill keeps it, wherever the counter stands.                             *)
THEOREM InvariantSafe == ASSUME ClockAssumption PROVE Spec => []IInv
<1> USE DEF ClockAssumption
<1>1. Init => IInv
  BY DEF Init, IInv, NoOversleep
<1>2. IInv /\ [Next]_vars => IInv'
  <2> SUFFICES ASSUME IInv, [Next]_vars PROVE IInv'
    OBVIOUS
  <2> USE DEF IInv, NoOversleep, Elapsed
  <2>1. CASE UNCHANGED vars
    BY <2>1 DEF vars
  <2>2. CASE Tick
    BY <2>2 DEF Tick, Woken
  <2>3. ASSUME NEW p \in Proc, Pause(p) PROVE IInv'
    BY <2>3 DEF Pause
  <2>4. ASSUME NEW p \in Proc, Done(p) PROVE IInv'
    BY <2>4 DEF Done
  <2>5. ASSUME NEW p \in Proc, Cut(p) PROVE IInv'
    BY <2>5 DEF Cut
  <2>6. ASSUME NEW p \in Proc, Sleep(p) PROVE IInv'
    BY <2>6 DEF Sleep, Over
  <2>7. ASSUME NEW p \in Proc, Kill(p) PROVE IInv'
    BY <2>7 DEF Kill
  <2>8. ASSUME NEW p \in Proc, Exit(p) PROVE IInv'
    BY <2>8 DEF Exit
  <2>9. QED
    BY <2>1, <2>2, <2>3, <2>4, <2>5, <2>6, <2>7, <2>8 DEF Next, Step
<1>3. QED
  BY <1>1, <1>2, PTL DEF Spec

(* Nobody sleeps in sys_pause past the ticks that were asked for.           *)
THEOREM OversleepSafe == ASSUME ClockAssumption PROVE Spec => []NoOversleep
BY InvariantSafe, PTL DEF IInv

(* No pause ends early, for any modulus of the counter.                     *)
THEOREM PauseSafe == ASSUME ClockAssumption PROVE Spec => LongEnough
<1>1. IInv /\ [Next]_vars
        => [\A p \in Proc : pc[p] = "pause" /\ pc'[p] = "user" /\ ~killed[p]
               => waited[p] >= n[p]]_vars
  <2> SUFFICES ASSUME IInv, Next, NEW p \in Proc, pc[p] = "pause", pc'[p] = "user", ~killed[p]
               PROVE waited[p] >= n[p]
    OBVIOUS
  <2>1. Done(p) => waited[p] >= n[p]
    BY DEF Done, Over, IInv
  <2>2. Done(p)
    BY DEF Next, Step, Tick, Woken, Pause, Done, Cut, Sleep, Kill, Exit, IInv
  <2>3. QED
    BY <2>1, <2>2
<1>2. QED
  BY InvariantSafe, <1>1, PTL DEF Spec, LongEnough
=============================================================================
