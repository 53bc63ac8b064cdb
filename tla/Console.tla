------------------------------ MODULE Console -------------------------------
(***************************************************************************)
(* Console input (kernel/uart.c, consoleread and consoleintr): a ring of   *)
(* INPUT_BUF_SIZE characters with three counters that only grow and wrap   *)
(* as unsigned integers.  r..w is entered input, w..e the line being       *)
(* typed.  consoleintr is one step: it runs under cons.lock, with          *)
(* interrupts off; a read holds the lock from one sleep to the next.       *)
(* The echo is part of Uart.tla.                                           *)
(***************************************************************************)
EXTENDS Integers, Sequences

CONSTANTS
    Reader, None,
    Char, NL, EOT,      \* characters; newline and control-D are among them
    INPUT_BUF_SIZE,
    UMOD,               \* 2^32, the modulus of the counters
    MaxRead             \* bound: the bytes a read asks for

ASSUME ConsoleAssumption ==
    /\ INPUT_BUF_SIZE \in Nat \ {0}
    /\ UMOD \in Nat /\ UMOD > INPUT_BUF_SIZE /\ UMOD % INPUT_BUF_SIZE = 0
    /\ {NL, EOT} \subseteq Char /\ None \notin Reader

VARIABLES
    buf, r, w, e,   \* struct cons
    lock,           \* cons.lock: the reader that holds it, or None
    pc,             \* "user", "acquire", "loop", "asleep"
    n, got,         \* consoleread: bytes still to read, target - n
    killed

cons == <<buf, r, w, e>>
vars == <<cons, lock, pc, n, got, killed>>

Inc(i) == (i + 1) % UMOD

Dec(i) == (i - 1) % UMOD

Sub(i, j) == (i - j) % UMOD
At(i) == i % INPUT_BUF_SIZE

Init ==
    /\ buf = [i \in 0..INPUT_BUF_SIZE - 1 |-> NL]
    /\ r = 0 /\ w = 0 /\ e = 0
    /\ lock = None
    /\ pc = [p \in Reader |-> "user"]
    /\ n = [p \in Reader |-> 0] /\ got = [p \in Reader |-> 0]
    /\ killed = [p \in Reader |-> FALSE]

-----------------------------------------------------------------------------
(* Seeded fault: wakeup(&cons) in the place of wakeup(&cons.r). *)
Woken_WrongChan == pc

(* wakeup(&cons.r) *)
Woken == [p \in Reader |-> IF pc[p] = "asleep" THEN "acquire" ELSE pc[p]]

(* A newline, control-D or a full buffer enters the line. *)
Enters(c, e1) == c \in {NL, EOT} \/ Sub(e1, r) = INPUT_BUF_SIZE

Space == Sub(e, r) < INPUT_BUF_SIZE

(* consoleintr, the default case *)
Type(c) ==
    /\ lock = None /\ Space
    /\ buf' = [buf EXCEPT ![At(e)] = c]
    /\ e' = Inc(e)
    /\ IF Enters(c, Inc(e)) THEN w' = Inc(e) /\ pc' = Woken ELSE UNCHANGED <<w, pc>>
    /\ UNCHANGED <<r, lock, n, got, killed>>

(* consoleintr, control-H and delete *)
Backspace ==
    /\ lock = None /\ e # w
    /\ e' = Dec(e)
    /\ UNCHANGED <<buf, r, w, lock, pc, n, got, killed>>

(* consoleintr, control-U: back to w, or to a newline after it *)
KillLine ==
    /\ lock = None /\ e # w
    /\ \E k \in 1..Sub(e, w) :
         /\ e' = Sub(e, k)
         /\ \A i \in 1..k : buf[At(Sub(e, i))] # NL
         /\ k = Sub(e, w) \/ buf[At(Sub(e, k + 1))] = NL
    /\ UNCHANGED <<buf, r, w, lock, pc, n, got, killed>>

(* consoleintr, control-C: setkilled of the process that is interrupted,    *)
(* which is one that runs.                                                  *)
ControlC(p) ==
    /\ lock = None /\ pc[p] \in {"user", "acquire"} /\ ~killed[p]
    /\ killed' = [killed EXCEPT ![p] = TRUE]
    /\ UNCHANGED <<cons, lock, pc, n, got>>

-----------------------------------------------------------------------------
Goto(p, l) == pc' = [pc EXCEPT ![p] = l]

(* usertrap lets a killed process make no call. *)
Call(p) ==
    /\ pc[p] = "user" /\ ~killed[p]
    /\ \E k \in 1..MaxRead : n' = [n EXCEPT ![p] = k]
    /\ got' = [got EXCEPT ![p] = 0]
    /\ Goto(p, "acquire")
    /\ UNCHANGED <<cons, lock, killed>>

(* acquire, at the start of consoleread and at the end of sleep *)
Acquire(p) ==
    /\ pc[p] = "acquire" /\ lock = None
    /\ lock' = p
    /\ Goto(p, "loop")
    /\ UNCHANGED <<cons, n, got, killed>>

Return(p) == Goto(p, "user") /\ lock' = None /\ n' = [n EXCEPT ![p] = 0]

(* Nothing to read: a killed process returns -1, another one sleeps. *)
Killed(p) ==
    /\ pc[p] = "loop" /\ r = w /\ killed[p]
    /\ Return(p)
    /\ UNCHANGED <<cons, got, killed>>

Sleep(p) ==
    /\ pc[p] = "loop" /\ r = w /\ ~killed[p]
    /\ lock' = None
    /\ Goto(p, "asleep")
    /\ UNCHANGED <<cons, n, got, killed>>

(* Seeded fault: the control-D is consumed with the bytes before it. *)
PutBack_Never(p) == Inc(r)

(* Control-D after some bytes goes back into the buffer. *)
PutBack(p) == IF got[p] > 0 THEN r ELSE Inc(r)

(* One iteration of the loop of consoleread *)
GetEof(p) ==
    /\ pc[p] = "loop" /\ r # w /\ buf[At(r)] = EOT
    /\ r' = PutBack(p)
    /\ Return(p)
    /\ UNCHANGED <<buf, w, e, got, killed>>

GetChar(p) ==
    /\ pc[p] = "loop" /\ r # w /\ buf[At(r)] # EOT
    /\ r' = Inc(r)
    /\ got' = [got EXCEPT ![p] = @ + 1]
    /\ IF n[p] = 1 \/ buf[At(r)] = NL
       THEN Return(p)
       ELSE n' = [n EXCEPT ![p] = @ - 1] /\ UNCHANGED <<pc, lock>>
    /\ UNCHANGED <<buf, w, e, killed>>

(* either_copyout fails: the character is gone *)
CopyFail(p) ==
    /\ pc[p] = "loop" /\ r # w /\ buf[At(r)] # EOT
    /\ r' = Inc(r)
    /\ Return(p)
    /\ UNCHANGED <<buf, w, e, got, killed>>

(* A killed process exits; another one takes its place. *)
Exit(p) ==
    /\ pc[p] = "user" /\ killed[p]
    /\ killed' = [killed EXCEPT ![p] = FALSE]
    /\ UNCHANGED <<cons, lock, pc, n, got>>

Next ==
    \/ \E c \in Char : Type(c)
    \/ Backspace \/ KillLine
    \/ \E p \in Reader :
         \/ ControlC(p) \/ Call(p) \/ Acquire(p) \/ Killed(p) \/ Sleep(p)
         \/ GetEof(p) \/ GetChar(p) \/ CopyFail(p) \/ Exit(p)

Spec == Init /\ [][Next]_vars

-----------------------------------------------------------------------------
(* The counters are unsigned integers, in order and at most a buffer apart. *)
TypeOK ==
    /\ {r, w, e} \subseteq 0..UMOD - 1
    /\ Sub(w, r) + Sub(e, w) = Sub(e, r) /\ Sub(e, r) <= INPUT_BUF_SIZE
    /\ lock \in Reader \union {None}
    /\ \A p \in Reader : n[p] \in 0..MaxRead /\ (lock = p <=> pc[p] = "loop")

(* A reader sleeps only while there is nothing to read: consoleintr wakes   *)
(* it when it enters a line, also one that fills the buffer.                *)
NoLostWakeup == \A p \in Reader : pc[p] = "asleep" => r = w

(* The ring of characters with its wrapping counters is the terminal of     *)
(* ConsoleAbs: what readers get is what was typed and not erased, in order, *)
(* each character once, and an end-of-file ends exactly one read that has   *)
(* nothing else.                                                            *)
Terminal ==
    INSTANCE ConsoleAbs WITH
        Size <- INPUT_BUF_SIZE,
        input <- [i \in 1..Sub(w, r) |-> buf[At(r + i - 1)]],
        line <- [i \in 1..Sub(e, w) |-> buf[At(w + i - 1)]]

ImplementsTerminal == Terminal!Spec
=============================================================================
