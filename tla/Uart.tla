-------------------------------- MODULE Uart --------------------------------
(***************************************************************************)
(* Console output (kernel/uart.c: uartwrite, uartputc_sync, uartintr): the *)
(* harts share the transmitter.  uartwrite sends a byte when the one before*)
(* is out, and sleeps until uartintr says so; printf and the echo of input *)
(* go past it with uartputc_sync, which waits for the transmitter and does *)
(* not take uart_tx_lock.  All of them run with interrupts off, so a hart  *)
(* takes the interrupt only when it does nothing else here.                *)
(*                                                                         *)
(* The device is external: a transmit FIFO; an interrupt that is raised    *)
(* when the FIFO runs empty, and is cleared by a write to THR, or by a     *)
(* read of ISR if no received character is pending.  A newline is two      *)
(* bytes, with the same wait before each.                                  *)
(***************************************************************************)
EXTENDS Naturals, FiniteSets

CONSTANTS
    Hart, Proc, None,
    Bytes,       \* the bytes of one uartwrite
    Depth,       \* the bytes the transmit FIFO holds
    MaxSync,     \* bound: calls of printf
    MaxRx        \* bound: characters received

ASSUME UartAssumption ==
    /\ {Bytes, Depth} \subseteq Nat \ {0} /\ {MaxSync, MaxRx} \subseteq Nat
    /\ None \notin Hart \union Proc

VARIABLES
    busy, lock,          \* uart_tx_busy, uart_tx_lock (a hart, or None)
    pc, cur,             \* what a hart does, and for which process
    left,                \* per process: n - i of its uartwrite
    waiting,             \* the processes asleep on uart_tx_chan
    claimed,             \* the PLIC: the interrupt is being served
    fifo, thre, rx,      \* the device: bytes to send, interrupt, input
    overrun,             \* a byte was written to a full FIFO
    syncs, rxs           \* counters for the bounds

device == <<fifo, thre, rx, overrun>>
bounds == <<syncs, rxs>>
vars == <<busy, lock, pc, cur, left, waiting, claimed, device, bounds>>

Init ==
    /\ busy = FALSE /\ lock = None
    /\ pc = [h \in Hart |-> "idle"] /\ cur = [h \in Hart |-> None]
    /\ left = [p \in Proc |-> Bytes] /\ waiting = {}
    /\ claimed = FALSE
    /\ fifo = 0 /\ thre = TRUE /\ rx = FALSE /\ overrun = FALSE
    /\ syncs = 0 /\ rxs = 0

Goto(h, l) == pc' = [pc EXCEPT ![h] = l]

-----------------------------------------------------------------------------
(* The device *)
Drain ==
    /\ fifo > 0
    /\ fifo' = fifo - 1
    /\ thre' = (thre \/ fifo = 1)
    /\ UNCHANGED <<busy, lock, pc, cur, left, waiting, claimed, rx, overrun, bounds>>

Receive ==
    /\ ~rx /\ rxs < MaxRx
    /\ rx' = TRUE /\ rxs' = rxs + 1
    /\ UNCHANGED <<busy, lock, pc, cur, left, waiting, claimed, fifo, thre, overrun, syncs>>

(* WriteReg(THR, c) *)
WriteThr ==
    /\ fifo' = IF fifo < Depth THEN fifo + 1 ELSE fifo
    /\ overrun' = (overrun \/ fifo = Depth)
    /\ thre' = FALSE
    /\ UNCHANGED rx

-----------------------------------------------------------------------------
(* uartwrite, first run or after its sleep *)
Run(h, p) ==
    /\ pc[h] = "idle" /\ left[p] > 0 /\ p \notin waiting
    /\ \A g \in Hart : cur[g] # p
    /\ cur' = [cur EXCEPT ![h] = p]
    /\ Goto(h, "write_lock")
    /\ UNCHANGED <<busy, lock, left, waiting, claimed, device, bounds>>

WriteLock(h) ==
    /\ pc[h] = "write_lock" /\ lock = None
    /\ lock' = h
    /\ Goto(h, "write")
    /\ UNCHANGED <<busy, cur, left, waiting, claimed, device, bounds>>

(* Seeded fault: uart_tx_busy is not looked at. *)
MaySend_NotWaiting(h) == TRUE

(* while(uart_tx_busy) *)
MaySend(h) == ~busy

(* sleep(&uart_tx_chan, &uart_tx_lock) *)
Sleep(h) ==
    /\ pc[h] = "write" /\ ~MaySend(h)
    /\ waiting' = waiting \union {cur[h]}
    /\ lock' = None
    /\ cur' = [cur EXCEPT ![h] = None]
    /\ Goto(h, "idle")
    /\ UNCHANGED <<busy, left, claimed, device, bounds>>

Send(h) ==
    /\ pc[h] = "write" /\ MaySend(h)
    /\ WriteThr
    /\ busy' = TRUE
    /\ left' = [left EXCEPT ![cur[h]] = @ - 1]
    /\ IF left[cur[h]] = 1
       THEN lock' = None /\ cur' = [cur EXCEPT ![h] = None] /\ Goto(h, "idle")
       ELSE UNCHANGED <<lock, cur, pc>>
    /\ UNCHANGED <<waiting, claimed, bounds>>

-----------------------------------------------------------------------------
(* uartputc_sync for printf: wait for LSR_TX_IDLE, then write *)
PutSync(h) ==
    /\ pc[h] = "idle" /\ syncs < MaxSync
    /\ syncs' = syncs + 1
    /\ Goto(h, "sync_wait")
    /\ UNCHANGED <<busy, lock, cur, left, waiting, claimed, device, rxs>>

SyncWait(h) ==
    /\ pc[h] \in {"sync_wait", "echo_wait"} /\ fifo = 0
    /\ Goto(h, IF pc[h] = "sync_wait" THEN "sync_put" ELSE "echo_put")
    /\ UNCHANGED <<busy, lock, cur, left, waiting, claimed, device, bounds>>

SyncPut(h) ==
    /\ pc[h] \in {"sync_put", "echo_put"}
    /\ WriteThr
    /\ Goto(h, IF pc[h] = "sync_put" THEN "idle" ELSE "intr_rx")
    /\ UNCHANGED <<busy, lock, cur, left, waiting, claimed, bounds>>

-----------------------------------------------------------------------------
(* devintr: plic_claim; uartintr: read ISR *)
Claim(h) ==
    /\ pc[h] = "idle" /\ (thre \/ rx) /\ ~claimed
    /\ claimed' = TRUE
    /\ thre' = (thre /\ rx)
    /\ Goto(h, "intr_lock")
    /\ UNCHANGED <<busy, lock, cur, left, waiting, fifo, rx, overrun, bounds>>

IntrLock(h) ==
    /\ pc[h] = "intr_lock" /\ lock = None
    /\ lock' = h
    /\ Goto(h, "intr_tx")
    /\ UNCHANGED <<busy, cur, left, waiting, claimed, device, bounds>>

(* Seeded fault: uartintr does not wake the writer. *)
Woken_Kept == waiting

(* wakeup(&uart_tx_chan) *)
Woken == {}

(* uartintr, TX: the transmitter is idle *)
IntrTx(h) ==
    /\ pc[h] = "intr_tx"
    /\ IF fifo = 0 /\ busy
       THEN busy' = FALSE /\ waiting' = Woken
       ELSE UNCHANGED <<busy, waiting>>
    /\ lock' = None
    /\ Goto(h, "intr_rx")
    /\ UNCHANGED <<cur, left, claimed, device, bounds>>

(* Seeded fault: the interrupt is acknowledged after the work in the place of before. *)
IntrRx_AckLast(h) ==
    /\ pc[h] = "intr_rx"
    /\ IF rx
       THEN Goto(h, "echo_wait") /\ UNCHANGED <<claimed, thre>>
       ELSE Goto(h, "idle") /\ claimed' = FALSE /\ thre' = FALSE
    /\ rx' = FALSE
    /\ UNCHANGED <<busy, lock, cur, left, waiting, fifo, overrun, bounds>>

(* uartintr, RX: each character goes to consoleintr, which echoes it; then  *)
(* plic_complete.                                                           *)
IntrRx(h) ==
    /\ pc[h] = "intr_rx"
    /\ IF rx
       THEN Goto(h, "echo_wait") /\ UNCHANGED claimed
       ELSE Goto(h, "idle") /\ claimed' = FALSE
    /\ rx' = FALSE
    /\ UNCHANGED <<busy, lock, cur, left, waiting, fifo, thre, overrun, bounds>>

Step(h) ==
    \/ WriteLock(h) \/ Sleep(h) \/ Send(h) \/ SyncWait(h) \/ SyncPut(h)
    \/ IntrLock(h) \/ IntrTx(h) \/ IntrRx(h)

Next ==
    \/ Drain \/ Receive
    \/ \E h \in Hart : PutSync(h) \/ Claim(h) \/ Step(h) \/ \E p \in Proc : Run(h, p)

Spec == Init /\ [][Next]_vars

(* The device sends and interrupts; a hart goes on with what it does, and   *)
(* the scheduler runs the processes.  Every lock is released again, and the *)
(* calls are finitely many, so that an unfair spin ends.                    *)
Fairness ==
    /\ WF_vars(Drain)
    /\ WF_vars(\E h \in Hart : Claim(h))
    /\ \A h \in Hart : WF_vars(Step(h))
    /\ \A p \in Proc : WF_vars(\E h \in Hart : Run(h, p))

LiveSpec == Spec /\ Fairness

-----------------------------------------------------------------------------
(* The state is of its type; the lock is held by the hart in its section.   *)
TypeOK ==
    /\ busy \in BOOLEAN /\ fifo \in 0..Depth /\ left \in [Proc -> 0..Bytes]
    /\ waiting \subseteq Proc
    /\ \A h \in Hart : /\ lock = h <=> pc[h] \in {"write", "intr_tx"}
                       /\ cur[h] # None <=> pc[h] \in {"write_lock", "write"}

(* While uart_tx_busy is set, the interrupt that clears it is still to      *)
(* come: bytes are on their way out, or it is raised, or a hart that took   *)
(* it has still to look at the transmitter.  A uartputc_sync on another     *)
(* hart, or the echo, may clear the interrupt and fill the FIFO again       *)
(* between the two reads of uartintr.                                       *)
IntrComes ==
    busy => \/ fifo > 0 \/ thre
            \/ \E h \in Hart : pc[h] \in {"intr_lock", "intr_tx"}

(* uartwrite does not look at the FIFO, and uartputc_sync not at            *)
(* uart_tx_busy: still, no byte meets a full FIFO.                          *)
NoOverrun == ~overrun

(* Every write to the console is sent to its end. *)
WriteDone == \A p \in Proc : <>[](left[p] = 0)
=============================================================================
