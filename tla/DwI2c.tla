------------------------------- MODULE DwI2c --------------------------------
(***************************************************************************)
(* The I2C master of the system-management firmware                        *)
(* (lib/tenstorrent/bh_arc/dw_apb_i2c.c): I2CTransaction pushes the bytes  *)
(* to write and the read commands into the controller's transmit FIFO and  *)
(* polls the controller. The controller and the addressed device run       *)
(* beside it: the device may refuse a byte, which makes the controller     *)
(* throw its FIFO away and raise an abort, or hold the bus, which the      *)
(* polling loops end by a time limit and a bus recovery.                   *)
(***************************************************************************)
EXTENDS Integers, Sequences

CONSTANTS
    I2Depth,    \* transmit FIFO depth
    I2Max       \* the most bytes a transaction writes or reads

\* The FIFO holds at least one command and a transaction moves at least one.
ASSUME I2Assumption == I2Depth \in Nat \ {0} /\ I2Max \in Nat \ {0}

VARIABLES
    i2_fifo,    \* transmit FIFO
    i2_rx,      \* bytes in the receive FIFO
    i2_abrt,    \* IC_TX_ABRT_SOURCE is set
    i2_active,  \* IC_STATUS.MST_ACTIVITY
    i2_stuck,   \* the device holds the bus
    i2_pc,      \* where the transaction is
    i2_todo,    \* bytes it has still to write and to read
    i2_ret,     \* what the last transaction returned
    i2_op       \* history: bytes of the current or last transaction, bytes the
                \* device gave it, and whether the device refused one

i2_vars == <<i2_fifo, i2_rx, i2_abrt, i2_active, i2_stuck, i2_pc, i2_todo, i2_ret, i2_op>>

I2Init ==
    /\ i2_fifo = <<>> /\ i2_rx = 0
    /\ i2_abrt = FALSE /\ i2_active = FALSE /\ i2_stuck = FALSE
    /\ i2_pc = "idle" /\ i2_todo = [w |-> 0, r |-> 0]
    /\ i2_ret = "none"
    /\ i2_op = [w |-> 0, r |-> 0, given |-> 0, refused |-> FALSE]

I2Controller == <<i2_fifo, i2_rx, i2_abrt, i2_active, i2_stuck>>

\* I2CInit waits for the FIFO to empty and the master to be idle, or recovers
\* the bus, and sets the controller up anew; then the transaction starts. A
\* register write of a value or a read of one both send at least one byte.
I2CInit(w, r) ==
    /\ i2_pc = "idle"
    /\ i2_fifo = <<>> /\ ~i2_active
    /\ i2_pc' = "write"
    /\ i2_todo' = [w |-> w, r |-> r]
    /\ i2_op' = [w |-> w, r |-> r, given |-> 0, refused |-> FALSE]
    /\ i2_ret' = "none"
    /\ i2_rx' = 0
    /\ UNCHANGED <<i2_fifo, i2_abrt, i2_active, i2_stuck>>

\* WriteTxFifo: with room, the command enters the FIFO; the controller ignores
\* it while an abort is pending.
WriteTxFifo(c) == i2_fifo' = IF i2_abrt THEN i2_fifo ELSE Append(i2_fifo, c)

\* I2CTransaction, writing: the next byte; then the wait for completion, or
\* the read commands when something is to be read.
I2PutWrite ==
    /\ i2_pc = "write" /\ Len(i2_fifo) < I2Depth
    /\ WriteTxFifo("W")
    /\ i2_todo' = [i2_todo EXCEPT !.w = @ - 1]
    /\ i2_pc' = IF i2_todo.w > 1 THEN "write" ELSE IF i2_todo.r = 0 THEN "txabrt" ELSE "read"
    /\ UNCHANGED <<i2_rx, i2_abrt, i2_active, i2_stuck, i2_ret, i2_op>>

\* I2CTransaction, reading: one read command, then its byte.
I2PutRead ==
    /\ i2_pc = "read" /\ Len(i2_fifo) < I2Depth
    /\ WriteTxFifo("R")
    /\ i2_pc' = "rxabrt"
    /\ UNCHANGED <<i2_rx, i2_abrt, i2_active, i2_stuck, i2_todo, i2_ret, i2_op>>

I2Return(ret) == i2_pc' = "idle" /\ i2_ret' = ret

\* Both loops look at the abort first, clear it and return it.
CheckTxAbrt(pc, next) ==
    /\ i2_pc = pc
    /\ IF i2_abrt THEN i2_abrt' = FALSE /\ I2Return("abort")
       ELSE i2_pc' = next /\ UNCHANGED <<i2_abrt, i2_ret>>
    /\ UNCHANGED <<i2_fifo, i2_rx, i2_active, i2_stuck, i2_todo, i2_op>>

\* WaitAllTxDone then looks at the status: master idle and FIFO empty end it.
WaitAllTxDone ==
    /\ i2_pc = "txstatus"
    /\ IF i2_active \/ i2_fifo # <<>> THEN i2_pc' = "txabrt" /\ UNCHANGED i2_ret
       ELSE I2Return("ok")
    /\ UNCHANGED <<I2Controller, i2_todo, i2_op>>

I2CReadRxFifo_noWait ==
    /\ i2_pc = "rxstatus"
    /\ i2_rx' = IF i2_rx = 0 THEN 0 ELSE i2_rx - 1
    /\ i2_todo' = [i2_todo EXCEPT !.r = @ - 1]
    /\ IF i2_todo.r = 1 THEN I2Return("ok") ELSE i2_pc' = "read" /\ UNCHANGED i2_ret
    /\ UNCHANGED <<i2_fifo, i2_abrt, i2_active, i2_stuck, i2_op>>

\* I2CReadRxFifo then looks for a byte; the last one ends the transaction.
I2CReadRxFifo ==
    /\ i2_pc = "rxstatus"
    /\ IF i2_rx = 0
       THEN i2_pc' = "rxabrt" /\ UNCHANGED <<i2_rx, i2_todo, i2_ret>>
       ELSE /\ i2_rx' = i2_rx - 1
            /\ i2_todo' = [i2_todo EXCEPT !.r = @ - 1]
            /\ IF i2_todo.r = 1 THEN I2Return("ok") ELSE i2_pc' = "read" /\ UNCHANGED i2_ret
    /\ UNCHANGED <<i2_fifo, i2_abrt, i2_active, i2_stuck, i2_op>>

\* I2CRecoverBus: the controller is disabled, which empties its FIFOs, the bus
\* is clocked free by hand, and the controller is enabled again.
I2CRecoverBus ==
    /\ i2_fifo' = <<>> /\ i2_rx' = 0
    /\ i2_active' = FALSE /\ i2_stuck' = FALSE
    /\ UNCHANGED i2_abrt

\* A polling loop that waits for the controller runs out of time: it recovers
\* the bus and returns -ETIMEDOUT. WaitTxFifoNotFull only recovers and goes on,
\* and so do the two waits of I2CInit.
I2Timeout ==
    /\ \/ i2_pc = "txstatus" /\ (i2_active \/ i2_fifo # <<>>) /\ I2Return("timeout")
       \/ i2_pc = "rxstatus" /\ i2_rx = 0 /\ I2Return("timeout")
       \/ i2_pc \in {"write", "read"} /\ Len(i2_fifo) = I2Depth /\ UNCHANGED <<i2_pc, i2_ret>>
       \/ i2_pc = "idle" /\ (i2_fifo # <<>> \/ i2_active) /\ UNCHANGED <<i2_pc, i2_ret>>
    /\ I2CRecoverBus
    /\ UNCHANGED <<i2_todo, i2_op>>

\* External: the controller moves the oldest command over the bus.
I2Byte ==
    /\ i2_fifo # <<>> /\ ~i2_stuck
    /\ i2_fifo' = Tail(i2_fifo)
    /\ i2_active' = TRUE
    /\ IF Head(i2_fifo) = "R"
       THEN i2_rx' = i2_rx + 1 /\ i2_op' = [i2_op EXCEPT !.given = @ + 1]
       ELSE UNCHANGED <<i2_rx, i2_op>>
    /\ UNCHANGED <<i2_abrt, i2_stuck, i2_pc, i2_todo, i2_ret>>

\* External: the device refuses a byte: abort, and the FIFO is thrown away; the
\* master stays active until it has put its stop condition on the bus.
I2Refuse ==
    /\ i2_fifo # <<>> /\ ~i2_stuck
    /\ i2_fifo' = <<>> /\ i2_abrt' = TRUE /\ i2_active' = TRUE
    /\ i2_op' = [i2_op EXCEPT !.refused = TRUE]
    /\ UNCHANGED <<i2_rx, i2_stuck, i2_pc, i2_todo, i2_ret>>

\* External: the stop condition is out.
I2Stop ==
    /\ i2_active /\ i2_fifo = <<>> /\ ~i2_stuck
    /\ i2_active' = FALSE
    /\ UNCHANGED <<i2_fifo, i2_rx, i2_abrt, i2_stuck, i2_pc, i2_todo, i2_ret, i2_op>>

\* External: the device holds the bus in the middle of a transfer.
I2Hold ==
    /\ ~i2_stuck /\ (i2_fifo # <<>> \/ i2_active)
    /\ i2_stuck' = TRUE
    /\ UNCHANGED <<i2_fifo, i2_rx, i2_abrt, i2_active, i2_pc, i2_todo, i2_ret, i2_op>>

\* The steps of the caller, which the scheduler keeps running.
I2Caller ==
    \/ I2PutWrite \/ I2PutRead
    \/ CheckTxAbrt("txabrt", "txstatus") \/ CheckTxAbrt("rxabrt", "rxstatus")
    \/ WaitAllTxDone \/ I2CReadRxFifo

I2Next ==
    \/ \E w \in 1 .. I2Max, r \in 0 .. I2Max : I2CInit(w, r)
    \/ I2Caller \/ I2Timeout
    \/ I2Byte \/ I2Refuse \/ I2Stop \/ I2Hold

\* The caller runs, and a loop that keeps waiting runs out of time.
I2Fair == WF_i2_vars(I2Caller) /\ SF_i2_vars(I2Timeout)

I2Spec == I2Init /\ [][I2Next]_i2_vars /\ I2Fair

-----------------------------------------------------------------------------

\* Types of the state.
I2TypeOK ==
    /\ i2_fifo \in UNION {[1 .. n -> {"W", "R"}] : n \in 0 .. I2Depth}
    /\ i2_rx \in 0 .. I2Max
    /\ i2_abrt \in BOOLEAN /\ i2_active \in BOOLEAN /\ i2_stuck \in BOOLEAN
    /\ i2_pc \in {"idle", "write", "read", "txabrt", "txstatus", "rxabrt", "rxstatus"}
    /\ i2_todo \in [w : 0 .. I2Max, r : 0 .. I2Max]
    /\ i2_ret \in {"none", "ok", "abort", "timeout"}
    /\ i2_op \in [w : 0 .. I2Max, r : 0 .. I2Max, given : 0 .. I2Max, refused : BOOLEAN]

\* A transaction that reads returns 0 only with all its bytes, each given by the
\* device during this very transaction, and none of them refused: a byte left
\* over from an earlier transaction, a recovery or an abort never passes for one.
I2ReadTrue ==
    (i2_ret = "ok" /\ i2_op.r > 0) => i2_op.given = i2_op.r /\ ~i2_op.refused

=============================================================================
