----------------------------- MODULE RemoteBoot -----------------------------
(***************************************************************************)
(* Bringing up the other dies of a Grendel package.  The controller die    *)
(* writes the firmware to every remote SMC over OCCP and starts it         *)
(* (tt_mimir_remote_boot, tt_smc_remoteproc, lib/tenstorrent/occp), then   *)
(* drives the die-to-die tiles of a remote die with commands over I3C      *)
(* (tt_grendel_i3c_controller); the target runs each command on a work     *)
(* queue (tt_grendel_i3c_target), which loads and starts a tile (tt_d2d)   *)
(* with the Grendel DMA engine (dma_tt_grendel_smc).  An image is a set of *)
(* chunks; the SRAM of a tile is its image, its parameter table, the magic *)
(* word that validates the table and the progress code.                    *)
(***************************************************************************)
EXTENDS Integers, Sequences, FiniteSets

CONSTANTS
    RbProcs,     \* remote processors: 1..RbProcs
    RbChunks,    \* OCCP messages an image takes
    RbTries,     \* CONFIG_OCCP_RETRY_COUNT
    RbTiles,     \* D2D tiles of the target: 0..RbTiles - 1
    RbAsk,       \* instances the caller asks for, in order
    RbStaged,    \* firmware sizes that may be staged: a subset of {"good", "odd", "big"}
    RbPolicy,    \* what the caller does when a command fails: "stop" or "next"
    RbPings,     \* pings the caller's deadline allows
    RbDma        \* the tile has a dmas property

ASSUME RbAssumption ==
    /\ RbProcs \in Nat \ {0} /\ RbChunks \in Nat \ {0} /\ RbTries \in Nat /\ RbPings \in Nat \ {0}
    /\ RbPolicy \in {"stop", "next"} /\ RbDma \in BOOLEAN
    /\ RbTiles \in Nat /\ RbAsk \in Seq(Nat) /\ RbAsk # <<>>

VARIABLES
    rb_ctl,      \* the controller: [pc, p, c, tries, k]
    rb_ready,    \* remote processors found on the I3C bus
    rb_mem,      \* chunks in each remote memory
    rb_live,     \* remote processors executing their image
    rb_pend,     \* the target's pending_opcode and pending_payload
    rb_work,     \* its work item is queued
    rb_job,      \* the work handler: [pc, op, tile, ok]
    rb_fifo,     \* responses the target left for the controller
    rb_tile,     \* the tiles
    rb_dma,      \* DMA transfers a tile's engine still has to do, after a timeout
    rb_done,     \* history: commands the target ran to an OK
    rb_told      \* the command the controller last took for done

rb_vars == <<rb_ctl, rb_ready, rb_mem, rb_live, rb_pend, rb_work, rb_job, rb_fifo, rb_tile, rb_dma, rb_done,
             rb_told>>
rb_remote == <<rb_pend, rb_work, rb_job, rb_fifo, rb_tile, rb_dma, rb_done>>
rb_boot == <<rb_ready, rb_mem, rb_live>>

RbTile == 0..(RbTiles - 1)
RbNoJob == [pc |-> "idle", op |-> "none", tile |-> 0]
RbNoCmd == [op |-> "none", tile |-> 0]

\* SRAM keeps what a warm reset left in it, a table marked valid and a trained link included; a tile
\* may still run what an earlier bring-up loaded.
RbInit ==
    /\ rb_ctl = [pc |-> "attach", p |-> 1, c |-> 1, tries |-> RbTries, k |-> 1]
    /\ rb_ready = {} /\ rb_mem = [p \in 1..RbProcs |-> {}] /\ rb_live = {}
    /\ rb_pend = RbNoCmd /\ rb_work = FALSE /\ rb_job = RbNoJob /\ rb_fifo = <<>>
    /\ rb_tile \in [RbTile -> {[core |-> FALSE, straps |-> FALSE, image |-> "junk", parms |-> "junk",
                                magic |-> m, code |-> IF m THEN "trained" ELSE "zero", fresh |-> FALSE] :
                               m \in BOOLEAN}
                              \cup {[core |-> TRUE, straps |-> TRUE, image |-> "firmware", parms |-> "set",
                                    magic |-> TRUE, code |-> "trained", fresh |-> FALSE]}]
    /\ rb_dma = [t \in RbTile |-> FALSE]
    /\ rb_done = {} /\ rb_told = RbNoCmd
-----------------------------------------------------------------------------
(* Loading and starting the remote processors.                             *)

\* The boot pin, dynamic addressing and the search on the bus; the device is not ready when one fails.
tt_smc_remoteproc_init(ok) ==
    /\ rb_ctl.pc = "attach"
    /\ rb_ready' = IF ok THEN rb_ready \cup {rb_ctl.p} ELSE rb_ready
    /\ rb_ctl' = IF rb_ctl.p < RbProcs THEN [rb_ctl EXCEPT !.p = @ + 1]
                 ELSE [rb_ctl EXCEPT !.pc = "locate", !.p = 1]
    /\ UNCHANGED <<rb_mem, rb_live, rb_told>> /\ UNCHANGED rb_remote

\* tt_mimir_remote_boot_init: the image's entry in the bundle, then each processor in turn; one that
\* is not ready ends the boot.
tt_mimir_remote_boot_init(found) ==
    /\ \/ rb_ctl.pc = "locate" /\ rb_ctl' = [rb_ctl EXCEPT !.pc = IF found THEN "load" ELSE "failed"]
       \/ rb_ctl.pc = "load" /\ rb_ctl.p \notin rb_ready /\ rb_ctl' = [rb_ctl EXCEPT !.pc = "failed"]
    /\ UNCHANGED rb_told /\ UNCHANGED rb_boot /\ UNCHANGED rb_remote

\* occp_tx_rx, with its effect on the remote memory and whether an answer without flags came back.
occp_tx_rx(written) ==
    rb_mem' = IF written THEN [rb_mem EXCEPT ![rb_ctl.p] = @ \cup {rb_ctl.c}] ELSE rb_mem

\* occp_write_data goes to its next message, tt_mimir_remote_boot_init to its next processor.
RbAdvance ==
    [rb_ctl EXCEPT !.tries = RbTries,
                   !.c = IF @ < RbChunks THEN @ + 1 ELSE 1,
                   !.p = IF rb_ctl.c < RbChunks THEN @ ELSE IF @ < RbProcs THEN @ + 1 ELSE 1,
                   !.pc = IF rb_ctl.c < RbChunks \/ rb_ctl.p < RbProcs THEN @ ELSE "boot"]

\* occp_run_transaction inside occp_write_data: the loop ends with the attempt that brings the count
\* to 0, and with the first one when the count is 0 already.
occp_run_transaction(written, answered) ==
    /\ rb_ctl.pc = "load" /\ rb_ctl.p \in rb_ready /\ (answered => written)
    /\ occp_tx_rx(written)
    /\ rb_ctl' = IF answered THEN RbAdvance
                 ELSE IF rb_ctl.tries <= 1 THEN [rb_ctl EXCEPT !.pc = "failed"]
                 ELSE [rb_ctl EXCEPT !.tries = @ - 1]
    /\ UNCHANGED <<rb_ready, rb_live, rb_told>> /\ UNCHANGED rb_remote

\* occp_execute_image on each processor, without a retry; a lost answer fails the boot although the
\* image may run.
occp_execute_image(started, answered) ==
    /\ rb_ctl.pc = "boot" /\ (answered => started)
    /\ rb_live' = IF started THEN rb_live \cup {rb_ctl.p} ELSE rb_live
    /\ rb_ctl' = IF ~answered THEN [rb_ctl EXCEPT !.pc = "failed"]
                 ELSE IF rb_ctl.p < RbProcs THEN [rb_ctl EXCEPT !.p = @ + 1]
                 ELSE [rb_ctl EXCEPT !.pc = "send", !.k = 0, !.tries = RbPings]
    /\ UNCHANGED <<rb_ready, rb_mem, rb_told>> /\ UNCHANGED rb_remote
-----------------------------------------------------------------------------
(* The controller's side of a command.  The caller pings until the target  *)
(* answers (k = 0), initialises each tile it asks for (k = 1..n), then     *)
(* starts each of them (k = n+1..2n).                                      *)

RbN == Len(RbAsk)
RbCommand(k) ==
    IF k = 0 THEN [op |-> "PING", tile |-> 0]
    ELSE IF k <= RbN THEN [op |-> "D2D_INIT", tile |-> RbAsk[k]]
    ELSE [op |-> "D2D_START", tile |-> RbAsk[k - RbN]]

RbNextCommand == [rb_ctl EXCEPT !.k = @ + 1, !.pc = IF rb_ctl.k = 2 * RbN THEN "link" ELSE "send"]

\* What follows a command that failed or timed out: another ping, or what the caller's policy says.
RbFailed ==
    IF rb_ctl.k = 0
    THEN IF rb_ctl.tries > 1 THEN [rb_ctl EXCEPT !.tries = @ - 1, !.pc = "send"]
         ELSE [rb_ctl EXCEPT !.pc = "failed"]
    ELSE IF RbPolicy = "stop" THEN [rb_ctl EXCEPT !.pc = "failed"]
    ELSE RbNextCommand

\* tt_grendel_i3c_run_cmd up to its write; tt_grendel_i3c_write_received assembles the frame and
\* hands it to the work queue.  A broken write leaves nothing: the stop callback drops the bytes.
tt_grendel_i3c_write_received ==
    /\ rb_pend' = RbCommand(rb_ctl.k) /\ rb_work' = TRUE

RbSend(ok) ==
    /\ rb_ctl.pc = "send"
    /\ IF ok THEN tt_grendel_i3c_write_received /\ rb_ctl' = [rb_ctl EXCEPT !.pc = "poll"]
       ELSE rb_ctl' = RbFailed /\ UNCHANGED <<rb_pend, rb_work>>
    /\ UNCHANGED <<rb_job, rb_fifo, rb_tile, rb_dma, rb_done, rb_told>> /\ UNCHANGED rb_boot

tt_grendel_i3c_read_response_anyOpcode ==
    /\ rb_ctl.pc = "poll" /\ rb_fifo # <<>>
    /\ rb_fifo' = Tail(rb_fifo)
    /\ IF Head(rb_fifo).ok THEN rb_ctl' = RbNextCommand /\ rb_told' = RbCommand(rb_ctl.k)
       ELSE rb_ctl' = RbFailed /\ UNCHANGED rb_told
    /\ UNCHANGED <<rb_pend, rb_work, rb_job, rb_tile, rb_dma, rb_done>> /\ UNCHANGED rb_boot

\* tt_grendel_i3c_read_response: the oldest response left, matched by its opcode alone.
tt_grendel_i3c_read_response ==
    LET cmd == RbCommand(rb_ctl.k)
        resp == Head(rb_fifo)
    IN /\ rb_ctl.pc = "poll" /\ rb_fifo # <<>>
       /\ rb_fifo' = Tail(rb_fifo)
       /\ IF resp.op # cmd.op THEN UNCHANGED <<rb_ctl, rb_told>>
          ELSE IF resp.ok THEN rb_ctl' = RbNextCommand /\ rb_told' = cmd
          ELSE rb_ctl' = RbFailed /\ UNCHANGED rb_told
       /\ UNCHANGED <<rb_pend, rb_work, rb_job, rb_tile, rb_dma, rb_done>> /\ UNCHANGED rb_boot

\* The deadline of tt_grendel_i3c_run_cmd passes.
RbTimeout ==
    /\ rb_ctl.pc = "poll" /\ rb_ctl' = RbFailed
    /\ UNCHANGED rb_told /\ UNCHANGED rb_boot /\ UNCHANGED rb_remote
-----------------------------------------------------------------------------
(* The target: the work handler reads the opcode, then the payload, then   *)
(* works on the tile, one register block or transfer per step.             *)

RbEnter ==
    /\ rb_work /\ rb_job.pc = "idle" /\ rb_work' = FALSE
    /\ rb_job' = [pc |-> "fetch", op |-> rb_pend.op, tile |-> 0]
    /\ UNCHANGED <<rb_ctl, rb_pend, rb_fifo, rb_tile, rb_dma, rb_done, rb_told>> /\ UNCHANGED rb_boot

\* tt_grendel_i3c_target_work: the result goes into the response FIFO, or is lost there.
RbRespond(job, ok, kept) ==
    /\ rb_fifo' = IF kept THEN Append(rb_fifo, [op |-> job.op, ok |-> ok]) ELSE rb_fifo
    /\ rb_done' = IF ok THEN rb_done \cup {[op |-> job.op, tile |-> job.tile]} ELSE rb_done
    /\ rb_job' = RbNoJob

RbTileStep == UNCHANGED <<rb_ctl, rb_pend, rb_work, rb_told>> /\ UNCHANGED rb_boot
RbQuiet == UNCHANGED <<rb_fifo, rb_done>>

\* The seven resets of the tile's subsystem, released one after the other.
tt_d2d_reset_release(tile) == [tile EXCEPT !.straps = TRUE]

tt_d2d_start(tile) == [tile EXCEPT !.core = TRUE]

\* tt_grendel_i3c_dispatch: a ping is answered at once, an unknown instance refused.
tt_grendel_i3c_dispatch(kept) ==
    LET job == [rb_job EXCEPT !.tile = rb_pend.tile]
    IN /\ rb_job.pc = "fetch" /\ RbTileStep
       /\ IF job.op = "PING" THEN RbRespond([job EXCEPT !.tile = 0], TRUE, kept) /\ UNCHANGED <<rb_tile, rb_dma>>
          ELSE IF job.tile \notin RbTile THEN RbRespond(job, FALSE, kept) /\ UNCHANGED <<rb_tile, rb_dma>>
          ELSE IF job.op = "D2D_START"
          THEN /\ RbRespond(job, TRUE, kept) /\ UNCHANGED rb_dma
               /\ rb_tile' = [rb_tile EXCEPT ![job.tile] = tt_d2d_start(@)]
          ELSE /\ rb_job' = [job EXCEPT !.pc = "size"] /\ RbQuiet /\ UNCHANGED rb_dma
               /\ rb_tile' = [rb_tile EXCEPT ![job.tile] = tt_d2d_reset_release(@)]

RbFail(kept) == RbRespond(rb_job, FALSE, kept)
RbGo(pc) == rb_job' = [rb_job EXCEPT !.pc = pc] /\ RbQuiet

\* tt_d2d_load_fw: the staged image's size, then the core held in reset with the uncore released.
RbSize(size, kept) ==
    /\ rb_job.pc = "size" /\ RbTileStep /\ UNCHANGED <<rb_tile, rb_dma>>
    /\ IF size = "good" THEN RbGo("hold") ELSE RbFail(kept)

tt_d2d_cpu_ctrl_run(up, kept) ==
    /\ rb_job.pc = "hold" /\ RbTileStep /\ UNCHANGED <<rb_tile, rb_dma>>
    /\ IF up THEN RbGo("probe") ELSE RbFail(kept)

tt_d2d_cpu_ctrl(up, kept) ==
    /\ rb_job.pc = "hold" /\ RbTileStep /\ UNCHANGED rb_dma
    /\ rb_tile' = [rb_tile EXCEPT ![rb_job.tile].core = FALSE]
    /\ IF up THEN RbGo("probe") ELSE RbFail(kept)

\* The probe word lands in the first word of the image.
RbProbe(answers, kept) ==
    /\ rb_job.pc = "probe" /\ RbTileStep /\ UNCHANGED rb_dma
    /\ (answers => rb_tile[rb_job.tile].straps)
    /\ rb_tile' = IF answers THEN [rb_tile EXCEPT ![rb_job.tile].image = "junk"] ELSE rb_tile
    /\ IF answers THEN RbGo("clear") ELSE RbFail(kept)

\* dma_grendel_start issues the transfer and polls for its id: an id of 0 is an error, and past the
\* timeout the transfer is still in the engine.  Transfers finish in order.
dma_grendel_start(outcome, new) ==
    LET t == rb_job.tile
    IN /\ rb_tile' = IF outcome = "done" THEN [rb_tile EXCEPT ![t] = new] ELSE rb_tile
       /\ rb_dma' = IF outcome = "refused" THEN rb_dma ELSE [rb_dma EXCEPT ![t] = outcome = "timeout"]

\* tt_d2d_dma_run, or the stores of the CPU, which do not fail.
tt_d2d_dma_run(outcome, new, next, kept) ==
    /\ outcome = "done" \/ RbDma
    /\ dma_grendel_start(outcome, new)
    /\ IF outcome = "done" THEN RbGo(next) ELSE RbFail(kept)

RbCleared(tile) == [tile EXCEPT !.image = "zero", !.parms = "zero", !.magic = FALSE, !.code = "zero",
                                !.fresh = FALSE]

tt_d2d_clear_sram(outcome, kept) ==
    /\ rb_job.pc = "clear" /\ RbTileStep
    /\ tt_d2d_dma_run(outcome, RbCleared(rb_tile[rb_job.tile]), "copy", kept)

tt_d2d_copy_image(outcome, image, kept) ==
    /\ rb_job.pc = "copy" /\ RbTileStep
    /\ tt_d2d_dma_run(outcome, [rb_tile[rb_job.tile] EXCEPT !.image = image], "verify", kept)

\* CONFIG_TT_D2D_VERIFY_LOAD.
RbVerify(kept) ==
    /\ rb_job.pc = "verify" /\ RbTileStep /\ UNCHANGED <<rb_tile, rb_dma>>
    /\ IF rb_tile[rb_job.tile].image = "firmware" THEN RbGo("config") ELSE RbFail(kept)

\* tt_d2d_write_config: the table, then the magic word.
tt_d2d_write_config ==
    /\ rb_job.pc = "config" /\ RbTileStep /\ UNCHANGED rb_dma
    /\ rb_tile' = [rb_tile EXCEPT ![rb_job.tile].parms = "set"]
    /\ RbGo("magic")

RbMagic(kept) ==
    /\ rb_job.pc = "magic" /\ RbTileStep /\ UNCHANGED rb_dma
    /\ rb_tile' = [rb_tile EXCEPT ![rb_job.tile].magic = TRUE]
    /\ RbRespond(rb_job, TRUE, kept)

\* A transfer that outlived its timeout completes: the engine clears or rewrites the image.
RbLateDma(t) ==
    /\ rb_dma[t] /\ rb_dma' = [rb_dma EXCEPT ![t] = FALSE]
    /\ rb_tile' = [rb_tile EXCEPT ![t].image = "junk"]
    /\ UNCHANGED <<rb_ctl, rb_pend, rb_work, rb_job, rb_fifo, rb_done, rb_told>> /\ UNCHANGED rb_boot

\* The tile's Rocket: it trains with a table marked valid, and reports.
RbRocket(t, code) ==
    /\ rb_tile[t].core /\ rb_tile[t].magic /\ rb_tile[t].code = "zero"
    /\ rb_tile' = [rb_tile EXCEPT ![t] = [@ EXCEPT !.code = code, !.fresh = TRUE]]
    /\ UNCHANGED <<rb_ctl, rb_pend, rb_work, rb_job, rb_fifo, rb_dma, rb_done, rb_told>> /\ UNCHANGED rb_boot

\* tt_d2d_wait_link on each started tile.
tt_d2d_wait_link ==
    LET t == RbAsk[rb_ctl.k - 2 * RbN]
    IN /\ rb_ctl.pc = "link"
       /\ IF t \in RbTile /\ rb_tile[t].code = "trained"
          THEN /\ rb_told' = [op |-> "LINK", tile |-> t]
               /\ rb_ctl' = IF rb_ctl.k < 3 * RbN THEN [rb_ctl EXCEPT !.k = @ + 1]
                            ELSE [rb_ctl EXCEPT !.pc = "up"]
          ELSE rb_ctl' = [rb_ctl EXCEPT !.pc = "failed"] /\ UNCHANGED rb_told
       /\ UNCHANGED rb_boot /\ UNCHANGED rb_remote

RbTarget ==
    \/ RbEnter
    \/ \E kept \in BOOLEAN :
          \/ tt_grendel_i3c_dispatch(kept) \/ RbVerify(kept) \/ RbMagic(kept)
          \/ \E size \in RbStaged : RbSize(size, kept)
          \/ \E b \in BOOLEAN : tt_d2d_cpu_ctrl(b, kept) \/ RbProbe(b, kept)
          \/ \E o \in {"done", "refused", "timeout"} :
                \/ tt_d2d_clear_sram(o, kept)
                \/ \E image \in {"firmware", "junk"} : tt_d2d_copy_image(o, image, kept)
    \/ tt_d2d_write_config

RbNext ==
    \/ \E b \in BOOLEAN : tt_smc_remoteproc_init(b) \/ tt_mimir_remote_boot_init(b)
    \/ \E b, c \in BOOLEAN : occp_run_transaction(b, c) \/ occp_execute_image(b, c)
    \/ \E ok \in BOOLEAN : RbSend(ok)
    \/ tt_grendel_i3c_read_response \/ RbTimeout \/ tt_d2d_wait_link
    \/ RbTarget
    \/ \E t \in RbTile : RbLateDma(t) \/ \E code \in {"trained", "gaveup"} : RbRocket(t, code)

RbSpec == RbInit /\ [][RbNext]_rb_vars
-----------------------------------------------------------------------------
(* Types of the bring-up's state.                                          *)
RbTypeOK ==
    /\ rb_ctl.pc \in {"attach", "locate", "load", "boot", "send", "poll", "link", "up", "failed"}
    /\ rb_ready \subseteq 1..RbProcs /\ rb_mem \in [1..RbProcs -> SUBSET (1..RbChunks)] /\ rb_live \subseteq 1..RbProcs
    /\ rb_work \in BOOLEAN /\ rb_dma \in [RbTile -> BOOLEAN]
    /\ rb_job.pc \in {"idle", "fetch", "size", "hold", "probe", "clear", "copy", "verify", "config", "magic"}

(* No processor runs a part of an image.  No remote processor is started     *)
(* before the whole image is in the memory of every one of them, whatever    *)
(* writes were retried or unanswered; and a Rocket that runs with a table    *)
(* marked valid runs the verified image with the whole table, also when a    *)
(* command interrupts a running tile, when a load failed half way, and when  *)
(* SRAM holds the block of an earlier load: the magic word goes last and the *)
(* clear drops it first.                                                     *)
RbRunsWhole ==
    /\ rb_live # {} => \A p \in 1..RbProcs : rb_mem[p] = 1..RbChunks
    /\ \A t \in RbTile : (rb_tile[t].core /\ rb_tile[t].magic) =>
         rb_tile[t].image = "firmware" /\ rb_tile[t].parms = "set"

(* What the controller is told is so.  It takes a command for done only when *)
(* the target ran that command on that tile to an OK, although the response  *)
(* names the opcode alone, answers to timed-out pings may still be queued,   *)
(* and every command overwrites the target's one pending frame; and          *)
(* tt_d2d_wait_link reports a trained link only when the firmware of this    *)
(* load trained it, never from a progress code that SRAM kept.               *)
RbAnswerTrue ==
    /\ rb_told.op \in {"D2D_INIT", "D2D_START"} => rb_told \in rb_done
    /\ rb_told.op = "LINK" => rb_tile[rb_told.tile].fresh /\ rb_tile[rb_told.tile].core

=============================================================================
