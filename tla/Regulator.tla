----------------------------- MODULE Regulator ------------------------------
(***************************************************************************)
(* The voltage regulators of a board as the system-management firmware     *)
(* sets them up and commands them (lib/tenstorrent/bh_arc/regulator.c,     *)
(* regulator_config.c, avs.c and I2CRMWV of dw_apb_i2c.c).                 *)
(*                                                                         *)
(* At boot every register of the board's table is read, modified under a   *)
(* mask, written and verified, with one retry; then the core voltage       *)
(* command moves from PMBus to the AVS bus. Later the host sets voltages   *)
(* and moves the command between the two buses.                            *)
(*                                                                         *)
(* An I2C transaction may fail; a failed read leaves the caller's buffer   *)
(* as it was, a failed write may have reached the device or not.           *)
(***************************************************************************)
EXTENDS Integers, Sequences

CONSTANTS
    RgBoards,   \* the boards to start up
    RgFaultMax, \* bound: failed transactions and refused AVS answers
    RgRetries,  \* max_retries of the AVS controller
    RgVolts     \* voltages the host asks for

\* Nothing is asked of the faults and retries but that they are counts.
ASSUME RgAssumption == RgFaultMax \in Nat /\ RgRetries \in Nat

VARIABLES
    rg_board,   \* the board
    rg_pc,      \* boot progress: registers of the table done, AVS bus set up
    rg_try,     \* first or second try at this register
    rg_regs,    \* the registers: masked bits set as configured or not
    rg_failed,  \* record_init_failure(INIT_STAGE_REGULATOR), or errors so far
    rg_source,  \* vout_cmd_source
    rg_op,      \* the core regulator's OPERATION register
    rg_volt,    \* what the regulators were last commanded, and by which bus
    rg_avs,     \* answers in the AVS readback FIFO, oldest first: command number
    rg_cmd,     \* history: number of the AVS command, and the last answer used
    rg_faults,  \* faults so far
    rg_rsp      \* history: the last host message and its response

rg_vars == <<rg_board, rg_pc, rg_try, rg_regs, rg_failed, rg_source, rg_op, rg_volt, rg_avs,
             rg_cmd, rg_faults, rg_rsp>>

-----------------------------------------------------------------------------
\* The register tables.

vcore_data == <<"b0", "cb", "d3", "ca", "38", "39", "e7">>
vcorem_data == <<"b0", "38", "39", "e7">>
ubb_vcorem_data == <<"b0", "e7">>
ubb_gddrio_data == <<"29", "21">>
serdes_vr_data == <<"d2">>

Rail(address, cmds) == [i \in 1 .. Len(cmds) |-> <<address, cmds[i]>>]

p150_config ==
    Rail("VCORE", vcore_data) \o Rail("VCOREM", vcorem_data) \o Rail("VDDL", serdes_vr_data)
    \o Rail("VDD", serdes_vr_data) \o Rail("VDDH", serdes_vr_data)

\* The left chip does not have its own SERDES_VDD.
p300_left_config ==
    Rail("VCORE", vcore_data) \o Rail("VCOREM", vcorem_data) \o Rail("VDDL", serdes_vr_data)
    \o Rail("VDDH", serdes_vr_data)

p300_right_config == p150_config

ubb_config ==
    Rail("VCORE", vcore_data) \o Rail("VCOREM", ubb_vcorem_data)
    \o Rail("GDDRIO_WEST", ubb_gddrio_data) \o Rail("GDDRIO_EAST", ubb_gddrio_data)
    \o Rail("VDDL", serdes_vr_data) \o Rail("VDD", serdes_vr_data) \o Rail("VDDH", serdes_vr_data)

regulators_config(board) ==
    IF board = "P150" THEN p150_config
    ELSE IF board = "P300_LEFT" THEN p300_left_config
    ELSE IF board = "P300_RIGHT" THEN p300_right_config
    ELSE IF board = "UBB" THEN ubb_config
    ELSE <<>>

Supported == {"P150", "P300_LEFT", "P300_RIGHT", "UBB", "ORION_SLT", "GALAXY2"}

RgTable == regulators_config(rg_board)
RgSteps == 1 .. Len(RgTable)
AtAvs == rg_pc = Len(RgTable) + 1
Running == rg_pc = Len(RgTable) + 2
RgRest == <<rg_board, rg_source, rg_op, rg_volt, rg_avs, rg_cmd, rg_rsp>>

\* As the regulators come up: output on, commanded over PMBus. The last steps
\* of the boot wait for RegulatorInit to end, in error or not.
RgInit ==
    /\ rg_board \in RgBoards
    /\ rg_pc = 1
    /\ rg_try = 1
    /\ rg_regs = [i \in 1 .. Len(regulators_config(rg_board)) |-> FALSE]
    /\ rg_failed = (rg_board \notin Supported)
    /\ rg_source = "VoutCommand"
    /\ rg_op = [source |-> "VoutCommand", on |-> TRUE]
    /\ rg_volt = [core |-> "default", corem |-> "default", lost |-> FALSE]
    /\ rg_avs = <<>>
    /\ rg_cmd = [sent |-> 0, used |-> 0]
    /\ rg_faults = 0
    /\ rg_rsp = [msg |-> "none", ret |-> 0, arg |-> "none"]

-----------------------------------------------------------------------------

\* What I2CRMWV may return and leave in the register: it fails at the first
\* read; at the write, which may have been taken; or at the verification, by
\* an error or a difference; else the masked bits are set and verified.
I2CRMWV(reg) ==
    [ok : {TRUE}, reg : {TRUE}] \cup [ok : {FALSE}, reg : {reg, TRUE}]

\* RegulatorInit, one register: an error is retried once after a bus recovery;
\* a second one is added to the errors, and the next register follows anyway.
RegulatorInit ==
    /\ rg_pc \in RgSteps
    /\ \E result \in I2CRMWV(rg_regs[rg_pc]) :
         /\ rg_regs' = [rg_regs EXCEPT ![rg_pc] = result.reg]
         /\ IF result.ok
            THEN rg_pc' = rg_pc + 1 /\ rg_try' = 1 /\ UNCHANGED <<rg_failed, rg_faults>>
            ELSE /\ rg_faults < RgFaultMax /\ rg_faults' = rg_faults + 1
                 /\ IF rg_try = 1
                    THEN rg_try' = 2 /\ UNCHANGED <<rg_pc, rg_failed>>
                    ELSE rg_pc' = rg_pc + 1 /\ rg_try' = 1 /\ rg_failed' = TRUE
    /\ UNCHANGED RgRest

\* SwitchVoutControl: OPERATION is read, its source replaced and written back;
\* neither result is looked at. A failed read leaves the variable as it was on
\* the stack, so any bit of it may go into the register; a failed write leaves
\* the register as it is. vout_cmd_source is set in every case.
SwitchVoutControl(source) ==
    \E read \in BOOLEAN, write \in BOOLEAN, on \in BOOLEAN :
      /\ read => on = rg_op.on
      /\ rg_faults' = rg_faults + (IF read THEN 0 ELSE 1) + (IF write THEN 0 ELSE 1)
      /\ rg_faults' <= RgFaultMax
      /\ rg_op' = IF write THEN [source |-> source, on |-> on] ELSE rg_op
      /\ rg_source' = source

\* avs_init, at the end of the boot.
avs_init ==
    /\ AtAvs
    /\ SwitchVoutControl("AVSVoutCommand")
    /\ rg_pc' = rg_pc + 1
    /\ UNCHANGED <<rg_board, rg_try, rg_regs, rg_failed, rg_volt, rg_avs, rg_cmd, rg_rsp>>

switch_vout_control_handler(source) ==
    /\ Running
    /\ SwitchVoutControl(source)
    /\ rg_rsp' = [msg |-> "switch", ret |-> 0, arg |-> source]
    /\ UNCHANGED <<rg_board, rg_pc, rg_try, rg_regs, rg_failed, rg_volt, rg_avs, rg_cmd>>

\* External: the answers the AVS controller queues for one command: it repeats
\* a refused command up to max_retries times and queues every answer.
RgAnswers(n, refused) ==
    [i \in 1 .. refused |-> [cmd |-> n, ok |-> FALSE]]
    \o (IF refused <= RgRetries THEN <<[cmd |-> n, ok |-> TRUE]>> ELSE <<>>)

\* ReadRxFifo: answers are taken until one is good or one more than
\* max_retries of them were bad.
ReadRxFifo(fifo) ==
    CHOOSE n \in 1 .. Len(fifo) :
      /\ fifo[n].ok \/ n = RgRetries + 1
      /\ \A i \in 1 .. (n - 1) : ~fifo[i].ok

\* AVSWriteVoltage: a command, its answers, and what ReadRxFifo made of them.
AVSWriteVoltage(volt) ==
    \E refused \in 0 .. (RgRetries + 1) :
      LET fifo == rg_avs \o RgAnswers(rg_cmd.sent + 1, refused)
          n == ReadRxFifo(fifo)
      IN  /\ rg_faults + refused <= RgFaultMax
          /\ rg_faults' = rg_faults + refused
          /\ rg_avs' = SubSeq(fifo, n + 1, Len(fifo))
          /\ rg_cmd' = [sent |-> (rg_cmd.sent + 1) % 3, used |-> fifo[n].cmd % 3]
          /\ rg_volt' = IF refused <= RgRetries /\ rg_op.source = "AVSVoutCommand"
                        THEN [rg_volt EXCEPT !.core = volt, !.lost = FALSE]
                        ELSE [rg_volt EXCEPT !.lost = TRUE]

\* i2c_set_max20816: one write, its result not looked at. The core regulator
\* takes a PMBus voltage only while PMBus is its source.
i2c_set_max20816(rail, volt) ==
    \E ok \in BOOLEAN :
      /\ rg_faults' = IF ok THEN rg_faults ELSE rg_faults + 1
      /\ rg_faults' <= RgFaultMax
      /\ rg_volt' = IF rail = "corem" THEN IF ok THEN [rg_volt EXCEPT !.corem = volt] ELSE rg_volt
                    ELSE IF ok /\ rg_op.source = "VoutCommand"
                         THEN [rg_volt EXCEPT !.core = volt, !.lost = FALSE]
                         ELSE [rg_volt EXCEPT !.lost = TRUE]
      /\ UNCHANGED <<rg_avs, rg_cmd>>

set_vcore_avsOnly(volt) == AVSWriteVoltage(volt)

set_vcore(volt) ==
    IF rg_source = "AVSVoutCommand" THEN AVSWriteVoltage(volt) ELSE i2c_set_max20816("core", volt)

\* TT_SMC_MSG_SET_VOLTAGE for the core rail, the memory rail, another address.
set_voltage_handler(rail, volt) ==
    /\ Running
    /\ \/ rail = "core" /\ set_vcore(volt)
       \/ rail = "corem" /\ i2c_set_max20816("corem", volt)
       \/ rail = "other" /\ UNCHANGED <<rg_volt, rg_avs, rg_cmd, rg_faults>>
    /\ rg_rsp' = [msg |-> rail, ret |-> IF rail = "other" THEN 1 ELSE 0, arg |-> volt]
    /\ UNCHANGED <<rg_board, rg_pc, rg_try, rg_regs, rg_failed, rg_source, rg_op>>

RgNext ==
    \/ RegulatorInit
    \/ avs_init
    \/ \E source \in {"VoutCommand", "AVSVoutCommand"} : switch_vout_control_handler(source)
    \/ \E rail \in {"core", "corem", "other"}, volt \in RgVolts : set_voltage_handler(rail, volt)

RgSpec == RgInit /\ [][RgNext]_rg_vars

-----------------------------------------------------------------------------

\* Types of the state.
RgTypeOK ==
    /\ rg_board \in RgBoards
    /\ rg_pc \in 1 .. (Len(RgTable) + 2) /\ rg_try \in {1, 2}
    /\ rg_regs \in [RgSteps -> BOOLEAN]
    /\ rg_failed \in BOOLEAN
    /\ rg_source \in {"VoutCommand", "AVSVoutCommand"}
    /\ rg_op \in [source : {"VoutCommand", "AVSVoutCommand"}, on : BOOLEAN]
    /\ rg_volt \in [core : RgVolts \cup {"default"}, corem : RgVolts \cup {"default"}, lost : BOOLEAN]
    /\ Len(rg_avs) <= RgRetries
    /\ rg_cmd \in [sent : 0 .. 2, used : 0 .. 2]
    /\ rg_faults \in 0 .. RgFaultMax

\* What the firmware believes of the regulators is so: a board that starts up
\* without a recorded failure has every register of its table as configured,
\* whatever failed and was retried; every AVS command uses an answer of its own
\* and leaves none for the next; and while no transaction has failed, the core
\* regulator is on, listens to the bus the firmware commands it on, and has the
\* voltage asked for last.
RgCommanded ==
    /\ ((AtAvs \/ Running) /\ ~rg_failed) => \A i \in RgSteps : rg_regs[i]
    /\ rg_avs = <<>> /\ rg_cmd.used = rg_cmd.sent
    /\ (rg_faults = 0 /\ Running) =>
         /\ rg_op = [source |-> rg_source, on |-> TRUE]
         /\ ~rg_volt.lost
         /\ rg_rsp.msg = "core" => rg_volt.core = rg_rsp.arg

=============================================================================
