-------------------------------- MODULE Jtag --------------------------------
(***************************************************************************)
(* The DMC's bit-banged JTAG port: the driver (drivers/jtag/               *)
(* jtag_bitbang.c), the TAP it clocks, as the emulator in the tree has it  *)
(* (drivers/jtag/jtag_emul.c), and the threads that use the port: the main *)
(* thread in its reset sequences (lib/tenstorrent/jtag_bootrom) and the    *)
(* shell that reads SMC registers (app/dmc/src/smc_shell.c).               *)
(*                                                                         *)
(* An operation of the driver is the sequence of its TCK pulses, each with *)
(* the TMS and TDI levels it is made with. The operations lock jtag_mutex, *)
(* and a session of several holds the recursive mutex from setup to        *)
(* teardown. A step is one scan of an operation.                           *)
(***************************************************************************)
EXTENDS Integers, Sequences, SequencesExt

CONSTANTS
    JtBits,     \* REG_BITS, the width of a test data register
    JtIrLen,    \* pulses of an instruction scan
    JtWords,    \* words of a boot code patch
    JtFails     \* whether the port's GPIOs may fail to be configured

VARIABLES
    jt_tap,     \* the TAP and the memory behind it
    jt_out,     \* the port's pins are outputs
    jt_own,     \* holder of jtag_mutex, "none" if free
    jt_depth,   \* how often it holds it
    jt_prog,    \* the calls each thread has still to make
    jt_scans,   \* the scans each has still to make of its current call
    jt_patch,   \* the patch being loaded
    jt_loaded   \* history: the load of this patch is complete

jt_vars == <<jt_tap, jt_out, jt_own, jt_depth, jt_prog, jt_scans, jt_patch, jt_loaded>>

ASSUME JtAssumption == JtBits \in Nat /\ JtBits >= 6 /\ JtIrLen \in 5 .. JtBits /\ JtFails \in BOOLEAN

JtThreads == {"main", "shell"}

TENSIX_SM_SIBLEN == 4
ARC_AXI_ADDR_TDR == 2
ARC_AXI_DATA_TDR == 3
ARC_AXI_CONTROL_STATUS_TDR == 4
JtReg == 4 * 8              \* stands for the registers, which are not in the emulator's memory
JtStart == 4                \* address the patch goes to
JtBufLen == 3

JtBit(data, i) == (data \div 2 ^ i) % 2

-----------------------------------------------------------------------------
\* The driver: a scan is a sequence of TCK pulses <<TMS, TDI>>, an operation a
\* sequence of scans.

jtag_bitbang_tick(tms, count) == [i \in 1 .. count |-> <<tms, 0>>]

JtShift(count, data) == [i \in 1 .. count |-> <<IF i = count THEN 1 ELSE 0, JtBit(data, i - 1)>>]

jtag_bitbang_update_ir(count, data) ==
    jtag_bitbang_tick(1, 2) \o jtag_bitbang_tick(0, 1) \o JtShift(count, data) \o jtag_bitbang_tick(1, 2)

jtag_bitbang_xfer_dr_short(count, data, idle) ==
    jtag_bitbang_tick(0, 2) \o JtShift(count - 1, data) \o jtag_bitbang_tick(1, 1)
    \o jtag_bitbang_tick(IF idle THEN 0 ELSE 1, 1)

jtag_bitbang_xfer_dr(count, data, idle) ==
    jtag_bitbang_tick(0, 2) \o JtShift(count, data) \o jtag_bitbang_tick(1, 1)
    \o jtag_bitbang_tick(IF idle THEN 0 ELSE 1, 1)

jtag_bitbang_reset == <<jtag_bitbang_tick(1, 5) \o jtag_bitbang_tick(0, 1)>>

jtag_setup_access == <<jtag_bitbang_update_ir(JtIrLen, 2)>>

jtag_bitbang_read_id ==
    <<jtag_bitbang_update_ir(JtIrLen, 6), jtag_bitbang_xfer_dr(JtBits, 0, TRUE)>>

\* One access of a test data register: its select through the SIB, then its value.
jtag_access_rtap_tdr(tdr, value, idle) ==
    <<jtag_bitbang_xfer_dr(TENSIX_SM_SIBLEN + 1, tdr + 1, FALSE),
      jtag_bitbang_xfer_dr(1 + JtBits + TENSIX_SM_SIBLEN, value * 2 ^ TENSIX_SM_SIBLEN, idle)>>

jtag_axiread(addr) ==
    jtag_setup_access \o jtag_access_rtap_tdr(ARC_AXI_ADDR_TDR, addr, FALSE)
    \o jtag_access_rtap_tdr(ARC_AXI_CONTROL_STATUS_TDR, 2 ^ (JtBits - 1), FALSE)
    \o jtag_access_rtap_tdr(ARC_AXI_CONTROL_STATUS_TDR, 0, FALSE)
    \o jtag_access_rtap_tdr(ARC_AXI_DATA_TDR, 0, TRUE)

jtag_axiwrite(addr, value) ==
    jtag_setup_access \o jtag_access_rtap_tdr(ARC_AXI_ADDR_TDR, addr, FALSE)
    \o jtag_access_rtap_tdr(ARC_AXI_DATA_TDR, value, FALSE)
    \o jtag_access_rtap_tdr(ARC_AXI_CONTROL_STATUS_TDR, 2 ^ (JtBits - 1) + 15, FALSE)
    \o jtag_access_rtap_tdr(ARC_AXI_CONTROL_STATUS_TDR, 0, TRUE)

jtag_axi_blockwrite(addr, words) ==
    FlattenSeq([i \in 1 .. Len(words) |-> jtag_axiwrite(addr + (4 * (i - 1)), words[i])])

-----------------------------------------------------------------------------
\* The TAP.

next_state(tms, s) ==
    LET low == [JTAG_RESET |-> "IDLE", IDLE |-> "IDLE", SCAN_DR |-> "CAPTURE_DR",
                SCAN_IR |-> "CAPTURE_IR", CAPTURE_DR |-> "SHIFT_DR", CAPTURE_IR |-> "SHIFT_IR",
                SHIFT_DR |-> "SHIFT_DR", SHIFT_IR |-> "SHIFT_IR", EXIT1_DR |-> "PAUSE_DR",
                EXIT1_IR |-> "PAUSE_IR", PAUSE_DR |-> "PAUSE_DR", PAUSE_IR |-> "PAUSE_IR",
                EXIT2_DR |-> "SHIFT_DR", EXIT2_IR |-> "SHIFT_IR", UPDATE_DR |-> "IDLE",
                UPDATE_IR |-> "IDLE"]
        high == [JTAG_RESET |-> "JTAG_RESET", IDLE |-> "SCAN_DR", SCAN_DR |-> "SCAN_IR",
                 SCAN_IR |-> "JTAG_RESET", CAPTURE_DR |-> "EXIT1_DR", CAPTURE_IR |-> "EXIT1_IR",
                 SHIFT_DR |-> "EXIT1_DR", SHIFT_IR |-> "EXIT1_IR", EXIT1_DR |-> "UPDATE_DR",
                 EXIT1_IR |-> "UPDATE_IR", PAUSE_DR |-> "EXIT2_DR", PAUSE_IR |-> "EXIT2_IR",
                 EXIT2_DR |-> "SHIFT_DR", EXIT2_IR |-> "SHIFT_IR", UPDATE_DR |-> "SCAN_DR",
                 UPDATE_IR |-> "SCAN_DR"]
    IN  IF tms = 0 THEN low[s] ELSE high[s]

\* The number whose bits, least significant first, are the last n of a register.
JtValue(reg, n) ==
    FoldRight(LAMBDA b, acc : b + (2 * acc), SubSeq(reg, (JtBits - n) + 1, JtBits), 0)

JtClamp(n) == IF n < 1 THEN 1 ELSE IF n > JtBits THEN JtBits ELSE n

\* Update of the selected register: a data register scan is a select or the
\* value of the register selected before; data goes to memory.
on_update_reg(tap) ==
    LET hold == JtValue(tap.reg[tap.sel], JtClamp(tap.bits[tap.sel]))
        word == tap.addr \div 4
    IN  CASE tap.sel = "IR" ->
               [tap EXCEPT !.ir = JtValue(tap.reg["IR"], tap.bits["IR"] + 1)]
          [] tap.sel = "DR" /\ hold - 1 = ARC_AXI_ADDR_TDR -> [tap EXCEPT !.have_addr = TRUE]
          [] tap.sel = "DR" /\ hold - 1 # ARC_AXI_ADDR_TDR /\ tap.have_addr ->
               [tap EXCEPT !.have_addr = FALSE, !.addr = hold]
          [] tap.sel = "DR" /\ hold - 1 = ARC_AXI_DATA_TDR /\ ~tap.have_addr ->
               [tap EXCEPT !.have_data = TRUE]
          [] tap.sel = "DR" /\ hold - 1 \notin {ARC_AXI_ADDR_TDR, ARC_AXI_DATA_TDR}
             /\ ~tap.have_addr /\ tap.have_data ->
               [tap EXCEPT !.have_data = FALSE,
                           !.buf = IF word < JtBufLen THEN [@ EXCEPT ![word] = hold] ELSE @]
          [] OTHER -> tap

\* What a falling TCK edge does in each state, with the level of TMS; bits shift
\* in only while TMS is low.
on_tck_falling(tap, pulse) ==
    CASE tap.state \in {"SCAN_DR", "SCAN_IR"} ->
           [tap EXCEPT !.sel = IF tap.state = "SCAN_DR" THEN "DR" ELSE "IR"]
      [] tap.state \in {"CAPTURE_DR", "CAPTURE_IR"} -> [tap EXCEPT !.bits[tap.sel] = 0]
      [] tap.state \in {"SHIFT_DR", "SHIFT_IR"} /\ pulse[1] = 0 ->
           [tap EXCEPT !.reg[tap.sel] = Append(Tail(@), pulse[2]), !.bits[tap.sel] = @ + 1]
      [] tap.state \in {"UPDATE_DR", "UPDATE_IR"} -> on_update_reg(tap)
      [] OTHER -> tap

gpio_emul_callback(tap, pulse) ==
    LET t == on_tck_falling(tap, pulse) IN [t EXCEPT !.state = next_state(pulse[1], tap.state)]

\* The pulses of a scan reach the TAP only through output pins.
JtClock(pulses) == IF jt_out THEN FoldLeft(gpio_emul_callback, jt_tap, pulses) ELSE jt_tap

-----------------------------------------------------------------------------
\* The calls of the threads.

Call(op, addr) == [op |-> op, addr |-> addr]
JtReset == Call("reset", 0)
JtRead == Call("read", JtReg)
JtWrite == Call("write", JtReg)
JtPoll == Call("poll", JtReg)

\* Setup, wait for the TAP's id and for the bus, memory repair.
jtag_bootrom_reset_asic ==
    <<Call("setup", 0), JtReset, JtReset, Call("id", 0), JtReset, JtReset, JtPoll, JtWrite, JtPoll, JtReset>>
jtag_bootrom_patch_offset ==
    <<JtReset, JtRead, JtWrite, JtRead, JtWrite, JtWrite, JtWrite, Call("block", JtStart), JtWrite>>
jtag_bootrom_set_cable_power_limit == <<JtWrite>>
jtag_bootrom_soft_reset_arc == <<JtReset, JtWrite, JtWrite, JtWrite, JtRead, JtWrite, JtWrite>>
jtag_bootrom_teardown == <<JtReset, Call("teardown", 0)>>

jtag_bootrom_reset_sequence ==
    jtag_bootrom_reset_asic \o jtag_bootrom_patch_offset \o jtag_bootrom_set_cable_power_limit
    \o jtag_bootrom_soft_reset_arc \o jtag_bootrom_teardown
handle_perst ==
    jtag_bootrom_reset_asic \o jtag_bootrom_set_cable_power_limit \o jtag_bootrom_soft_reset_arc
    \o jtag_bootrom_teardown
handle_watchdog_reset == <<Call("setup", 0), JtReset, JtRead, Call("teardown", 0)>>
smc_read_words == <<Call("setup", 0), JtReset, JtRead, JtRead, Call("teardown", 0)>>

JtPrograms(t) ==
    IF t = "shell" THEN {smc_read_words}
    ELSE {jtag_bootrom_reset_sequence, handle_perst, handle_watchdog_reset}

-----------------------------------------------------------------------------

jtag_emul_setup ==
    [state |-> "IDLE", sel |-> "IR", reg |-> [r \in {"IR", "DR"} |-> [i \in 1 .. JtBits |-> 0]],
     bits |-> [r \in {"IR", "DR"} |-> 0], ir |-> 0, have_addr |-> FALSE, have_data |-> FALSE,
     addr |-> 0, buf |-> [i \in 0 .. JtBufLen - 1 |-> 0]]

JtInit ==
    /\ jt_tap = jtag_emul_setup
    /\ jt_out = FALSE
    /\ jt_own = "none" /\ jt_depth = 0
    /\ jt_prog = [t \in JtThreads |-> <<>>]
    /\ jt_scans = [t \in JtThreads |-> <<>>]
    /\ jt_patch = <<>> /\ jt_loaded = FALSE

JtFree(t) == jt_own \in {"none", t}

\* A thread begins a session, main with the patch it loads in a full reset.
JtBegin(t) ==
    /\ jt_prog[t] = <<>>
    /\ \E p \in JtPrograms(t) : jt_prog' = [jt_prog EXCEPT ![t] = p]
    /\ IF t = "main"
       THEN (\E w1, w2 \in JtWords : jt_patch' = <<w1, w2>>) /\ jt_loaded' = FALSE
       ELSE UNCHANGED <<jt_patch, jt_loaded>>
    /\ UNCHANGED <<jt_tap, jt_out, jt_own, jt_depth, jt_scans>>

\* Pins to outputs, with the mutex held on return; on failure it is released and
\* the caller gives up.
jtag_bitbang_setup(t) ==
    /\ jt_prog[t] # <<>> /\ Head(jt_prog[t]).op = "setup" /\ JtFree(t)
    /\ \/ /\ jt_own' = t /\ jt_depth' = jt_depth + 1
          /\ jt_out' = TRUE
          /\ jt_prog' = [jt_prog EXCEPT ![t] = Tail(@)]
       \/ /\ JtFails
          /\ jt_prog' = [jt_prog EXCEPT ![t] = <<>>]
          /\ UNCHANGED <<jt_own, jt_depth, jt_out>>
    /\ UNCHANGED <<jt_tap, jt_scans, jt_patch, jt_loaded>>

\* An operation in between: it locks, scans and unlocks.
JtScansOf(c) ==
    CASE c.op = "reset" -> jtag_bitbang_reset
      [] c.op = "id" -> jtag_bitbang_read_id
      [] c.op \in {"read", "poll"} -> jtag_axiread(c.addr)
      [] c.op = "write" -> jtag_axiwrite(c.addr, 1)
      [] c.op = "block" -> jtag_axi_blockwrite(c.addr, jt_patch)

JtOperation(t) ==
    /\ jt_prog[t] # <<>> /\ Head(jt_prog[t]).op \notin {"setup", "teardown"}
    /\ jt_scans[t] = <<>> /\ JtFree(t)
    /\ jt_own' = t /\ jt_depth' = jt_depth + 1
    /\ jt_scans' = [jt_scans EXCEPT ![t] = JtScansOf(Head(jt_prog[t]))]
    /\ UNCHANGED <<jt_tap, jt_out, jt_prog, jt_patch, jt_loaded>>

\* The last scan ends the call. A polling call is repeated until it finds what it
\* waits for.
JtScan(t) ==
    /\ jt_scans[t] # <<>>
    /\ jt_tap' = JtClock(Head(jt_scans[t]))
    /\ jt_scans' = [jt_scans EXCEPT ![t] = Tail(@)]
    /\ IF Len(jt_scans[t]) > 1
       THEN UNCHANGED <<jt_own, jt_depth, jt_prog, jt_loaded>>
       ELSE /\ jt_depth' = jt_depth - 1
            /\ jt_own' = IF jt_depth = 1 THEN "none" ELSE jt_own
            /\ jt_loaded' = (jt_loaded \/ Head(jt_prog[t]).op = "block")
            /\ \/ jt_prog' = [jt_prog EXCEPT ![t] = Tail(@)]
               \/ Head(jt_prog[t]).op \in {"poll", "id"} /\ UNCHANGED jt_prog
    /\ UNCHANGED <<jt_out, jt_patch>>

\* Pins to inputs; the session's lock is released whether or not that fails.
jtag_bitbang_teardown(t) ==
    /\ jt_prog[t] # <<>> /\ Head(jt_prog[t]).op = "teardown"
    /\ jt_out' \in (IF JtFails THEN BOOLEAN ELSE {FALSE})
    /\ jt_depth' = jt_depth - 1
    /\ jt_own' = IF jt_depth = 1 THEN "none" ELSE jt_own
    /\ jt_prog' = [jt_prog EXCEPT ![t] = <<>>]
    /\ UNCHANGED <<jt_tap, jt_scans, jt_patch, jt_loaded>>

JtNext ==
    \E t \in JtThreads :
      \/ JtBegin(t) \/ jtag_bitbang_setup(t) \/ JtOperation(t) \/ JtScan(t)
      \/ jtag_bitbang_teardown(t)

JtSpec == JtInit /\ [][JtNext]_jt_vars

-----------------------------------------------------------------------------

\* Types of the state.
JtTypeOK ==
    /\ jt_out \in BOOLEAN
    /\ jt_own \in JtThreads \cup {"none"}
    /\ jt_depth \in 0 .. 2
    /\ jt_tap.ir \in 0 .. 2 ^ JtBits - 1 /\ jt_tap.addr \in 0 .. 2 ^ JtBits - 1
    /\ jt_tap.bits \in [{"IR", "DR"} -> 0 .. 2 * JtBits]

\* Once the patch is loaded, and whatever either thread does with the port until
\* main begins its next session, every word of it is in memory at its place. (The
\* emulator takes a word equal to the select of the address or the data register
\* for that select: patches with such words are left out.)
JtPatched ==
    (jt_loaded /\ \A i \in 1 .. 2 : jt_patch[i] - 1 \notin {ARC_AXI_ADDR_TDR, ARC_AXI_DATA_TDR}) =>
      \A i \in 1 .. 2 : jt_tap.buf[i] = jt_patch[i]

=============================================================================
