---------------------------- MODULE RecoveryFlash ----------------------------
(***************************************************************************)
(* The flash loader that the recovery tool runs on the DMC                 *)
(* (scripts/tooling/blackhole_recovery/data/common_flm: FlashPrg.c and     *)
(* eeprom.c).  A call is the list of SPI commands it sends; any transfer   *)
(* may fail, with or without the chip having seen the command, and ends    *)
(* the call.  The chip is external: a write-enable latch that every        *)
(* modifying command consumes, a busy bit during which it only answers     *)
(* status reads, a lock and block-protect bits that make it drop writes.   *)
(***************************************************************************)
EXTENDS Integers, Sequences, FiniteSets

CONSTANTS
    FlPages,     \* pages of the chip
    FlSector,    \* pages of a sector
    FlCalls      \* calls the tool makes

ASSUME FlAssumption ==
    /\ FlPages \in Nat \ {0} /\ FlSector \in Nat \ {0} /\ FlCalls \in Nat
    /\ FlPages % FlSector = 0

VARIABLES
    fl_kind,     \* the chip: "w25" has device hooks, "nor" has none, "other" is not in the table
    fl_chip,     \* [wel, busy, locked, bp]
    fl_mem,      \* what each page holds
    fl_open,     \* the tool's last Init succeeded and UnInit was not called since
    fl_call,     \* the call in progress: [op, at, pages, todo]
    fl_was,      \* fl_mem when it began
    fl_ret,      \* what the last call returned
    fl_left      \* calls still to come

fl_vars == <<fl_kind, fl_chip, fl_mem, fl_open, fl_call, fl_was, fl_ret, fl_left>>

FlAll == 0..(FlPages - 1)
FlNoCall == [op |-> "none", at |-> 0, pages |-> 0, todo |-> <<>>]
FlCmd(cmd, at) == [cmd |-> cmd, at |-> at]
FlSectorOf(p) == {q \in FlAll : q \div FlSector = p \div FlSector}

FlInit ==
    /\ fl_kind \in {"w25", "nor", "other"}
    /\ \E bp \in BOOLEAN : /\ fl_chip = [wel |-> FALSE, busy |-> FALSE, locked |-> fl_kind = "w25", bp |-> bp]
                           /\ (bp => fl_kind = "w25")
    /\ \E held \in {"old", "erased"} : fl_mem = [p \in FlAll |-> held] /\ fl_was = fl_mem
    /\ fl_open = FALSE /\ fl_call = FlNoCall /\ fl_ret = "none" /\ fl_left = FlCalls
-----------------------------------------------------------------------------
(* The commands of each call.                                              *)

read_jedec_id == FlCmd("jedec", 0)
wait_spi_ready == FlCmd("poll", 0)
spi_write_enable == FlCmd("wren", 0)
spi_global_unlock == FlCmd("unlock", 0)
spi_global_lock == FlCmd("lock", 0)
read_status_register == FlCmd("rdsr", 0)
write_status_register == <<spi_write_enable, FlCmd("wrsr", 0), wait_spi_ready>>

\* The block-protect bits are cleared if the status read finds them set.
w25q64jw_init == <<spi_write_enable, spi_global_unlock, read_status_register>>
w25q64jw_deinit == <<spi_write_enable, spi_global_lock>>

eeprom_erase_chip == <<spi_write_enable, FlCmd("ce", 0), wait_spi_ready>>
eeprom_erase_sector(at) == <<spi_write_enable, FlCmd("se", at), wait_spi_ready>>

\* One enable for the whole range; and a loop that runs one page too far.
eeprom_program_once(at, n) ==
    <<spi_write_enable>> \o [k \in 1..(2 * n) |-> IF k % 2 = 1 THEN FlCmd("pp", at + k \div 2) ELSE wait_spi_ready]

\* A page at a time: enable, program, wait.
eeprom_program(at, n) ==
    [k \in 1..(3 * n) |-> CASE k % 3 = 1 -> spi_write_enable
                            [] k % 3 = 2 -> FlCmd("pp", at + k \div 3)
                            [] OTHER -> wait_spi_ready]

eeprom_read(at) == <<FlCmd("read", at)>>

\* The hooks of the chip that eeprom_probe found in its table.
eeprom_init == IF fl_kind = "w25" THEN w25q64jw_init ELSE <<>>
eeprom_deinit == IF fl_kind = "w25" THEN w25q64jw_deinit ELSE <<>>
-----------------------------------------------------------------------------
(* The calls of FlashPrg.c.  BlankCheck and Verify only return 1.          *)

FlBegin(op, at, n, todo) ==
    /\ fl_call = FlNoCall /\ fl_left > 0 /\ fl_left' = fl_left - 1
    /\ fl_call' = [op |-> op, at |-> at, pages |-> n, todo |-> <<read_jedec_id>> \o todo]
    /\ fl_was' = fl_mem /\ fl_ret' = "none"
    /\ UNCHANGED <<fl_kind, fl_chip, fl_mem, fl_open>>

FlashPrg_Init == ~fl_open /\ FlBegin("init", 0, 0, eeprom_init)
FlashPrg_UnInit == fl_open /\ FlBegin("uninit", 0, 0, eeprom_deinit)
FlashPrg_EraseChip == fl_open /\ FlBegin("chip", 0, FlPages, eeprom_erase_chip)
FlashPrg_EraseSector(at) == fl_open /\ FlBegin("sector", at, FlSector, eeprom_erase_sector(at))
FlashPrg_ProgramPage(at, n) == fl_open /\ at + n <= FlPages /\ FlBegin("program", at, n, eeprom_program(at, n))
FlashPrg_Read(at) == fl_open /\ FlBegin("read", at, 1, eeprom_read(at))

FlReturn(ret) ==
    /\ fl_ret' = ret /\ fl_call' = FlNoCall
    /\ fl_open' = CASE fl_call.op = "init" -> ret = "ok" [] fl_call.op = "uninit" -> FALSE [] OTHER -> fl_open
-----------------------------------------------------------------------------
(* The chip (external).                                                    *)

FlAnd(was) == IF was = "erased" THEN "new" ELSE IF was = "new" THEN "new" ELSE "mixed"

FlWrites == fl_chip.wel /\ ~fl_chip.busy
FlProtected == fl_chip.locked \/ fl_chip.bp

\* What the chip does on a command it receives.
FlObey(c) ==
    /\ fl_chip' =
        CASE fl_chip.busy -> fl_chip
          [] c.cmd = "wren" -> [fl_chip EXCEPT !.wel = TRUE]
          [] c.cmd = "unlock" /\ FlWrites -> [fl_chip EXCEPT !.wel = FALSE, !.locked = FALSE]
          [] c.cmd = "lock" /\ FlWrites -> [fl_chip EXCEPT !.wel = FALSE, !.locked = TRUE]
          [] c.cmd = "wrsr" /\ FlWrites -> [fl_chip EXCEPT !.wel = FALSE, !.busy = TRUE, !.bp = FALSE]
          [] c.cmd \in {"ce", "se", "pp"} /\ FlWrites -> [fl_chip EXCEPT !.wel = FALSE, !.busy = ~FlProtected]
          [] OTHER -> fl_chip
    /\ fl_mem' =
        IF ~FlWrites \/ FlProtected THEN fl_mem
        ELSE [p \in FlAll |->
                CASE c.cmd = "ce" -> "erased"
                  [] c.cmd = "se" /\ p \in FlSectorOf(c.at) -> "erased"
                  [] c.cmd = "pp" /\ p = c.at -> FlAnd(fl_mem[p])
                  [] OTHER -> fl_mem[p]]

FlReady == fl_chip.busy /\ fl_chip' = [fl_chip EXCEPT !.busy = FALSE]
           /\ UNCHANGED <<fl_kind, fl_mem, fl_open, fl_call, fl_was, fl_ret, fl_left>>
-----------------------------------------------------------------------------
(* spi_transfer of the next command.                                       *)

FlPolling == Head(fl_call.todo).cmd = "poll" /\ fl_chip.busy
FlUnknown == Head(fl_call.todo).cmd = "jedec" /\ (fl_kind = "other" \/ fl_chip.busy)

\* What is left after a command: the status read decides on clearing the protect bits.
FlRest ==
    IF Head(fl_call.todo).cmd = "rdsr" /\ fl_chip.bp THEN write_status_register ELSE Tail(fl_call.todo)

spi_transfer ==
    /\ fl_call.todo # <<>> /\ ~FlPolling
    /\ FlObey(Head(fl_call.todo))
    /\ IF FlUnknown THEN FlReturn("failed")
       ELSE IF FlRest = <<>> THEN FlReturn("ok")
       ELSE fl_call' = [fl_call EXCEPT !.todo = FlRest] /\ UNCHANGED <<fl_open, fl_ret>>
    /\ UNCHANGED <<fl_kind, fl_was, fl_left>>

\* A transfer that reports an error.
FlFail(seen) ==
    /\ fl_call.todo # <<>>
    /\ IF seen THEN FlObey(Head(fl_call.todo)) ELSE UNCHANGED <<fl_chip, fl_mem>>
    /\ FlReturn("failed")
    /\ UNCHANGED <<fl_kind, fl_was, fl_left>>

FlNext ==
    \/ FlashPrg_Init \/ FlashPrg_UnInit \/ FlashPrg_EraseChip
    \/ \E at \in FlAll : FlashPrg_EraseSector(at) \/ FlashPrg_Read(at)
    \/ \E at \in FlAll, n \in 1..2 : FlashPrg_ProgramPage(at, n)
    \/ spi_transfer
    \/ \E seen \in BOOLEAN : FlFail(seen)
    \/ FlReady

FlSpec == FlInit /\ [][FlNext]_fl_vars
-----------------------------------------------------------------------------
(* Properties.                                                             *)

\* A call changes no page outside the range it was given, whether it succeeds or
\* fails half-way, and one that returns 0 did all of its work: the chip dropped
\* none of the commands that erase or program for want of a write enable, for a
\* lock or for a cycle in progress that an earlier failed call left behind.
\* (The call's effect is compared when its last command is sent.)
FlDone ==
    [][/\ (fl_call # FlNoCall /\ fl_ret' = "ok") =>
            CASE fl_call.op = "chip" -> \A p \in FlAll : fl_mem'[p] = "erased"
              [] fl_call.op = "sector" -> \A p \in FlSectorOf(fl_call.at) : fl_mem'[p] = "erased"
              [] fl_call.op = "program" ->
                   \A p \in fl_call.at..(fl_call.at + fl_call.pages - 1) : fl_mem'[p] = FlAnd(fl_was[p])
              [] OTHER -> fl_mem' = fl_was
       /\ \A p \in FlAll : fl_mem'[p] # fl_mem[p] =>
            CASE fl_call.op = "chip" -> TRUE
              [] fl_call.op = "sector" -> p \in FlSectorOf(fl_call.at)
              [] fl_call.op = "program" -> p \in fl_call.at..(fl_call.at + fl_call.pages - 1)
              [] OTHER -> FALSE]_fl_vars

=============================================================================
