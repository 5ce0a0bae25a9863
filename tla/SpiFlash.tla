------------------------------ MODULE SpiFlash ------------------------------
(***************************************************************************)
(* The SPI flash as the SMC uses it: the reset of the chip the bootrom     *)
(* left in a fast mode, the choice of the driver by the chip's id, the     *)
(* training of the read delay (boards/tenstorrent/tt_blackhole/src/        *)
(* flash.c, the flash mux driver), and the host's EEPROM messages with     *)
(* their lock (lib/tenstorrent/bh_arc/spi_eeprom.c).                       *)
(*                                                                         *)
(* Bytes are small numbers, 0 is an erased byte. Every flash operation can *)
(* fail, and an erase or a write that fails or is cut off by a power loss  *)
(* leaves the sector as it was, erased, or partly written.                 *)
(***************************************************************************)
EXTENDS Integers, Sequences, FiniteSets

CONSTANTS
    SfSector,   \* bytes of a sector
    SfSectors,  \* sectors
    SfDepth,    \* SSI_RX_DLY_SR_DEPTH, settings of the read delay
    SfVars,     \* board variables a host can have verified
    SfRanges    \* pairs of an address and a number of bytes the host writes

VARIABLES
    sf_boot,    \* step of the boot, "up" when messages are served
    sf_chip,    \* the chip: its id and mode, and the mode the device config register names
    sf_active,  \* driver the mux forwards to
    sf_window,  \* delays at which reads are right
    sf_delay,   \* the delay trained
    sf_jedec,   \* the id in telemetry
    sf_locked,  \* flash_locked
    sf_verified,\* history: the variables declared in the unlock that opened the flash
    sf_flash,   \* contents
    sf_op,      \* the write in progress or done last
    sf_old      \* history: contents when it began

sf_vars == <<sf_boot, sf_chip, sf_active, sf_window, sf_delay, sf_jedec, sf_locked, sf_verified,
             sf_flash, sf_op, sf_old>>

ASSUME SfAssumption == SfSector \in Nat \ {0} /\ SfSectors \in Nat \ {0} /\ SfDepth \in Nat \ {0, 1}

SfAddrs == 0 .. (SfSector * SfSectors) - 1
SfErased == 0
SfByteValues == 1 .. 3
FLASH_JEDEC_ID_MT25QU512ABB == "mt25"
SfIds == {"mt25", "mx35", "other"}
SfWindows == {lo .. hi : lo, hi \in 0 .. SfDepth - 1}   \* the empty one included
SfWide == 0 .. SfDepth - 1

SfNoOp == [addr |-> 0, data |-> <<>>, done |-> 0, phase |-> 0, step |-> "idle", ret |-> 0, buf |-> <<>>]

SfInit ==
    /\ sf_boot = "reset"
    /\ sf_chip \in [id : SfIds, mode : {"fast", "standard"}, reg : {"fast", "standard"}]
    /\ sf_chip.mode = sf_chip.reg
    /\ sf_active = "none"
    /\ sf_window = SfWide /\ sf_delay = 0
    /\ sf_jedec = "none"
    /\ sf_locked = TRUE /\ sf_verified = {}
    /\ sf_flash = [a \in SfAddrs |-> SfErased]
    /\ sf_op = SfNoOp
    /\ sf_old = sf_flash

-----------------------------------------------------------------------------
\* Boot.

\* A chip the bootrom left in its fast mode (octal for the MX35, quad for the
\* MT25) is reset in that mode, and the register is then set to the standard
\* mode. A failed command ends the function before.
flash_reset_init(fail) ==
    /\ sf_boot = "reset"
    /\ sf_chip' = IF sf_chip.reg = "fast" /\ sf_chip.id \in {"mt25", "mx35"}
                  THEN IF fail THEN sf_chip ELSE [sf_chip EXCEPT !.mode = "standard", !.reg = "standard"]
                  ELSE sf_chip
    /\ sf_boot' = "mux"
    /\ sf_op' = SfNoOp /\ sf_old' = sf_flash
    /\ UNCHANGED <<sf_active, sf_window, sf_delay, sf_jedec, sf_locked, sf_verified, sf_flash>>

\* The fallback driver identifies the chip; the candidate with that id becomes
\* the active one if it comes up. Only a chip in standard mode answers.
flash_mux_init(up) ==
    /\ sf_boot = "mux"
    /\ sf_active' = IF sf_chip.mode # "standard" THEN "none"
                    ELSE IF up /\ sf_chip.id \in {"mt25", "mx35"} THEN sf_chip.id
                    ELSE "fallback"
    /\ sf_boot' = "jedec"
    /\ UNCHANGED <<sf_chip, sf_window, sf_delay, sf_jedec, sf_locked, sf_verified, sf_flash, sf_op, sf_old>>

flash_jedec_id_init(fail) ==
    /\ sf_boot = "jedec"
    /\ sf_jedec' = IF sf_active = "none" \/ fail THEN sf_jedec ELSE sf_chip.id
    /\ sf_boot' = "train"
    /\ UNCHANGED <<sf_chip, sf_active, sf_window, sf_delay, sf_locked, sf_verified, sf_flash, sf_op, sf_old>>

\* The first of two scans stops at the first delay that reads right, the second
\* goes on from there to the first that does not; both stop at the last delay.
\* The result is half way between.
SfScanUp(from, stop) ==
    CHOOSE d \in from .. SfDepth + 1 :
      /\ d \in stop \/ d + 1 >= SfDepth
      /\ \A e \in from .. d - 1 : e \notin stop /\ e + 1 < SfDepth

flash_training(window) ==
    LET lb == SfScanUp(0, window)
        last == SfScanUp(lb + 1, (0 .. SfDepth + 1) \ window)
        ub == last - 1
    IN  ((ub - lb) \div 2) + lb

\* Training before the clocks are raised, in whatever window the slow clock has.
flash_training_pre_reclock(window) ==
    /\ sf_boot = "train"
    /\ sf_window' = window
    /\ sf_delay' = IF sf_active = "none" THEN sf_delay ELSE flash_training(window)
    /\ sf_boot' = "trained"
    /\ UNCHANGED <<sf_chip, sf_active, sf_jedec, sf_locked, sf_verified, sf_flash, sf_op, sf_old>>

\* Training again at the raised clock, by the same scan, after which the message
\* handlers run. Bound: every delay reads right then.
flash_training_post_reclock ==
    /\ sf_boot = "trained"
    /\ sf_window' = SfWide
    /\ sf_delay' = IF sf_active = "none" THEN sf_delay ELSE flash_training(SfWide)
    /\ sf_boot' = "up"
    /\ UNCHANGED <<sf_chip, sf_active, sf_jedec, sf_locked, sf_verified, sf_flash, sf_op, sf_old>>

-----------------------------------------------------------------------------
\* Messages of the host, served one at a time.

SfServing == sf_boot = "up" /\ sf_op.step = "idle"

\* The response to a write goes back to the host.
SfReply ==
    /\ sf_boot = "up" /\ sf_op.step = "done"
    /\ sf_op' = SfNoOp /\ sf_old' = sf_flash
    /\ UNCHANGED <<sf_boot, sf_chip, sf_active, sf_window, sf_delay, sf_jedec, sf_locked, sf_verified, sf_flash>>

required_board_variables ==
    IF sf_jedec # FLASH_JEDEC_ID_MT25QU512ABB THEN {"BOARD_VAR_SPI_JEDEC_ID"} ELSE {}

flash_lock_handler ==
    /\ SfServing
    /\ sf_locked' = TRUE
    /\ UNCHANGED <<sf_boot, sf_chip, sf_active, sf_window, sf_delay, sf_jedec, sf_verified, sf_flash, sf_op, sf_old>>

\* words is 0 in an unlock that declares nothing.
flash_unlock_handler(words, declared) ==
    /\ SfServing
    /\ words = 0 => declared = {}
    /\ IF ~sf_locked /\ words = 0
       THEN UNCHANGED <<sf_locked, sf_verified>>
       ELSE /\ sf_locked' = ~(required_board_variables \subseteq declared)
            /\ sf_verified' = declared
    /\ UNCHANGED <<sf_boot, sf_chip, sf_active, sf_window, sf_delay, sf_jedec, sf_flash, sf_op, sf_old>>

\* write_eeprom_handler: SpiSmartWrite from the scratch buffer, unless the flash is
\* locked or has no driver.
write_eeprom_handler(addr, data) ==
    /\ SfServing
    /\ LET ret == IF sf_locked THEN 2 ELSE IF sf_active = "none" THEN 1 ELSE 0
       IN  sf_op' = [addr |-> addr, data |-> data, done |-> 0, phase |-> 1,
                     step |-> IF ret = 0 THEN "read" ELSE "done", ret |-> ret, buf |-> <<>>]
    /\ sf_old' = sf_flash
    /\ UNCHANGED <<sf_boot, sf_chip, sf_active, sf_window, sf_delay, sf_jedec, sf_locked, sf_verified, sf_flash>>

SfLen == Len(sf_op.data)
SfLeft == SfLen - sf_op.done

\* First address of the sector the write has come to, and the bytes it takes.
SfBase ==
    IF sf_op.phase = 1 THEN (sf_op.addr \div SfSector) * SfSector ELSE sf_op.addr + sf_op.done
SfChunk ==
    CASE sf_op.phase = 1 ->
           LET room == (((sf_op.addr \div SfSector) + 1) * SfSector) - sf_op.addr
           IN  IF room < SfLen THEN room ELSE SfLen
      [] sf_op.phase = 2 -> SfSector
      [] sf_op.phase = 3 -> SfLeft

SfInSector(base) == base .. (base + SfSector) - 1

SfMerged_blank ==
    LET first == IF sf_op.phase = 1 THEN sf_op.addr ELSE SfBase
    IN  [a \in SfInSector(SfBase) |->
           IF a \in first .. (first + SfChunk) - 1 THEN sf_op.data[(sf_op.done + (a - first)) + 1]
           ELSE SfErased]

\* The sector with the chunk merged into what was read.
SfMerged ==
    LET first == IF sf_op.phase = 1 THEN sf_op.addr ELSE SfBase
    IN  [a \in SfInSector(SfBase) |->
           IF a \in first .. (first + SfChunk) - 1 THEN sf_op.data[(sf_op.done + (a - first)) + 1]
           ELSE sf_flash[a]]

\* The phase that follows, "done" when nothing is left.
SfAdvance ==
    LET done == sf_op.done + SfChunk
        left == SfLen - done
    IN  IF left = 0 THEN [sf_op EXCEPT !.done = done, !.step = "done", !.ret = 0]
        ELSE [sf_op EXCEPT !.done = done, !.step = "read",
                           !.phase = IF left > SfSector THEN 2 ELSE 3]

SfFail(at) == [sf_op EXCEPT !.step = "done", !.ret = at]

\* Read the sector; nothing is written where it already holds the data.
SfRead(fail) ==
    /\ sf_op.step = "read"
    /\ sf_op' = IF fail THEN SfFail(-5)
                ELSE IF \A a \in SfInSector(SfBase) : SfMerged[a] = sf_flash[a] THEN SfAdvance
                ELSE [sf_op EXCEPT !.step = "erase"]
    /\ UNCHANGED <<sf_boot, sf_chip, sf_active, sf_window, sf_delay, sf_jedec, sf_locked, sf_verified, sf_flash, sf_old>>

\* The flash with the current sector holding new, up to the first n bytes of it.
SfPut(new, n) ==
    [a \in SfAddrs |-> IF a \in SfInSector(SfBase)
                       THEN IF a < SfBase + n THEN new[a] ELSE SfErased
                       ELSE sf_flash[a]]

\* SfMerged goes to spi_page_buf before the erase.
SfErase(fail) ==
    /\ sf_op.step = "erase"
    /\ \/ fail /\ UNCHANGED sf_flash
       \/ sf_flash' = SfPut(SfMerged, 0)
    /\ sf_op' = IF fail THEN SfFail(-5)
                ELSE [sf_op EXCEPT !.step = "write", !.buf = SfMerged]
    /\ UNCHANGED <<sf_boot, sf_chip, sf_active, sf_window, sf_delay, sf_jedec, sf_locked, sf_verified, sf_old>>

SfWrite(fail) ==
    /\ sf_op.step = "write"
    /\ \E n \in (IF fail THEN 0 .. SfSector - 1 ELSE {SfSector}) : sf_flash' = SfPut(sf_op.buf, n)
    /\ sf_op' = IF fail THEN SfFail(-5) ELSE SfAdvance
    /\ UNCHANGED <<sf_boot, sf_chip, sf_active, sf_window, sf_delay, sf_jedec, sf_locked, sf_verified, sf_old>>

\* Power loss, during an erase or a write as well; everything but the flash is lost.
SfPowerLoss ==
    /\ sf_boot = "up"
    /\ \/ UNCHANGED sf_flash
       \/ sf_op.step = "erase" /\ sf_flash' = SfPut(SfMerged, 0)
       \/ sf_op.step = "write" /\ \E n \in 1 .. SfSector : sf_flash' = SfPut(sf_op.buf, n)
    /\ sf_boot' = "reset"
    /\ sf_active' = "none" /\ sf_window' = SfWide /\ sf_delay' = 0 /\ sf_jedec' = "none"
    /\ sf_locked' = TRUE /\ sf_verified' = {}
    /\ sf_op' = [sf_op EXCEPT !.step = IF @ = "idle" THEN "idle" ELSE "done",
                              !.ret = IF sf_op.step \in {"idle", "done"} THEN @ ELSE -1]
    /\ UNCHANGED <<sf_chip, sf_old>>

\* Data the host writes: bytes that differ from their neighbours.
SfData(n) == {[i \in 1 .. n |-> 1 + ((i + p) % 3)] : p \in 0 .. 1}

SfNext ==
    \/ \E fail \in BOOLEAN :
         \/ flash_reset_init(fail) \/ flash_mux_init(fail) \/ flash_jedec_id_init(fail)
         \/ SfRead(fail) \/ SfErase(fail) \/ SfWrite(fail)
    \/ \E w \in SfWindows : flash_training_pre_reclock(w)
    \/ flash_training_post_reclock
    \/ SfReply
    \/ flash_lock_handler
    \/ \E words \in 0 .. 1, declared \in SUBSET SfVars : flash_unlock_handler(words, declared)
    \/ \E r \in SfRanges : \E d \in SfData(r[2]) : write_eeprom_handler(r[1], d)
    \/ SfPowerLoss

SfSpec == SfInit /\ [][SfNext]_sf_vars

-----------------------------------------------------------------------------

\* Types of the state.
SfTypeOK ==
    /\ sf_active \in {"none", "fallback"} \cup SfIds
    /\ sf_delay \in 0 .. SfDepth - 1
    /\ sf_locked \in BOOLEAN
    /\ sf_flash \in [SfAddrs -> SfByteValues \cup {SfErased}]
    /\ sf_op.phase \in 0 .. 3 /\ sf_op.done \in 0 .. SfLen

\* The contents the write is to leave.
SfWanted ==
    [a \in SfAddrs |-> IF a \in sf_op.addr .. (sf_op.addr + SfLen) - 1
                       THEN sf_op.data[(a - sf_op.addr) + 1] ELSE sf_old[a]]

SfSectorIs(s, contents) == \A a \in SfInSector(s * SfSector) : sf_flash[a] = contents[a]

\* A write is one the board allows, and harms one sector at most. The flash is
\* open for writes only after an unlock that declared every board variable this
\* board requires. If a write fails or is cut off, every sector holds what it held
\* before or what it is to hold after, but for the one the write had come to; one
\* that reports success has written all of its data and changed nothing else.
SfContained ==
    /\ ~sf_locked => required_board_variables \subseteq sf_verified
    /\ IF sf_op.step = "done" /\ sf_op.ret = 0
       THEN sf_flash = SfWanted
       ELSE Cardinality({s \in 0 .. SfSectors - 1 :
                           ~SfSectorIs(s, sf_old) /\ ~SfSectorIs(s, SfWanted)}) <= 1

=============================================================================
