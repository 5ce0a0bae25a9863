------------------------------- MODULE FwTable -------------------------------
(***************************************************************************)
(* What the SMC reads from its flash at boot: the boot file system         *)
(* (lib/tenstorrent/boot_fs/tt_boot_fs.c), the firmware tables, and the    *)
(* override of the main table from the newer of two banks                  *)
(* (drivers/misc/bh_fwtable/bh_fwtable.c).                                 *)
(*                                                                         *)
(* The host replaces the bank that is not in use, with the next sequence   *)
(* number, while the chip runs; a power loss can leave that bank erased or *)
(* torn. Sequence numbers wrap at 2 * FtHalf and the largest is reserved.  *)
(***************************************************************************)
EXTENDS Integers, Sequences, FiniteSets

CONSTANTS
    FtTables,   \* descriptor tables of the boot file system
    FtMax,      \* CONFIG_TT_BOOT_FS_IMAGE_COUNT_MAX
    FtOverrides,\* overrides a bank can hold: functions on sets of fields
    FtHalf,     \* half the range of sequence numbers
    FtFaults    \* bound on the reads of banks that fail in a boot

VARIABLES
    ft_table,   \* the descriptor table
    ft_bank,    \* the override banks
    ft_phase,   \* "off", "on", or "write": the host is replacing a bank
    ft_ready,   \* the fwtable device is ready
    ft_fw,      \* the main table's overridable fields
    ft_state,   \* ccfgovr_state of each bank
    ft_has,     \* BH_FWTABLE_CCFGOVR_STATE_HAS_OVERRIDES
    ft_seq,     \* ccfgovr_seq
    ft_new,     \* the bank the host is writing, and its contents
    ft_last,    \* history: contents of the newest bank written to the end
    ft_clean    \* history: no read failed in this boot

ft_vars == <<ft_table, ft_bank, ft_phase, ft_ready, ft_fw, ft_state, ft_has, ft_seq, ft_new,
             ft_last, ft_clean>>

ASSUME FtAssumption == FtMax \in Nat \ {0} /\ FtHalf \in Nat /\ FtHalf > 1 /\ FtFaults \in Nat

\* The fields of the allow-listed merge.
FtFields == {"tdp_limit", "max_tdp_limit", "stop_nops_freq", "throttler_at_floor", "soft_harvest",
             "gddr_therm_trip", "bypass_cable_fault", "eth_speed", "pci0_speed", "pci1_speed"}

FtBanks == {"ccfgovra", "ccfgovrb"}
CCFGOVR_SEQ_ERASED == (2 * FtHalf) - 1
FtSeqs == 0 .. CCFGOVR_SEQ_ERASED
FtNoBody == [f \in {} |-> 0]

\* A bank: whether its header is plausible, its sequence number, whether its
\* checksum is right and its body decodes, and the body.
FtErased == [plausible |-> FALSE, seq |-> CCFGOVR_SEQ_ERASED, crc |-> FALSE, decodes |-> FALSE,
             body |-> FtNoBody]
FtWhole(seq, body) == [plausible |-> TRUE, seq |-> seq, crc |-> TRUE, decodes |-> TRUE, body |-> body]

-----------------------------------------------------------------------------
\* Boot file system: descriptors [tag, crc, invalid], the table ended by an
\* invalid one.

read_and_validate_fd(table, i) ==
    IF i > Len(table) \/ table[i].invalid THEN "end"
    ELSE IF table[i].crc THEN "ok" ELSE "ENXIO"

\* Descriptors that can be read in a row from the first on.
FtGood(table) ==
    CHOOSE n \in 0 .. FtMax :
      /\ \A i \in 1 .. n : read_and_validate_fd(table, i) = "ok"
      /\ n = FtMax \/ read_and_validate_fd(table, n + 1) # "ok"

FtFirst(hits) == IF hits = {} THEN 0 ELSE CHOOSE i \in hits : \A j \in hits : i <= j

\* Index of the descriptor with the tag; 0 if the table ends before it or a
\* descriptor before it fails its checksum.
tt_boot_fs_find_fd_by_tag(table, tag) == FtFirst({i \in 1 .. FtGood(table) : table[i].tag = tag})

\* The search in the cached table: invalid descriptors and such with a wrong
\* checksum are passed over.
find_fd_by_tag(table, tag) ==
    FtFirst({i \in 1 .. FtMax : i <= Len(table) /\ ~table[i].invalid /\ table[i].tag = tag /\ table[i].crc})

tt_boot_fs_ls_strict(table, nfds, offset) ==
    LET good == FtGood(table)
    IN  IF nfds = 0 THEN 0
        ELSE IF good > offset + nfds THEN nfds
        ELSE IF read_and_validate_fd(table, good + 1) = "ENXIO" THEN -1
        ELSE IF good > offset THEN good - offset ELSE 0

\* Descriptors listed from offset on, at most nfds of them; -1 on a bad checksum.
tt_boot_fs_ls(table, nfds, offset) ==
    LET good == FtGood(table)
    IN  IF nfds = 0 THEN 0
        ELSE IF good >= offset + nfds THEN nfds
        ELSE IF read_and_validate_fd(table, good + 1) = "ENXIO" THEN -1
        ELSE IF good > offset THEN good - offset ELSE 0

-----------------------------------------------------------------------------
\* The tables and the override.

tt_bh_fwtable_load(table, tag) == tt_boot_fs_find_fd_by_tag(table, tag) # 0

\* Boards' defaults of the main table.
FtDefault == [f \in FtFields |-> 1]

ccfgovr_seq_is_newer_plain(a, b) == a > b

ccfgovr_seq_is_newer(a, b) ==
    LET d == IF a >= b THEN a - b ELSE (a - b) + (2 * FtHalf) IN d > 0 /\ d < FtHalf

\* A header is taken if its bank has a descriptor, it can be read and is plausible.
ccfgovr_read_header(b, bad) ==
    /\ tt_boot_fs_find_fd_by_tag(ft_table, b) # 0
    /\ <<b, "header">> \notin bad
    /\ ft_bank[b].plausible

ccfgovr_load_and_verify_body(b, bad) == <<b, "body">> \notin bad /\ ft_bank[b].crc

\* Candidates, newest first; bank A first if neither is newer.
FtOrder(bad) ==
    LET a == ccfgovr_read_header("ccfgovra", bad)
        b == ccfgovr_read_header("ccfgovrb", bad)
    IN  CASE a /\ b -> IF ccfgovr_seq_is_newer(ft_bank["ccfgovrb"].seq, ft_bank["ccfgovra"].seq)
                       THEN <<"ccfgovrb", "ccfgovra">> ELSE <<"ccfgovra", "ccfgovrb">>
         [] a /\ ~b -> <<"ccfgovra">>
         [] ~a /\ b -> <<"ccfgovrb">>
         [] OTHER -> <<>>

\* A candidate is applied if its checksum is right and its body, if it has one,
\* decodes. The first such is taken; those before it are rejected.
FtTaken(b, bad) ==
    ccfgovr_load_and_verify_body(b, bad) /\ (ft_bank[b].body # FtNoBody => ft_bank[b].decodes)

tt_bh_fwtable_apply_ccfgovr(bad) ==
    \E order \in {FtOrder(bad)} : \E taken \in {{k \in DOMAIN order : FtTaken(order[k], bad)}} :
      LET i == IF taken = {} THEN Len(order) + 1 ELSE FtFirst(taken)
          at(b) == CHOOSE k \in DOMAIN order : order[k] = b
          body == IF taken = {} THEN FtNoBody ELSE ft_bank[order[i]].body
      IN  /\ ft_state' = [b \in FtBanks |->
               CASE \A k \in DOMAIN order : order[k] # b -> "empty"
                 [] (\E k \in DOMAIN order : order[k] = b) /\ at(b) < i -> "rejected"
                 [] (\E k \in DOMAIN order : order[k] = b) /\ at(b) = i -> "applied"
                 [] OTHER -> "standby"]
          /\ ft_seq' = IF taken = {} THEN 0 ELSE ft_bank[order[i]].seq
          /\ ft_has' = (body # FtNoBody)
          /\ ft_fw' = [f \in FtFields |-> IF f \in DOMAIN body THEN body[f] ELSE FtDefault[f]]

-----------------------------------------------------------------------------

FtInit ==
    /\ ft_table \in FtTables
    /\ ft_bank = [b \in FtBanks |-> FtErased]
    /\ ft_phase = "off"
    /\ ft_ready = FALSE
    /\ ft_fw = FtDefault
    /\ ft_state = [b \in FtBanks |-> "empty"]
    /\ ft_has = FALSE /\ ft_seq = 0
    /\ ft_new = [bank |-> "none", bytes |-> FtErased]
    /\ ft_last = FtNoBody
    /\ ft_clean = TRUE

\* Boot: the three tables, then the override. bad: the reads of banks that fail.
tt_bh_fwtable_init(bad) ==
    /\ ft_phase = "off"
    /\ Cardinality(bad) <= FtFaults
    /\ ft_ready' = \A tag \in {"boardcfg", "flshinfo", "cmfwcfg"} : tt_bh_fwtable_load(ft_table, tag)
    /\ IF ft_ready' THEN tt_bh_fwtable_apply_ccfgovr(bad) ELSE UNCHANGED <<ft_fw, ft_state, ft_has, ft_seq>>
    /\ ft_clean' = (bad = {})
    /\ ft_phase' = "on"
    /\ UNCHANGED <<ft_table, ft_bank, ft_new, ft_last>>

\* The host writes a new override to the bank that is not applied, with the
\* sequence number after the applied one's: first the erase of its sector.
FtHostWrites(body) ==
    /\ ft_phase = "on" /\ ft_ready /\ ft_clean
    /\ LET b == IF ft_state["ccfgovra"] = "applied" THEN "ccfgovrb" ELSE "ccfgovra"
           seq == IF ft_seq + 1 = CCFGOVR_SEQ_ERASED THEN 0 ELSE ft_seq + 1
       IN  /\ tt_boot_fs_find_fd_by_tag(ft_table, b) # 0
           /\ ft_new' = [bank |-> b, bytes |-> FtWhole(seq, body)]
           /\ ft_bank' = [ft_bank EXCEPT ![b] = FtErased]
    /\ ft_phase' = "write"
    /\ UNCHANGED <<ft_table, ft_ready, ft_fw, ft_state, ft_has, ft_seq, ft_last, ft_clean>>

\* The write reaches its end; the host then reboots the chip.
FtHostWritten ==
    /\ ft_phase = "write"
    /\ ft_bank' = [ft_bank EXCEPT ![ft_new.bank] = ft_new.bytes]
    /\ ft_last' = ft_new.bytes.body
    /\ ft_phase' = "off"
    /\ ft_new' = [bank |-> "none", bytes |-> FtErased]
    /\ ft_ready' = FALSE /\ ft_fw' = FtDefault /\ ft_has' = FALSE /\ ft_seq' = 0
    /\ ft_state' = [b \in FtBanks |-> "empty"]
    /\ UNCHANGED <<ft_table, ft_clean>>

\* Power loss: a bank being written stays erased or is torn, with a plausible
\* header or without.
FtPowerLoss ==
    /\ ft_phase \in {"on", "write"}
    /\ \/ UNCHANGED ft_bank
       \/ /\ ft_phase = "write"
          /\ ft_bank' = [ft_bank EXCEPT ![ft_new.bank] = [ft_new.bytes EXCEPT !.crc = FALSE, !.decodes = FALSE]]
    /\ ft_phase' = "off"
    /\ ft_new' = [bank |-> "none", bytes |-> FtErased]
    /\ ft_ready' = FALSE /\ ft_fw' = FtDefault /\ ft_has' = FALSE /\ ft_seq' = 0
    /\ ft_state' = [b \in FtBanks |-> "empty"]
    /\ UNCHANGED <<ft_table, ft_last, ft_clean>>

FtNext ==
    \/ \E bad \in SUBSET (FtBanks \X {"header", "body"}) : tt_bh_fwtable_init(bad)
    \/ \E body \in FtOverrides : FtHostWrites(body)
    \/ FtHostWritten
    \/ FtPowerLoss

FtSpec == FtInit /\ [][FtNext]_ft_vars

-----------------------------------------------------------------------------

\* Types of the state.
FtTypeOK ==
    /\ ft_phase \in {"off", "on", "write"}
    /\ ft_seq \in FtSeqs
    /\ ft_state \in [FtBanks -> {"empty", "standby", "rejected", "applied"}]
    /\ DOMAIN ft_fw = FtFields

\* The override in force after a boot in which every read succeeded is the last
\* one the host wrote to the end, however many updates were cut off by power
\* losses since and however the sequence numbers have wrapped.
FtLastApplies ==
    (ft_phase # "off" /\ ft_ready /\ ft_clean) =>
      ft_fw = [f \in FtFields |-> IF f \in DOMAIN ft_last THEN ft_last[f] ELSE FtDefault[f]]

\* The two searches of the boot file system agree: what the search in the flash
\* finds, the search in the cache finds too, and a listing contains it.
FtSameFile ==
    \A tag \in {"boardcfg", "flshinfo", "cmfwcfg", "ccfgovra", "ccfgovrb"} :
      LET i == tt_boot_fs_find_fd_by_tag(ft_table, tag)
      IN  i # 0 => /\ find_fd_by_tag(ft_table, tag) = i
                   /\ tt_boot_fs_ls(ft_table, i, 0) = i
                   /\ tt_boot_fs_ls(ft_table, 1, i - 1) = 1

=============================================================================
