------------------------------- MODULE GddrCal -------------------------------
(***************************************************************************)
(* The flash record of the GDDR command-address calibration (gddr_cal.c):  *)
(* two banks written in turn, each with a sequence number and a checksum,  *)
(* so that a power loss at any point leaves a readable table.              *)
(*                                                                         *)
(* A bank is "erased" (no plausible header, whatever its body), "torn" (a  *)
(* plausible header and a wrong checksum) or "whole".  The writer's steps  *)
(* on the flash are separate actions; each may fail, and power may be lost *)
(* between and during them.  Tables are opaque values.                     *)
(***************************************************************************)
EXTENDS Integers, Sequences

CONSTANTS GcTables,      \* calibration tables
          GcNone,        \* no table: the read finds none
          GcHalf,        \* half the range of a sequence number (2^31 in the code)
          GcReadFaults   \* whether a read at boot may fail (flash_read < 0)

\* A sequence number and its successor must compare as newer over the skipped
\* value as well; the code's width is 32 bits.
ASSUME GcAssumption == /\ GcHalf \in Nat /\ GcHalf > 2
                       /\ GcNone \notin GcTables
                       /\ GcReadFaults \in BOOLEAN

VARIABLES gc_bank,    \* the two flash banks
          gc_active,  \* have_active, active_bank and active_seq
          gc_pc,      \* where the boot or the writer stands
          gc_table,   \* the table being written, or last written, in this boot
          gc_good     \* the table of the last read or of the last verified write
gc_vars == <<gc_bank, gc_active, gc_pc, gc_table, gc_good>>

Banks == {0, 1}
GDDR_CAL_SEQ_ERASED == (2 * GcHalf) - 1
GcSeqs == 0 .. (2 * GcHalf) - 2
GcErased == [st |-> "erased", seq |-> GDDR_CAL_SEQ_ERASED, table |-> GcNone]

gddr_cal_hdr_is_plausible(b) == gc_bank[b].st # "erased"
gddr_cal_bank_crc(b) == gc_bank[b].st = "whole"     \* the checksum in the header matches
\* the sign of the 32-bit difference
gddr_cal_seq_is_newer(a, b) == \/ a - b > 0 /\ a - b < GcHalf
                               \/ a - b < -GcHalf
GcNextSeq_plain(s) == s + 1

GcNextSeq(s) == IF s + 1 = GDDR_CAL_SEQ_ERASED THEN 0 ELSE s + 1

\* The banks in the order gddr_cal_read tries them: the newer header first.
GcOrder(bad) ==
    LET ok == {b \in Banks \ bad : gddr_cal_hdr_is_plausible(b)} IN
    CASE ok = Banks -> IF gddr_cal_seq_is_newer(gc_bank[1].seq, gc_bank[0].seq)
                       THEN <<1, 0>> ELSE <<0, 1>>
      [] ok = {0}   -> <<0>>
      [] ok = {1}   -> <<1>>
      [] OTHER      -> <<>>
\* the bank it adopts, 2 for none
GcPick(bad) ==
    LET o == GcOrder(bad) IN
    CASE Len(o) > 0 /\ gddr_cal_bank_crc(o[1]) -> o[1]
      [] Len(o) > 1 /\ ~gddr_cal_bank_crc(o[1]) /\ gddr_cal_bank_crc(o[2]) -> o[2]
      [] OTHER -> 2
\* what a read without faults returns
GcValue == IF GcPick({}) = 2 THEN GcNone ELSE gc_bank[GcPick({})].table

GcInit == /\ \E s \in GcSeqs, t \in GcTables :
                 gc_bank \in {[b \in Banks |-> GcErased],
                              [b \in Banks |-> IF b = 0 THEN [st |-> "whole", seq |-> s, table |-> t]
                                               ELSE GcErased]}
          /\ gc_active = [have |-> FALSE, bank |-> 0, seq |-> 0]
          /\ gc_pc = "off" /\ gc_table = GcNone
          /\ gc_good = GcValue

\* Boot: the newest whole bank becomes the active one.
gddr_cal_read(bad) ==
    /\ gc_pc = "off"
    /\ gc_active' = IF GcPick(bad) = 2 THEN [gc_active EXCEPT !.have = FALSE]
                    ELSE [have |-> TRUE, bank |-> GcPick(bad), seq |-> gc_bank[GcPick(bad)].seq]
    /\ gc_pc' = "idle" /\ gc_table' = GcNone
    /\ gc_good' = GcValue
    /\ UNCHANGED gc_bank

GcTarget_live == gc_active.bank

GcTarget == IF gc_active.have THEN 1 - gc_active.bank ELSE 0
GcSeq == IF gc_active.have THEN GcNextSeq(gc_active.seq) ELSE 0

\* Its only caller, gddr_training, writes at most once in a boot.
gddr_cal_write(t) ==
    /\ gc_pc = "idle"
    /\ gc_pc' = "erase" /\ gc_table' = t
    /\ UNCHANGED <<gc_bank, gc_active, gc_good>>
\* A step of the writer either completes, or fails and ends the write; what a
\* failed or interrupted step leaves in the target bank is one of partial.
GcStep(pc, next, done, partial) ==
    /\ gc_pc = pc
    /\ \/ gc_pc' = next /\ gc_bank' = [gc_bank EXCEPT ![GcTarget] = done]
       \/ gc_pc' = "done" /\ \E p \in partial : gc_bank' = [gc_bank EXCEPT ![GcTarget] = p]
    /\ UNCHANGED <<gc_active, gc_table, gc_good>>
GcTorn(b) == [b EXCEPT !.st = IF @ = "erased" THEN "erased" ELSE "torn"]
GcNewBank == [st |-> "whole", seq |-> GcSeq, table |-> gc_table]
GcPartial == CASE gc_pc = "erase" -> {gc_bank[GcTarget], GcTorn(gc_bank[GcTarget]), GcErased}
               [] gc_pc = "body"  -> {GcErased}
               [] gc_pc = "head"  -> {GcErased, GcTorn(GcNewBank)}
               [] OTHER -> {gc_bank[GcTarget]}
GcErase == GcStep("erase", "body", GcErased, GcPartial)
GcBody == GcStep("body", "head", GcErased, GcPartial)
GcHead == GcStep("head", "verify", GcNewBank, GcPartial)
\* Read back: the new bank becomes active; a failed read back changes nothing.
GcVerify ==
    /\ gc_pc = "verify" /\ gc_pc' = "done"
    /\ \/ /\ gc_active' = [have |-> TRUE, bank |-> GcTarget, seq |-> GcSeq]
          /\ gc_good' = gc_table
       \/ UNCHANGED <<gc_active, gc_good>>
    /\ UNCHANGED <<gc_bank, gc_table>>

\* Power loss or reset: RAM is lost, an interrupted step leaves part of its work.
GcCrash ==
    /\ gc_pc # "off" /\ gc_pc' = "off"
    /\ \E p \in GcPartial : gc_bank' = [gc_bank EXCEPT ![GcTarget] = p]
    /\ gc_active' = [have |-> FALSE, bank |-> 0, seq |-> 0]
    /\ UNCHANGED <<gc_table, gc_good>>

GcNext == \/ \E bad \in IF GcReadFaults THEN SUBSET Banks ELSE {{}} : gddr_cal_read(bad)
          \/ \E t \in GcTables : gddr_cal_write(t)
          \/ GcErase \/ GcBody \/ GcHead \/ GcVerify \/ GcCrash
GcSpec == GcInit /\ [][GcNext]_gc_vars

-----------------------------------------------------------------------------
\* Type invariant: what the banks, the active record and the writer may hold.
GcTypeOK ==
    /\ gc_bank \in [Banks -> [st : {"erased", "torn", "whole"}, seq : GcSeqs \cup {GDDR_CAL_SEQ_ERASED},
                              table : GcTables \cup {GcNone}]]
    /\ \A b \in Banks : gc_bank[b].st # "erased" => gc_bank[b].seq \in GcSeqs /\ gc_bank[b].table \in GcTables
    /\ gc_active \in [have : BOOLEAN, bank : Banks, seq : GcSeqs]
    /\ gc_pc \in {"off", "idle", "erase", "body", "head", "verify", "done"}
    /\ gc_table \in GcTables \cup {GcNone} /\ gc_good \in GcTables \cup {GcNone}
    /\ gc_pc \in {"erase", "body", "head", "verify"} => gc_table \in GcTables

\* At every moment, power loss included, the flash holds the last good table
\* or, once its header has landed, the one being written: "the live table is
\* never erased and a power loss at any point below leaves it readable"
\* (gddr_cal.c, gddr_cal_write).  Holds when the reads at boot succeed.
GcLiveKept == GcValue \in {gc_good, gc_table}
=============================================================================
