-------------------------------- MODULE Gddr --------------------------------
(***************************************************************************)
(* The GDDR controllers and their MRISC processors as the SMC brings them  *)
(* up, trains, tests, powers and resets them (gddr.c, and the memory part  *)
(* of bh_power.c).                                                         *)
(*                                                                         *)
(* A command-address (CA) setting is an opaque value; some do not hold     *)
(* data.  The settings are kept in flash across boots (module GddrCal); a  *)
(* write of them here either takes effect or not.  An MRISC answers a      *)
(* message in time or late: the SMC's waits end by a timeout either way.   *)
(***************************************************************************)
EXTENDS Integers, FiniteSets

CONSTANTS GdInst,      \* controllers: a set of integers, handled in this order
          GdGood,      \* CA settings that hold data
          GdWeak,      \* CA settings that train and do not hold data
          GdUnset,     \* no setting
          GdParts      \* the parts tried, from GdCfgs

VARIABLES gd_pc,       \* off, training, run
          gd_cfg,      \* fixed by fuses, tables and image: see GdCfgs
          gd_mr,       \* the MRISCs
          gd_next,     \* controllers whose training is still to be checked
          gd_table,    \* this ASIC's row of gddr_cal_table
          gd_flash,    \* the row in flash
          gd_dirty,    \* cal_dirty
          gd_failed,   \* init_errors, then error_status0
          gd_bist,     \* gddr_bist
          gd_known,    \* gddr_telemetry_version_ok
          gd_power     \* power_state[MRISC]
gd_soc == <<gd_next, gd_table, gd_flash, gd_dirty, gd_failed>>
gd_vars == <<gd_pc, gd_cfg, gd_mr, gd_soc, gd_bist, gd_known, gd_power>>

\* mask: the controllers neither harvested nor masked (GetDramMask); row: the
\* ASIC location has a row in the table (GddrCalAsicIndex); test: the MRISC
\* image is recent enough to have the memory test, and to report settings;
\* host: whether the host sends messages (a bound on the search, nothing else).
GdCfgs == [mask : SUBSET GdInst, row : BOOLEAN, test : BOOLEAN, host : BOOLEAN]
ASSUME GdAssumption == GdInst \subseteq Int /\ GdParts \subseteq GdCfgs

\* An MRISC: its status register, the setting it is seeded with and, once
\* trained, applies (ca), what it reports of it (unchanged, changed, or a value
\* out of range) until the SMC has read that, its message register, its PHY,
\* and whether its memory passed the test since it was last trained.
GdHeld == [st |-> "reset", ca |-> GdUnset, report |-> "same", msg |-> "none", awake |-> TRUE, tested |-> FALSE]
GdEmpty == [c \in GdInst |-> GdUnset]
GdNoBist == [complete |-> {}, failed |-> {}]

\* What a reset leaves: everything but the flash starts again.
GdColdStart ==
    /\ gd_pc' = "off" /\ gd_mr' = [c \in GdInst |-> GdHeld] /\ gd_next' = {}
    /\ gd_table' = GdEmpty /\ gd_dirty' = FALSE /\ gd_failed' = FALSE
    /\ gd_bist' = GdNoBist /\ gd_known' = {} /\ gd_power' = TRUE
GdInit ==
    /\ gd_pc = "off" /\ gd_mr = [c \in GdInst |-> GdHeld] /\ gd_next = {}
    /\ gd_table = GdEmpty /\ gd_dirty = FALSE /\ gd_failed = FALSE
    /\ gd_bist = GdNoBist /\ gd_known = {} /\ gd_power = TRUE
    /\ gd_flash = GdEmpty /\ gd_cfg \in GdParts

-----------------------------------------------------------------------------
\* Boot.

\* The configuration of a controller: the seed from this ASIC's row, if valid.
LoadMriscFwCfg(table, c) == [GdHeld EXCEPT !.ca = table[c], !.st = "training"]
\* The MRISCs before the first that fails to load are configured and released;
\* an earlier failure (a missing image, the clock) leaves all of them in reset.
\* In cable fault mode there is nothing to do, here and in gddr_training.
InitMrisc(fault, ok) ==
    LET table == IF gd_cfg.row THEN gd_flash ELSE GdEmpty IN
    /\ gd_pc = "off" /\ ok \subseteq gd_cfg.mask
    /\ \A c \in ok, d \in gd_cfg.mask : d < c => d \in ok
    /\ IF fault THEN ok = {} /\ gd_pc' = "run" /\ UNCHANGED <<gd_mr, gd_next, gd_table, gd_failed>>
       ELSE /\ gd_table' = table
            /\ gd_mr' = [c \in GdInst |-> IF c \in ok THEN LoadMriscFwCfg(table, c) ELSE gd_mr[c]]
            /\ gd_failed' = (ok # gd_cfg.mask)
            /\ gd_pc' = "training" /\ gd_next' = gd_cfg.mask
    /\ UNCHANGED <<gd_cfg, gd_flash, gd_dirty, gd_bist, gd_known, gd_power>>

\* An MRISC trains: with its seed or, after a sweep, with another setting; its
\* report may be unreadable.  It fails, or it never ends.  (External.)
GdTrain(c) ==
    /\ gd_mr[c].st = "training"
    /\ \/ \E s \in GdGood \cup GdWeak, r \in {"changed", "wild"} :
             gd_mr' = [gd_mr EXCEPT ![c].st = "trained", ![c].ca = s,
                                    ![c].report = IF s = gd_mr[c].ca \/ ~gd_cfg.test THEN "same" ELSE r]
       \/ gd_mr' = [gd_mr EXCEPT ![c].st = "failed"]
    /\ UNCHANGED <<gd_pc, gd_cfg, gd_soc, gd_bist, gd_known, gd_power>>

\* A report of changed settings replaces the cached entry if it is in range.
LatchGddrCaSettings(c) ==
    IF gd_cfg.row /\ gd_mr[c].report = "changed" /\ gd_mr[c].ca # gd_table[c]
    THEN gd_table' = [gd_table EXCEPT ![c] = gd_mr[c].ca] /\ gd_dirty' = TRUE
    ELSE UNCHANGED <<gd_table, gd_dirty>>
\* gddr_training, one controller at a time: trained with a table version the
\* SMC knows, or an error (failed, unknown version, timed out).
CheckGddrTraining(c, version) ==
    /\ gd_pc = "training" /\ c \in gd_next /\ \A d \in gd_next : c <= d
    /\ gd_next' = gd_next \ {c}
    /\ IF gd_mr[c].st = "trained" /\ version
       THEN LatchGddrCaSettings(c) /\ gd_known' = gd_known \cup {c} /\ UNCHANGED gd_failed
       ELSE gd_failed' = TRUE /\ gd_known' = gd_known \ {c} /\ UNCHANGED <<gd_table, gd_dirty>>
    /\ gd_mr' = [gd_mr EXCEPT ![c].report = "same"]
    /\ UNCHANGED <<gd_pc, gd_cfg, gd_flash, gd_bist, gd_power>>

\* A memory test message to an MRISC that is not busy, and its result, which
\* comes in time or not.  The settings are not looked at again in this boot.
StartHwMemtest(mr, intime, holds) ==
    [mr EXCEPT !.msg = IF intime THEN "none" ELSE "memtest", !.tested = intime /\ holds, !.ca = GdUnset]
CheckHwMemtestResult(bist, c, mr) ==
    [complete |-> IF mr.msg = "none" THEN bist.complete \cup {c} ELSE bist.complete,
     failed |-> IF mr.tested THEN bist.failed \ {c} ELSE bist.failed \cup {c}]
CheckGddrHwTest_persistsFirst(late) ==
    LET S == gd_cfg.mask IN
    /\ gd_pc = "training" /\ gd_next = {} /\ gd_pc' = "run" /\ late \subseteq S
    /\ IF gd_failed THEN late = {} /\ UNCHANGED <<gd_mr, gd_bist, gd_failed, gd_flash>>
       ELSE /\ gd_mr' = [c \in GdInst |-> IF c \notin S \/ ~gd_cfg.test THEN gd_mr[c]
                                          ELSE StartHwMemtest(gd_mr[c], c \notin late, gd_mr[c].ca \in GdGood)]
            /\ gd_bist' = IF gd_cfg.test THEN [complete |-> S \ late, failed |-> {c \in S : ~gd_mr'[c].tested}]
                          ELSE gd_bist
            /\ gd_failed' = (gd_bist'.failed # {})
            /\ gd_flash' \in {gd_flash, IF gd_dirty THEN gd_table ELSE gd_flash}
    /\ gd_dirty' = FALSE /\ gd_table' = GdEmpty
    /\ UNCHANGED <<gd_cfg, gd_next, gd_known, gd_power>>

\* The end of gddr_training.  Without errors all memory is tested, which also
\* wipes it; only then are changed settings written to flash, if that succeeds.
CheckGddrHwTest(late) ==
    LET S == gd_cfg.mask IN
    /\ gd_pc = "training" /\ gd_next = {} /\ gd_pc' = "run" /\ late \subseteq S
    /\ IF gd_failed THEN late = {} /\ UNCHANGED <<gd_mr, gd_bist, gd_failed, gd_flash>>
       ELSE /\ gd_mr' = [c \in GdInst |-> IF c \notin S \/ ~gd_cfg.test THEN gd_mr[c]
                                          ELSE StartHwMemtest(gd_mr[c], c \notin late, gd_mr[c].ca \in GdGood)]
            /\ gd_bist' = IF gd_cfg.test THEN [complete |-> S \ late, failed |-> {c \in S : ~gd_mr'[c].tested}]
                          ELSE gd_bist
            /\ gd_failed' = (gd_bist'.failed # {})
            /\ gd_flash' \in {gd_flash, IF gd_dirty /\ ~gd_failed' THEN gd_table ELSE gd_flash}
    /\ gd_dirty' = FALSE /\ gd_table' = GdEmpty        \* neither is used again in this boot
    /\ UNCHANGED <<gd_cfg, gd_next, gd_known, gd_power>>

-----------------------------------------------------------------------------
\* Messages at run time.

\* One message to every controller of the mask, in order: a busy register ends
\* it before the later controllers are told; then all are awaited.
mrisc_message(mr, op, late) ==
    LET told == {c \in gd_cfg.mask : \A b \in gd_cfg.mask : mr[b].msg # "none" => c < b}
        all == told = gd_cfg.mask IN
    [mr |-> [c \in GdInst |-> IF c \notin told THEN mr[c]
                              ELSE IF c \in late \/ ~all THEN [mr[c] EXCEPT !.msg = op]
                              ELSE [mr[c] EXCEPT !.awake = (op = "wake")]],
     ok |-> all /\ late \cap gd_cfg.mask = {}]

\* The host sets the memory power; the new state is recorded whatever happened.
GdPowerSettings(on, late) ==
    /\ gd_pc = "run" /\ gd_cfg.host
    /\ gd_mr' = mrisc_message(gd_mr, IF on THEN "wake" ELSE "down", late).mr
    /\ gd_power' = on
    /\ UNCHANGED <<gd_pc, gd_cfg, gd_soc, gd_bist, gd_known>>

\* The host resets controller c: wake all if they were recorded as down, reset,
\* train and test c, put all back.  fail is the step that does not succeed, if
\* any; late are the controllers that do not answer that step in time, holds
\* whether the memory holds data with the settings of the new training.
toggle_gddr_reset(c, fail, late, holds) ==
    LET wake == IF gd_power THEN [mr |-> gd_mr, ok |-> TRUE]
                ELSE mrisc_message(gd_mr, "wake", IF fail = "wake" THEN late ELSE {})
        fresh == [wake.mr[c] EXCEPT !.st = IF fail = "train" THEN "failed" ELSE "trained", !.awake = TRUE,
                                    !.ca = GdUnset, !.tested = FALSE]
        mute == ~gd_cfg.test \/ fresh.msg # "none"      \* the test cannot be started
        test == StartHwMemtest(fresh, c \notin late, holds)
        trained == [wake.mr EXCEPT ![c] = IF fail = "train" \/ mute THEN fresh ELSE test]
        bist == [complete |-> gd_bist.complete \ {c}, failed |-> gd_bist.failed \ {c}]
        put == IF gd_power \/ ~test.tested THEN trained
               ELSE mrisc_message(trained, "down", IF fail = "put" THEN late ELSE {}).mr IN
    /\ gd_pc = "run" /\ gd_cfg.host /\ c \in gd_cfg.mask
    /\ (fail = "train" => late = {}) /\ (fail = "none" => late \subseteq {c})
    /\ fail \in {"wake", "put"} => late # {} /\ ~gd_power
    /\ IF ~wake.ok THEN gd_mr' = wake.mr /\ gd_bist' = bist /\ UNCHANGED gd_known
       ELSE IF fail = "train" THEN gd_mr' = trained /\ gd_bist' = bist /\ gd_known' = gd_known \ {c}
       ELSE /\ gd_known' = gd_known \cup {c}
            /\ IF mute THEN gd_mr' = trained /\ gd_bist' = bist
               ELSE gd_mr' = put /\ gd_bist' = CheckHwMemtestResult(bist, c, test)
    /\ UNCHANGED <<gd_pc, gd_cfg, gd_soc, gd_power>>

\* A late MRISC ends what it was asked for.  (External.)
GdLate(c) ==
    /\ gd_mr[c].msg # "none"
    /\ gd_mr' = [gd_mr EXCEPT ![c].msg = "none",
                     ![c].awake = IF gd_mr[c].msg = "memtest" THEN @ ELSE gd_mr[c].msg = "wake"]
    /\ UNCHANGED <<gd_pc, gd_cfg, gd_soc, gd_bist, gd_known, gd_power>>

\* Power loss or a chip reset, at any moment.
GdReset == gd_pc # "off" /\ GdColdStart /\ UNCHANGED <<gd_cfg, gd_flash>>

\* Bound: at most one controller is late in one wait.
GdLates == {S \in SUBSET GdInst : Cardinality(S) <= 1}
GdNext ==
    \/ \E fault \in BOOLEAN, ok \in SUBSET GdInst : InitMrisc(fault, ok)
    \/ \E c \in GdInst : GdTrain(c) \/ GdLate(c)
    \/ \E c \in GdInst, v \in BOOLEAN : CheckGddrTraining(c, v)
    \/ \E late \in GdLates : CheckGddrHwTest(late)
    \/ \E on \in BOOLEAN, late \in GdLates : GdPowerSettings(on, late)
    \/ \E c \in GdInst, fail \in {"wake", "train", "put", "none"}, late \in GdLates, holds \in BOOLEAN :
          toggle_gddr_reset(c, fail, late, holds)
    \/ GdReset
GdSpec == GdInit /\ [][GdNext]_gd_vars

-----------------------------------------------------------------------------
GdSettings == GdGood \cup GdWeak \cup {GdUnset}
\* Type invariant: the values the boot, the MRISCs and the records may have.
GdTypeOK ==
    /\ gd_pc \in {"off", "training", "run"} /\ gd_cfg \in GdCfgs
    /\ gd_mr \in [GdInst -> [st : {"reset", "training", "trained", "failed"}, ca : GdSettings,
                             report : {"same", "changed", "wild"}, msg : {"none", "memtest", "wake", "down"},
                             awake : BOOLEAN, tested : BOOLEAN]]
    /\ gd_next \subseteq gd_cfg.mask /\ gd_known \subseteq gd_cfg.mask
    /\ gd_bist.complete \cup gd_bist.failed \subseteq gd_cfg.mask
    /\ gd_dirty \in BOOLEAN /\ gd_failed \in BOOLEAN /\ gd_power \in BOOLEAN

\* "Only now are the new settings known to survive a memory test.  Persisting
\* them earlier would let a CA choice that trains but cannot hold data be
\* seeded back on every subsequent boot" (gddr_training): over any number of
\* boots, failures and resets, a setting in flash, and so every seed, holds data.
GdPersistsTested == \A c \in GdInst : /\ gd_flash[c] \in GdGood \cup {GdUnset}
                                      /\ gd_mr[c].st = "training" => gd_mr[c].ca \in GdGood \cup {GdUnset}

=============================================================================
