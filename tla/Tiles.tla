-------------------------------- MODULE Tiles --------------------------------
(***************************************************************************)
(* The tiles of the Blackhole die as the SMC firmware sees them: which are *)
(* harvested (harvesting.c), where they are on the two NOCs (noc.c), how   *)
(* coordinates are translated around the harvested ones (noc_init.c), and  *)
(* what resets and power messages do to them (reset.c, tensix_init.c,      *)
(* bh_power.c).  The real 17 by 12 grid is modelled, not a small one.      *)
(*                                                                         *)
(* All of it runs on the system work queue, one handler after the other;   *)
(* the programming of the translation is split where its order matters.    *)
(***************************************************************************)
EXTENDS Integers, FiniteSets, Sequences, FiniteSetsExt, SequencesExt

CONSTANTS TlFuses,     \* the fuses and firmware tables tried
          TlDebugBad,  \* bad columns the host adds with the debug message
          TlNamed      \* columns of which the host resets a tile by itself

-----------------------------------------------------------------------------
\* Coordinates.  A tile is <<x, y>> on NOC 0; NOC 1 numbers the mesh backwards.
XS == 0 .. 16
YS == 0 .. 11
TlTiles == XS \X YS
TensixX == (1 .. 7) \cup (10 .. 16)
kPhysXToNoc0 == <<0, 1, 16, 2, 15, 3, 14, 4, 13, 5, 12, 6, 11, 7, 10, 8, 9>>
kPhysYToNoc0 == <<0, 1, 11, 2, 10, 3, 9, 4, 8, 5, 7, 6>>
kNoc0XToPhys == <<0, 1, 3, 5, 7, 9, 11, 13, 15, 16, 14, 12, 10, 8, 6, 4, 2>>
kNoc0YToPhys == <<0, 1, 3, 5, 7, 9, 11, 10, 8, 6, 4, 2>>
kTensixEthNoc0X == <<1, 16, 2, 15, 3, 14, 4, 13, 5, 12, 6, 11, 7, 10>>
kL2CpuNoc0Y == <<3, 9, 5, 7>>
kGddrY == <<<<0, 1, 11>>, <<2, 10, 3>>, <<9, 4, 8>>, <<5, 7, 6>>>>

PhysToNoc(px, py) == <<kPhysXToNoc0[px + 1], kPhysYToNoc0[py + 1]>>
NocToPhys(t) == <<kNoc0XToPhys[t[1] + 1], kNoc0YToPhys[t[2] + 1]>>
TensixPhysXToNoc(i) == kPhysXToNoc0[i + 2]
NocToTensixPhysX(x) == {i \in 0 .. 13 : TensixPhysXToNoc(i) = x}
GetGddrNocCoords(inst, port) ==
    LET right == inst >= 4 IN
    PhysToNoc(IF right THEN 16 ELSE 0, ((inst % 4) * 3) + (IF right THEN 2 - port ELSE port))
GetEthNocCoords(inst) == PhysToNoc(inst + 1, 1)

-----------------------------------------------------------------------------
\* Harvesting.  A part's fuses and tables f have the bad columns, Ethernet and
\* GDDR instances of the two testers (ate, slt), and what the product asks for.
TlTop(S, n) == {i \in S : Cardinality({j \in S : j > i}) < n}   \* the n highest
GetTensixDisableSLTMapV1(slt) ==
    LET n == Cardinality(slt.col)
        more == (slt.bin \in 3 .. 5 /\ n < 2) \/ (slt.bin = 2 /\ n < 1) IN
    UNION {NocToTensixPhysX(x) : x \in slt.col \cup (IF more THEN {16} ELSE {})}
SltCols(slt) == IF slt.ver = 1 THEN GetTensixDisableSLTMapV1(slt) ELSE slt.col
SltGddr(slt) == IF slt.ver <= 2 THEN slt.gddr \ {3} ELSE slt.gddr
TlTwoOf(S, a) == IF {a - 1, a, a + 1} \subseteq S THEN S \ {a} ELSE S
CalculateHarvesting_wideEth(f) ==
    [col |-> (0 .. 13) \ f.ate.col, eth |-> TlTwoOf(TlTwoOf((0 .. 14) \ f.ate.eth, 5), 8),
     gddr |-> (0 .. 7) \ f.ate.gddr]

CalculateHarvesting(f) ==
    IF ~f.en THEN [col |-> 0 .. 13, eth |-> 0 .. 13, gddr |-> 0 .. 7]
    ELSE
    LET slt == f.valid /\ f.slt.ver # 0
        col1 == (0 .. 13) \ ((IF f.valid THEN f.ate.col ELSE {}) \cup (IF slt THEN SltCols(f.slt) ELSE {}))
        eth1 == (0 .. 13) \ ((IF f.valid THEN f.ate.eth ELSE {}) \cup (IF slt THEN f.slt.eth ELSE {}))
        gdr1 == (0 .. 7) \ ((IF f.valid THEN f.ate.gddr ELSE {}) \cup (IF slt THEN SltGddr(f.slt) ELSE {})
                            \cup f.soft)
        off == 14 - Cardinality(col1) IN
    [col |-> IF off < f.colcount THEN col1 \ TlTop(col1, f.colcount - off) ELSE col1,
     eth |-> IF f.ethoff THEN {} ELSE TlTwoOf(TlTwoOf(eth1, 5), 8),
     gddr |-> IF Cardinality(gdr1) > 8 - f.dcount THEN gdr1 \ {3} ELSE gdr1]

-----------------------------------------------------------------------------
\* Translation: from the coordinates software uses (0 .. 31 each way) to NOC 0.
NO_BAD_GDDR == 255
TlSorted(S) == [k \in 1 .. Cardinality(S) |-> CHOOSE x \in S : Cardinality({y \in S : y < x}) = k - 1]
TlIdentity ==
    [x |-> [i \in 0 .. 31 |-> IF i < 17 THEN i ELSE 0], y |-> [i \in 0 .. 31 |-> IF i < 12 THEN i ELSE 0],
     rows |-> {}, logical |-> [t \in TlTiles |-> t]]
\* Good columns first, in order; the bad ones fill the box from its end.
TlColumnTable(bad) ==
    LET slots == TlSorted(TensixX)
        good == TlSorted(TensixX \ {kTensixEthNoc0X[i + 1] : i \in bad})
        badseq == TlSorted(bad)
        fill == [x \in TensixX |-> LET k == CHOOSE k \in 1 .. 14 : slots[k] = x IN
                                   IF k <= Len(good) THEN good[k] ELSE x] IN
    [x \in TensixX |-> IF x >= 10 /\ 17 - x <= Len(badseq)
                       THEN kTensixEthNoc0X[badseq[17 - x] + 1] ELSE fill[x]]
TlGddrOrder(bad) ==
    LET row == bad % 4 IN
    IF bad = NO_BAD_GDDR THEN <<0, 1, 2, 3>>
    ELSE Append(SelectSeq(<<0, 1, 2, 3>>, LAMBDA r : r # row), row)
CopyBytesSkipIndices(skip) ==
    LET kept == TlSorted((0 .. 13) \ skip) IN [i \in 20 .. 31 |-> kTensixEthNoc0X[kept[i - 19] + 1]]
\* A tile of the post box takes the last coordinates of the pre box that lead to it.
ApplyLogicalCoords(nt, post, pre) ==
    [nt EXCEPT !.logical = [t \in TlTiles |->
        LET xs == {i \in pre[1] .. pre[3] : nt.x[i] = t[1]}
            ys == {i \in pre[2] .. pre[4] : nt.y[i] = t[2]} IN
        IF /\ t[1] \in post[1] .. post[3] /\ t[2] \in post[2] .. post[4]
           /\ xs # {} /\ ys # {}
        THEN <<Max(xs), Max(ys)>> ELSE nt.logical[t]]]
TlPcieX(pcie) == IF pcie = 1 THEN 11 ELSE 2
\* ComputeNocTranslation, its tables and then its logical coordinates.
TlTables(a) ==
    LET west == IF a.gddr >= 4 THEN 0 ELSE 9
        order == TlGddrOrder(a.gddr)
        cols == TlColumnTable(a.bad)
        eth == CopyBytesSkipIndices(a.skip) IN
    [TlIdentity EXCEPT
       !.x = [i \in 0 .. 31 |-> CASE i \in TensixX -> cols[i] [] i = 17 -> west [] i = 18 -> 9 - west
                                  [] i = 19 -> TlPcieX(a.pcie) [] i >= 20 -> eth[i] [] OTHER -> i],
       !.y = [i \in 0 .. 31 |->
               CASE i \in 12 .. 23 -> kGddrY[order[((i - 12) \div 3) + 1] + 1][((i - 12) % 3) + 1]
                 [] i = 25 -> 1 [] i \in 26 .. 29 -> kL2CpuNoc0Y[i - 25] [] i = 30 -> 2
                 [] OTHER -> @[i]],
       !.rows = {0, 1}]
TlLogical(nt, a) ==
    LET p == TlPcieX(a.pcie) IN
    FoldLeft(LAMBDA n, b : ApplyLogicalCoords(n, b[1], b[2]), nt,
             << <<<<1, 2, 7, 11>>, <<1, 2, 16, 11>>>>, <<<<10, 2, 16, 11>>, <<1, 2, 16, 11>>>>,
                <<<<0, 0, 0, 11>>, <<17, 12, 18, 23>>>>, <<<<9, 0, 9, 11>>, <<17, 12, 18, 23>>>>,
                <<<<p, 0, p, 0>>, <<19, 24, 19, 24>>>>,
                <<<<1, 1, 7, 1>>, <<20, 25, 31, 25>>>>, <<<<10, 1, 16, 1>>, <<20, 25, 31, 25>>>>,
                <<<<8, 3, 8, 9>>, <<8, 26, 8, 29>>>>, <<<<8, 2, 8, 2>>, <<8, 30, 8, 30>>>> >>)
CopyNoc0ToNoc1_sameIds(nt) == [nt EXCEPT !.x = [i \in 0 .. 31 |-> 16 - nt.x[i]],
                                        !.y = [i \in 0 .. 31 |-> 11 - nt.y[i]]]

CopyNoc0ToNoc1(nt) == [nt EXCEPT !.x = [i \in 0 .. 31 |-> 16 - nt.x[i]],
                                 !.y = [i \in 0 .. 31 |-> 11 - nt.y[i]],
                                 !.logical = [t \in TlTiles |-> nt.logical[<<16 - t[1], 11 - t[2]>>]]]
NocLogicalToPhysical(nt, l) ==
    <<IF l[2] \in nt.rows THEN l[1] ELSE nt.x[l[1]], nt.y[l[2]]>>

-----------------------------------------------------------------------------
\* A Tensix tile here is <<column, 0 or 1>>: row 0 stands for the tile the host
\* resets by itself, 1 for the rest of the column.
TlTensix == (0 .. 13) \X {0, 1}

NoArgs == [pcie |-> 2, bad |-> {}, gddr |-> 0, skip |-> {}]

VARIABLES tl_pc,     \* "boot1", "boot2", "boot3", "idle", or a step of programming
          tl_fuse, tl_en,   \* the part, and tile_enable
          tl_fault,  \* cable_fault_mode
          tl_power,  \* power_state[BH_POWER_DOMAIN_TENSIX]
          tl_args,   \* what translation[] was computed from; NoArgs if it is off
          tl_nt,     \* translation[0] while it is computed and programmed
          tl_arc,    \* NOC_ID_TRANSLATE_EN of the ARC's own node
          tl_flag,   \* noc_translation_enabled
          tl_excl,   \* the columns the routers exclude from broadcasts
          tl_clk,    \* Tensix tiles whose clock is off
          tl_acc,    \* Tensix tiles that accept broadcasts
          tl_tr,     \* Tensix tiles that translate with the current table
          tl_reset,  \* the host reset all Tensixes and did not reinitialise them
          tl_debug,  \* history: the host excluded a good column since NocInit
          tl_gated   \* history: the registers written in a tile whose clock is off

tl_vars == <<tl_pc, tl_fuse, tl_en, tl_fault, tl_power, tl_args, tl_nt, tl_arc, tl_flag, tl_excl, tl_clk,
             tl_acc, tl_tr, tl_reset, tl_debug, tl_gated>>

TlTypeOK ==
    /\ tl_pc \in {"boot1", "boot2", "boot3", "idle", "compute", "logical", "program", "arc"}
    /\ tl_fuse \in TlFuses /\ tl_excl \subseteq 0 .. 13
    /\ tl_en.col \subseteq 0 .. 13 /\ tl_en.eth \subseteq 0 .. 13 /\ tl_en.gddr \subseteq 0 .. 7
    /\ tl_clk \subseteq TlTensix /\ tl_acc \subseteq TlTensix /\ tl_tr \subseteq TlTensix
    /\ {tl_fault, tl_power, tl_arc, tl_flag, tl_reset, tl_debug} \subseteq BOOLEAN
    /\ tl_gated \subseteq {"setup", "instruction"}

TlInit ==
    /\ tl_pc = "boot1" /\ tl_fuse \in TlFuses
    /\ tl_en = [col |-> 0 .. 13, eth |-> 0 .. 13, gddr |-> 0 .. 7]
    /\ tl_fault = FALSE /\ tl_power = TRUE /\ tl_args = NoArgs /\ tl_nt = <<>> /\ tl_arc = FALSE /\ tl_flag = FALSE
    /\ tl_excl = {} /\ tl_clk = {} /\ tl_acc = TlTensix /\ tl_tr = {}
    /\ tl_reset = FALSE /\ tl_debug = FALSE /\ tl_gated = {}

\* A write broadcast to the Tensixes: registers inside a tile need its clock.
\* (Not judged between a reset of all tiles and their reinitialisation, nor once
\* the debug message has taken good columns out of the broadcasts.)
TlGatedBy(what, clk, acc) == IF ~tl_debug /\ ~tl_reset /\ clk \cap acc # {} THEN {what} ELSE {}
TlTileWrite(clk, acc) == tl_gated' = tl_gated \cup TlGatedBy("setup", clk, acc)

\* CalculateHarvesting, then DeassertTileResets with the DMC's power limit.
TlDeassertTileResets(fault) ==
    /\ tl_pc = "boot1" /\ tl_pc' = "boot2"
    /\ tl_en' = CalculateHarvesting(tl_fuse) /\ tl_fault' = fault
    /\ UNCHANGED <<tl_fuse, tl_power, tl_args, tl_arc, tl_flag, tl_excl, tl_clk, tl_acc, tl_tr, tl_reset,
                   tl_debug, tl_gated, tl_nt>>

\* GetTileClkDisable, or every Tensix in cable fault mode.
TlClkOff == IF tl_fault THEN TlTensix ELSE ((0 .. 13) \ tl_en.col) \X {0, 1}
\* ProgramBroadcastExclusion, left out by NocInit in cable fault mode.
TlExcl == IF tl_fault THEN tl_excl ELSE (0 .. 13) \ tl_en.col
TlAcc == IF tl_fault THEN tl_acc ELSE tl_en.col \X {0, 1}
\* TensixInit: clock gating control, the gates of the Tensixes in low power, and
\* only then the injected instruction.
TlSetEnable(clk, acc, on) == IF on THEN clk \ acc ELSE clk \cup acc
TensixInit(clk, acc) ==
    LET then == IF tl_power THEN clk ELSE TlSetEnable(clk, acc, FALSE) IN
    /\ tl_gated' = tl_gated \cup TlGatedBy("setup", clk, acc) \cup TlGatedBy("instruction", then, acc)
    /\ tl_clk' = then

\* Boot: NocInit, AssertSoftResets and tensix_init; cable fault skips the last two.
TlBootNoc ==
    /\ tl_pc = "boot2" /\ tl_pc' = "boot3"
    /\ tl_clk' = TlClkOff /\ tl_excl' = TlExcl /\ tl_acc' = TlAcc
    /\ IF tl_fault THEN UNCHANGED tl_gated ELSE TlTileWrite(TlClkOff, TlAcc)
    /\ UNCHANGED <<tl_fuse, tl_en, tl_fault, tl_power, tl_args, tl_arc, tl_flag, tl_tr, tl_reset, tl_debug, tl_nt>>

\* With every tile of a group enabled the shift is by -1: bit 31 is lost in skip_eth.
TlSkip(eth) == LET high(S) == IF S \ eth = {} THEN {} ELSE {Max(S \ eth)} IN
               high(4 .. 6) \cup high(7 .. 9)
InitNocTranslation(pcie, bad, gddr, skip) ==
    /\ tl_args' = [pcie |-> pcie, bad |-> bad, gddr |-> gddr, skip |-> skip]
    /\ tl_pc' = "compute"
InitNocTranslationFromHarvesting ==
    IF tl_fault \/ ~tl_fuse.tren THEN tl_pc' = "idle" /\ UNCHANGED tl_args
    ELSE InitNocTranslation(IF tl_fuse.ep0 THEN 0 ELSE 1, (0 .. 13) \ tl_en.col,
                            IF (0 .. 7) \ tl_en.gddr = {} THEN NO_BAD_GDDR ELSE Min((0 .. 7) \ tl_en.gddr),
                            TlSkip(tl_en.eth))
TlBootTranslate ==
    /\ tl_pc = "boot3" /\ InitNocTranslationFromHarvesting
    /\ UNCHANGED <<tl_fuse, tl_en, tl_fault, tl_power, tl_arc, tl_flag, tl_excl, tl_clk, tl_acc, tl_tr,
                   tl_reset, tl_debug, tl_gated, tl_nt>>

ComputeNocTranslation ==
    /\ \/ tl_pc = "compute" /\ tl_pc' = "logical" /\ tl_nt' = TlTables(tl_args)
       \/ tl_pc = "logical" /\ tl_pc' = "program" /\ tl_nt' = TlLogical(tl_nt, tl_args)
    /\ UNCHANGED <<tl_fuse, tl_en, tl_fault, tl_power, tl_args, tl_arc, tl_flag, tl_excl, tl_clk, tl_acc,
                   tl_tr, tl_reset, tl_debug, tl_gated>>
\* ProgramNocTranslation: every tile but the ARC's, whose node must be the last.
ProgramNocTranslation ==
    /\ tl_pc = "program" /\ tl_pc' = "arc"
    /\ tl_tr' = TlTensix /\ tl_nt' = <<>>
    /\ UNCHANGED <<tl_fuse, tl_en, tl_fault, tl_power, tl_args, tl_arc, tl_flag, tl_excl, tl_clk, tl_acc,
                   tl_reset, tl_debug, tl_gated>>
TlProgramArc ==
    /\ tl_pc = "arc" /\ tl_pc' = "idle"
    /\ tl_arc' = TRUE /\ tl_flag' = TRUE
    /\ UNCHANGED <<tl_fuse, tl_en, tl_fault, tl_power, tl_args, tl_excl, tl_clk, tl_acc, tl_tr, tl_reset,
                   tl_debug, tl_gated, tl_nt>>

\* ClearNocTranslation turns the ARC's node off before any other.
ClearNocTranslation == tl_arc' = FALSE /\ tl_flag' = FALSE /\ tl_tr' = {}

TlHost == tl_pc = "idle"
ReinitTensix ==
    /\ TlHost /\ ClearNocTranslation
    /\ TensixInit(TlClkOff, TlAcc) /\ tl_excl' = TlExcl /\ tl_acc' = TlAcc
    /\ IF tl_fault \/ ~tl_fuse.tren THEN tl_args' = NoArgs /\ UNCHANGED tl_pc
       ELSE InitNocTranslationFromHarvesting
    /\ tl_reset' = FALSE /\ tl_debug' = FALSE
    /\ UNCHANGED <<tl_fuse, tl_en, tl_fault, tl_power, tl_nt>>
\* The reset of a tile clears the configuration of its NOC interface and router.
ToggleTensixReset ==
    /\ TlHost
    /\ tl_reset' = TRUE /\ tl_clk' = {} /\ tl_acc' = TlTensix /\ tl_tr' = {}
    /\ UNCHANGED <<tl_pc, tl_fuse, tl_en, tl_fault, tl_power, tl_args, tl_arc, tl_flag, tl_excl, tl_debug,
                   tl_gated, tl_nt>>
ToggleSingleTensixReset_wakes(c) ==
    LET t == <<c, 0>>
        clk == (tl_clk \ {t}) \cup ({t} \cap TlClkOff) IN
    /\ TlHost /\ c \in tl_en.col
    /\ TlTileWrite(clk, {t})
    /\ tl_tr' = IF tl_args = NoArgs THEN tl_tr \ {t} ELSE tl_tr \cup {t}
    /\ tl_acc' = tl_acc \cup {t} /\ tl_clk' = clk /\ tl_arc' = (tl_args # NoArgs)
    /\ UNCHANGED <<tl_pc, tl_fuse, tl_en, tl_fault, tl_power, tl_args, tl_flag, tl_excl, tl_reset, tl_debug, tl_nt>>

\* The host names a tile by the coordinates it uses, which are translated back;
\* the node of the ARC translates again only after the tile is programmed.
ToggleSingleTensixReset(c) ==
    LET t == <<c, 0>>
        clk == (tl_clk \ {t}) \cup ({t} \cap TlClkOff) IN
    /\ TlHost /\ c \in tl_en.col
    /\ TlTileWrite(clk, {t})
    /\ tl_tr' = IF tl_args = NoArgs THEN tl_tr \ {t} ELSE tl_tr \cup {t}
    /\ tl_acc' = tl_acc \cup {t}
    /\ tl_clk' = IF tl_power THEN clk ELSE clk \cup {t}
    /\ tl_arc' = (tl_args # NoArgs)
    /\ UNCHANGED <<tl_pc, tl_fuse, tl_en, tl_fault, tl_power, tl_args, tl_flag, tl_excl, tl_reset, tl_debug, tl_nt>>
\* apply_power_settings for the Tensix domain, with set_tensix_enable.
TlPowerSettings(on) ==
    /\ TlHost
    /\ IF ~on /\ tl_power THEN TlTileWrite(tl_clk, tl_acc) ELSE UNCHANGED tl_gated
    /\ tl_clk' = TlSetEnable(tl_clk, tl_acc, on) /\ tl_power' = on
    /\ UNCHANGED <<tl_pc, tl_fuse, tl_en, tl_fault, tl_args, tl_arc, tl_flag, tl_excl, tl_acc, tl_tr,
                   tl_reset, tl_debug, tl_nt>>
debug_noc_translation_handler(enable, more, gddr) ==
    /\ TlHost
    /\ Cardinality(((0 .. 13) \ tl_en.col) \cup more) <= 7   \* what the tables assume
    /\ ClearNocTranslation
    /\ LET bad == ((0 .. 13) \ tl_en.col) \cup more IN
       /\ tl_excl' = bad /\ tl_acc' = ((0 .. 13) \ bad) \X {0, 1}
       /\ IF enable
          THEN InitNocTranslation(IF tl_fuse.ep1 THEN 1 ELSE 0, bad, gddr, TlSkip(tl_en.eth))
          ELSE tl_args' = NoArgs /\ UNCHANGED tl_pc
    /\ tl_debug' = (tl_debug \/ more # {})
    /\ UNCHANGED <<tl_fuse, tl_en, tl_fault, tl_power, tl_clk, tl_reset, tl_gated, tl_nt>>

TlNext ==
    \/ \E b \in BOOLEAN : TlDeassertTileResets(b) \/ TlPowerSettings(b)
    \/ TlBootNoc \/ TlBootTranslate \/ ComputeNocTranslation \/ ProgramNocTranslation \/ TlProgramArc
    \/ ReinitTensix \/ ToggleTensixReset
    \/ \E c \in TlNamed : ToggleSingleTensixReset(c)
    \/ \E e \in BOOLEAN, more \in TlDebugBad, g \in {3, 6, NO_BAD_GDDR} :
         debug_noc_translation_handler(e, more, g)
TlSpec == TlInit /\ [][TlNext]_tl_vars

-----------------------------------------------------------------------------

\* Every tile of the mesh is reached through its logical coordinates, on both
\* NOCs, whatever is harvested; and the coordinates the firmware itself uses for
\* tiles that are not Tensixes keep their meaning under the translation.
TlRoundTrip ==
    tl_pc = "program" =>
    LET nt == tl_nt
        nt1 == CopyNoc0ToNoc1(nt) IN
    \A t \in TlTiles :
      /\ NocLogicalToPhysical(nt, nt.logical[t]) = t
      /\ nt1.logical[t][2] \notin nt1.rows => NocLogicalToPhysical(nt1, nt1.logical[t]) = t
      /\ ~(t[1] \in TensixX /\ t[2] >= 2) => NocLogicalToPhysical(nt, t) = t

\* Broadcasts reach the enabled columns and no other; harvested tiles stay
\* gated, and the others are gated exactly in low power, whatever order of
\* resets, reinitialisations and power messages led here; and registers inside a
\* Tensix are not set up with its clock off, which the NOC would not answer
\* ("we can't send the reset message with the clocks gated", bh_power.c).
TlGating ==
    /\ tl_pc = "idle" /\ ~tl_reset /\ ~tl_fault /\ ~tl_debug =>
         /\ tl_acc = tl_en.col \X {0, 1}
         /\ tl_clk = IF tl_power THEN ((0 .. 13) \ tl_en.col) \X {0, 1} ELSE TlTensix
    /\ ~tl_fault => "setup" \notin tl_gated
=============================================================================
