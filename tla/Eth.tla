--------------------------------- MODULE Eth ---------------------------------
(***************************************************************************)
(* The Ethernet tiles of a Blackhole chip (eth.c): which of them get SerDes *)
(* lanes, how they are loaded and started at boot and by the host's reset  *)
(* message, and how telemetry tells which of them are alive.               *)
(*                                                                         *)
(* The handlers run one after the other on the system work queue; the      *)
(* Ethernet RISCs (ERISCs) run on their own.  Which ones are enabled, and  *)
(* what the firmware table says of PCIe and Ethernet, is fixed at boot.    *)
(***************************************************************************)
EXTENDS Integers, FiniteSets

CONSTANTS EtParts,   \* the parts tried: fuses and tables, see EtTypeOK
          EtTouch,   \* bound: the tiles that fail to load, beat, or are reset
          EtWrap     \* heartbeat counters wrap at this value (2^32)

VARIABLES et_up,     \* the boot has passed eth_init
          et_cfg,    \* the part
          et_mux,    \* mux_sel of PCIE_MISC_CNTL3 of the two PCIe instances
          et_serdes, \* SerDes instances with firmware
          et_soft,   \* tiles whose ERISC 0 is in soft reset
          et_loaded, \* what each tile holds: firmware, SerDes table, parameters
          et_sel,    \* the selection in each tile's parameters
          et_beat,   \* heartbeat counters in the tiles' L1
          et_saved,  \* saved_heartbeat
          et_alive   \* the last heartbeat status
et_vars == <<et_up, et_cfg, et_mux, et_serdes, et_soft, et_loaded, et_sel, et_beat, et_saved,
             et_alive>>

MAX_ETH_INSTANCES == 14
EthInst == 0 .. MAX_ETH_INSTANCES - 1
EthSerdes == 0 .. 5
EtPieces == {"fw", "serdes", "cfg"}

-----------------------------------------------------------------------------
\* Each of the middle SerDes serves two of three tiles; a harvested one is left
\* out.  With none harvested the register keeps its value.
SetupEthSerdesMux(en, mux) ==
    [pcie0 |-> IF 4 \notin en THEN 3 ELSE IF 5 \notin en THEN 2 ELSE IF 6 \notin en THEN 0 ELSE mux.pcie0,
     pcie1 |-> IF 7 \notin en THEN 0 ELSE IF 8 \notin en THEN 2 ELSE IF 9 \notin en THEN 3 ELSE mux.pcie1]
EtMuxed(mux) ==
    (CASE mux.pcie0 = 0 -> {4, 5} [] mux.pcie0 = 2 -> {4, 6} [] mux.pcie0 = 3 -> {5, 6} [] OTHER -> {})
    \cup
    (CASE mux.pcie1 = 0 -> {8, 9} [] mux.pcie1 = 2 -> {7, 9} [] mux.pcie1 = 3 -> {7, 8} [] OTHER -> {})
\* pci: SerDes instances a PCIe controller uses, 0 when it is disabled
EtSide(pci, all, some) == CASE pci = 0 -> all [] pci = 1 -> some [] OTHER -> {}
GetEthSel(cfg, mux) ==
    ((EtMuxed(mux) \cup EtSide(cfg.pci0, 0 .. 3, {2, 3}) \cup EtSide(cfg.pci1, 10 .. 13, {10, 11}))
     \cap cfg.en) \ cfg.disable
LoadSerdes(cfg) == {2, 5} \cup EtSide(cfg.pci0, {0, 1}, {1}) \cup EtSide(cfg.pci1, {3, 4}, {4})

EtInit ==
    /\ et_up = FALSE /\ et_cfg \in EtParts
    /\ et_mux = [pcie0 |-> 0, pcie1 |-> 0] /\ et_serdes = {}
    /\ et_soft = EthInst /\ et_loaded = [i \in EthInst |-> {}] /\ et_sel = [i \in EthInst |-> {}]
    /\ et_beat = [i \in EthInst |-> 0] /\ et_saved = [i \in EthInst |-> 0]
    /\ et_alive = {}

\* Loading the tiles of mask in order: `bad' is the first that fails, after the
\* pieces in part, or MAX_ETH_INSTANCES when none does.
load_eth_fw_parts(mask, bad, part) ==
    /\ et_loaded' = [i \in EthInst |->
                       CASE i \in mask /\ i < bad -> EtPieces
                         [] i \in mask /\ i = bad -> et_loaded[i] \cup part
                         [] OTHER -> et_loaded[i]]
    /\ et_sel' = [i \in EthInst |-> IF i \in mask /\ i < bad THEN GetEthSel(et_cfg, et_mux') ELSE et_sel[i]]
EtFailures(mask) == {[bad |-> MAX_ETH_INSTANCES, part |-> {}]}
                    \cup [bad : mask \cap EtTouch, part : {{}, {"fw"}, {"fw", "serdes"}}]
ReleaseEthReset_all(mask) ==
    /\ et_soft' = {}
    /\ et_saved' = [i \in EthInst |-> 0]

\* Saved counters of all tiles are cleared, the tiles of mask released.
ReleaseEthReset(mask) ==
    /\ et_soft' = et_soft \ mask
    /\ et_saved' = [i \in EthInst |-> 0]

\* Boot: SerDes firmware, up to the first that fails, then the tiles.
eth_init(fail) ==
    LET want == LoadSerdes(et_cfg)
        got == {s \in want : s < fail.serdes} IN
    /\ ~et_up /\ et_up' = TRUE
    /\ IF et_cfg.fault
       THEN UNCHANGED <<et_mux, et_serdes, et_loaded, et_sel, et_soft, et_saved>>
       ELSE /\ et_mux' = SetupEthSerdesMux(et_cfg.en, et_mux) /\ et_serdes' = got
            /\ IF got # want \/ et_cfg.en = {} \/ fail.lookup
               THEN UNCHANGED <<et_loaded, et_sel, et_soft, et_saved>>
               ELSE \E f \in EtFailures(et_cfg.en) :
                       /\ load_eth_fw_parts(et_cfg.en, f.bad, f.part)
                       /\ IF f.bad = MAX_ETH_INSTANCES THEN ReleaseEthReset(et_cfg.en)
                          ELSE UNCHANGED <<et_soft, et_saved>>
    /\ UNCHANGED <<et_cfg, et_beat, et_alive>>

\* The host resets tiles.  Tile reset clears the tile; its ERISCs stay in soft
\* reset until all are loaded again, or for the host to start (reload = FALSE).
\* AICLK is held at a safe frequency meanwhile, and only meanwhile.
toggle_eth_reset_handler(requested, reload, lookup) ==
    LET mask == requested \cap et_cfg.en IN
    /\ et_up
    /\ mask # {} /\ ~et_cfg.fault /\ (reload => lookup)      \* else it answers at once
    /\ UNCHANGED <<et_up, et_cfg, et_mux, et_serdes, et_alive>>
    /\ et_beat' = [i \in EthInst |-> IF i \in mask THEN 0 ELSE et_beat[i]]
    /\ IF ~reload
       THEN /\ et_soft' = et_soft \cup mask
            /\ et_loaded' = [i \in EthInst |-> IF i \in mask THEN {} ELSE et_loaded[i]]
            /\ UNCHANGED <<et_sel, et_saved>>
       ELSE \E f \in EtFailures(mask) :
               /\ et_loaded' = [i \in EthInst |-> CASE i \in mask /\ i < f.bad -> EtPieces
                                                    [] i \in mask /\ i = f.bad -> f.part
                                                    [] i \in mask /\ i > f.bad -> {}
                                                    [] OTHER -> et_loaded[i]]
               /\ et_sel' = [i \in EthInst |-> IF i \in mask /\ i < f.bad THEN GetEthSel(et_cfg, et_mux)
                                               ELSE et_sel[i]]
               /\ IF f.bad = MAX_ETH_INSTANCES THEN ReleaseEthReset(mask)
                  ELSE et_soft' = et_soft \cup mask /\ UNCHANGED <<et_saved>>

\* Telemetry: a tile is alive if its counter differs from the saved one.
GetEthHeartbeatStatus ==
    /\ et_up
    /\ et_alive' = {i \in et_cfg.en : et_saved[i] # et_beat[i]}
    /\ et_saved' = [i \in EthInst |-> IF i \in et_cfg.en THEN et_beat[i] ELSE et_saved[i]]
    /\ UNCHANGED <<et_up, et_cfg, et_mux, et_serdes, et_soft, et_loaded, et_sel, et_beat>>

\* A running ERISC beats, or hangs: it need not step.  (External.)
EtBeat(i) ==
    /\ i \notin et_soft
    /\ et_beat' = [et_beat EXCEPT ![i] = (@ + 1) % EtWrap]
    /\ UNCHANGED <<et_up, et_cfg, et_mux, et_serdes, et_soft, et_loaded, et_sel, et_saved, et_alive>>

EtBootFails == [serdes : {2, 5, 6}, lookup : BOOLEAN]
EtNext == \/ \E f \in EtBootFails : eth_init(f)
          \/ \E m \in SUBSET EtTouch, reload, lookup \in BOOLEAN : toggle_eth_reset_handler(m, reload, lookup)
          \/ GetEthHeartbeatStatus
          \/ \E i \in EtTouch : EtBeat(i)
EtSpec == EtInit /\ [][EtNext]_et_vars

-----------------------------------------------------------------------------
\* Type invariant: the part's tables, the registers and the tiles.
EtTypeOK ==
    /\ et_cfg \in [en : SUBSET EthInst, disable : SUBSET EthInst, pci0 : 0 .. 2, pci1 : 0 .. 2, fault : BOOLEAN]
    /\ et_up \in BOOLEAN /\ et_mux \in [pcie0 : {0, 2, 3}, pcie1 : {0, 2, 3}]
    /\ et_serdes \subseteq EthSerdes /\ et_soft \subseteq EthInst
    /\ et_loaded \in [EthInst -> SUBSET EtPieces] /\ et_sel \in [EthInst -> SUBSET EthInst]
    /\ et_beat \in [EthInst -> 0 .. EtWrap - 1] /\ et_saved \in [EthInst -> 0 .. EtWrap - 1]
    /\ et_alive \subseteq EthInst

\* An ERISC the firmware has started holds its firmware, its SerDes table and
\* its parameters, whatever load failed at boot or in a reset of several tiles
\* (EthInit, toggle_eth_reset_handler).
EtRunsLoaded == \A i \in EthInst \ et_soft : i \in et_cfg.en /\ et_loaded[i] = EtPieces

=============================================================================
