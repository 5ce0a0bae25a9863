------------------------------- MODULE MCChip -------------------------------
(* The SMBus target, the JTAG port, tile, GDDR and Ethernet bring-up, the    *)
(* firmware tables and the sensors,                                          *)
(* side by side: a behaviour chooses one of them and only that one moves.    *)
(* They share no state, so the reachable states are the union of those of    *)
(* the components, not their product.                                        *)
EXTENDS MCSmbusTarget, Jtag, Tiles, Gddr, Eth, FwTable, Pvt

(* Fuses of parts with unusable columns, Ethernet and GDDR tiles, and what   *)
(* the later revisions of the fuse map add.                                  *)
Fused(col, eth, gddr) == [en |-> TRUE, valid |-> TRUE,
  ate |-> [col |-> col, eth |-> eth, gddr |-> gddr],
  slt |-> [ver |-> 0, col |-> {}, bin |-> 1, eth |-> {}, gddr |-> {}],
  colcount |-> 0, ethoff |-> FALSE, soft |-> {}, dcount |-> 0, ep0 |-> TRUE, ep1 |-> FALSE, tren |-> TRUE]
MCFuses ==
  {Fused(c, {}, {}) : c \in {{}, {0, 13}, 0..6}}
  \cup {Fused({2}, e, {}) : e \in {{4, 5}, {0, 5, 9}}}
  \cup {Fused({5}, {}, g) : g \in {{7}, {1, 5}}}
  \cup {[Fused({1}, {}, {}) EXCEPT !.colcount = 2, !.dcount = 1, !.ep0 = FALSE, !.ep1 = TRUE],
        [Fused({3}, {}, {}) EXCEPT !.tren = FALSE],
        [Fused({}, {}, {}) EXCEPT !.slt = [ver |-> 1, col |-> {2}, bin |-> 3, eth |-> {6}, gddr |-> {3}]],
        [Fused({}, {}, {}) EXCEPT !.slt = [ver |-> 3, col |-> {2, 9}, bin |-> 2, eth |-> {}, gddr |-> {3}]],
        [Fused({4}, {1}, {2}) EXCEPT !.valid = FALSE, !.ethoff = TRUE, !.soft = {6}, !.colcount = 2]}
MCDebug == {{}, {2}}
(* GDDR configurations: all or some instances, with and without the tests.   *)
MCParts == {[mask |-> {1, 2}, row |-> TRUE, test |-> TRUE, host |-> FALSE],
            [mask |-> {2}, row |-> TRUE, test |-> TRUE, host |-> TRUE],
            [mask |-> {1, 2}, row |-> TRUE, test |-> FALSE, host |-> TRUE],
            [mask |-> {1}, row |-> FALSE, test |-> TRUE, host |-> TRUE]}
(* Ethernet: harvested and disabled tiles, the lanes PCIe takes, fault mode. *)
EthPart(gone, d, p0, p1, f) == [en |-> EthInst \ gone, disable |-> d, pci0 |-> p0, pci1 |-> p1, fault |-> f]
MCEth == {EthPart({4, 7}, {}, 0, 2, FALSE), EthPart({5, 8}, {6, 12}, 2, 1, FALSE), EthPart({6, 9}, {}, 1, 0, FALSE),
          EthPart({5, 6, 9}, {}, 1, 1, FALSE), EthPart(EthInst, {}, 0, 0, FALSE), EthPart({4, 8}, {}, 0, 0, TRUE)}
(* Boot tables: sound, with a damaged descriptor, a missing and an invalid   *)
(* image.                                                                    *)
Descriptor(tag) == [tag |-> tag, crc |-> TRUE, invalid |-> FALSE]
BootTable == <<Descriptor("boardcfg"), Descriptor("flshinfo"), Descriptor("cmfwcfg"), Descriptor("ccfgovra"),
               Descriptor("ccfgovrb")>>
MCTables == {BootTable, [BootTable EXCEPT ![5].crc = FALSE], [BootTable EXCEPT ![3].crc = FALSE],
             [BootTable EXCEPT ![4].tag = "cmfwcfg"], [BootTable EXCEPT ![4].invalid = TRUE]}
MCOverrides == {[f \in {} |-> 0], [f \in {"tdp_limit"} |-> 2], [f \in {"tdp_limit", "eth_speed"} |-> 3]}
-----------------------------------------------------------------------------
VARIABLE part            \* the component this behaviour is about

MCInit ==
  /\ part \in {"sm", "jt", "tl", "gd", "et", "ft", "pv"}
  /\ SmInit
  /\ JtInit
  /\ TlInit
  /\ \/ part = "tl"
     \/ tl_fuse = CHOOSE f \in TlFuses : TRUE
  /\ GdInit
  /\ \/ part = "gd"
     \/ gd_cfg = CHOOSE g \in GdParts : TRUE
  /\ EtInit
  /\ \/ part = "et"
     \/ et_cfg = CHOOSE e \in EtParts : TRUE
  /\ FtInit
  /\ \/ part = "ft"
     \/ ft_table = CHOOSE t \in FtTables : TRUE
  /\ PvInit

MC_sm == part = "sm" /\ SmNext /\ UNCHANGED <<
    part, jt_vars, tl_vars, gd_vars, et_vars, ft_vars, pv_vars>>
MC_jt == part = "jt" /\ JtNext /\ UNCHANGED <<
    part, sm_vars, tl_vars, gd_vars, et_vars, ft_vars, pv_vars>>
MC_tl == part = "tl" /\ TlNext /\ UNCHANGED <<
    part, sm_vars, jt_vars, gd_vars, et_vars, ft_vars, pv_vars>>
MC_gd == part = "gd" /\ GdNext /\ UNCHANGED <<
    part, sm_vars, jt_vars, tl_vars, et_vars, ft_vars, pv_vars>>
MC_et == part = "et" /\ EtNext /\ UNCHANGED <<
    part, sm_vars, jt_vars, tl_vars, gd_vars, ft_vars, pv_vars>>
MC_ft == part = "ft" /\ FtNext /\ UNCHANGED <<
    part, sm_vars, jt_vars, tl_vars, gd_vars, et_vars, pv_vars>>
MC_pv == part = "pv" /\ PvNext /\ UNCHANGED <<
    part, sm_vars, jt_vars, tl_vars, gd_vars, et_vars, ft_vars>>
(* These may come to their end: calls, blocks and requests are bounded.      *)
MCIdle == part \in {"pv"} /\ UNCHANGED <<
    part, sm_vars, jt_vars, tl_vars, gd_vars, et_vars, ft_vars, pv_vars>>
MCNext ==
  \/ MC_sm \/ MC_jt \/ MC_tl \/ MC_gd \/ MC_et \/ MC_ft \/ MC_pv \/ MCIdle

mcvars == <<
    part, sm_vars, jt_vars, tl_vars, gd_vars, et_vars, ft_vars, pv_vars>>
MCSpec == MCInit /\ [][MCNext]_mcvars

(* The type invariants of all of them.                                       *)
MCTypeOK ==
  /\ SmTypeOK
  /\ JtTypeOK
  /\ TlTypeOK
  /\ GdTypeOK
  /\ EtTypeOK
  /\ FtTypeOK
  /\ PvTypeOK
=============================================================================
