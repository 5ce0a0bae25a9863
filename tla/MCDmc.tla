------------------------------- MODULE MCDmc --------------------------------
(* The DMC's reset handling, remote boot of Grendel chiplets, the host tools, *)
(* the PCIe log, the two DMA engines, the virtual UART, the PLDM shell and the *)
(* SPI flash,                                                                *)
(* side by side: a behaviour chooses one of them and only that one moves.    *)
(* They share no state, so the reachable states are the union of those of    *)
(* the components, not their product.                                        *)
EXTENDS DmcReset, RemoteBoot, HostTool, PcieLog, ArcDma, NocDma, VUart,
        PldmShell, SpiFlash

MCAsk == <<0, 1>>
(* A buffer shorter and one longer than a frame.                             *)
MCRoom == [b \in PlBufs |-> IF b = "b1" THEN 5 ELSE 7]
(* A range over sector borders and one inside a sector.                      *)
MCRanges == {<<1, 5>>, <<3, 1>>}
-----------------------------------------------------------------------------
VARIABLE part            \* the component this behaviour is about

MCInit ==
  /\ part \in {"dr", "rb", "ht", "pl", "ad", "nd", "vu", "ps", "sf"}
  /\ Init
  /\ RbInit
  /\ \/ part = "rb"
     \/ \A t \in RbTile : rb_tile[t].image = "junk" /\ ~rb_tile[t].magic
  /\ HtInit
  /\ \/ part = "ht"
     \/ ht_card = "absent"
  /\ PlInit
  /\ AdInit
  /\ NdInit
  /\ \/ part = "nd"
     \/ nd_count = [k \in Kinds |-> 0]
  /\ VuInit
  /\ \/ part = "vu"
     \/ vu_role = "tx" /\ vu_ring.buf[0] = CHOOSE b \in VuBytes : TRUE
  /\ PsInit
  /\ SfInit
  /\ \/ part = "sf"
     \/ sf_chip = [id |-> "mt25", mode |-> "fast", reg |-> "fast"]

MC_dr == part = "dr" /\ Next /\ UNCHANGED <<
    part, rb_vars, ht_vars, pl_vars, ad_vars, nd_vars, vu_vars, ps_vars,
    sf_vars>>
MC_rb == part = "rb" /\ RbNext /\ UNCHANGED <<
    part, vars, ht_vars, pl_vars, ad_vars, nd_vars, vu_vars, ps_vars,
    sf_vars>>
MC_ht == part = "ht" /\ HtNext /\ UNCHANGED <<
    part, vars, rb_vars, pl_vars, ad_vars, nd_vars, vu_vars, ps_vars,
    sf_vars>>
MC_pl == part = "pl" /\ PlNext /\ UNCHANGED <<
    part, vars, rb_vars, ht_vars, ad_vars, nd_vars, vu_vars, ps_vars,
    sf_vars>>
MC_ad == part = "ad" /\ AdNext /\ UNCHANGED <<
    part, vars, rb_vars, ht_vars, pl_vars, nd_vars, vu_vars, ps_vars,
    sf_vars>>
MC_nd == part = "nd" /\ NdNext /\ UNCHANGED <<
    part, vars, rb_vars, ht_vars, pl_vars, ad_vars, vu_vars, ps_vars,
    sf_vars>>
MC_vu == part = "vu" /\ VuNext /\ UNCHANGED <<
    part, vars, rb_vars, ht_vars, pl_vars, ad_vars, nd_vars, ps_vars,
    sf_vars>>
MC_ps == part = "ps" /\ PsNext /\ UNCHANGED <<
    part, vars, rb_vars, ht_vars, pl_vars, ad_vars, nd_vars, vu_vars,
    sf_vars>>
MC_sf == part = "sf" /\ SfNext /\ UNCHANGED <<
    part, vars, rb_vars, ht_vars, pl_vars, ad_vars, nd_vars, vu_vars,
    ps_vars>>
(* These may come to their end: calls, blocks and requests are bounded.      *)
MCIdle == part \in {"rb", "ad", "nd", "ps"} /\ UNCHANGED <<
    part, vars, rb_vars, ht_vars, pl_vars, ad_vars, nd_vars, vu_vars,
    ps_vars, sf_vars>>
MCNext ==
  \/ MC_dr \/ MC_rb \/ MC_ht \/ MC_pl \/ MC_ad \/ MC_nd \/ MC_vu \/ MC_ps
  \/ MC_sf \/ MCIdle

mcvars == <<
    part, vars, rb_vars, ht_vars, pl_vars, ad_vars, nd_vars, vu_vars,
    ps_vars, sf_vars>>
MCSpec == MCInit /\ [][MCNext]_mcvars

(* The type invariants of all of them.                                       *)
MCTypeOK ==
  /\ TypeOK
  /\ RbTypeOK
  /\ HtTypeOK
  /\ PlTypeOK
  /\ AdTypeOK
  /\ NdTypeOK
  /\ VuTypeOK
  /\ PsTypeOK
  /\ SfTypeOK
=============================================================================
