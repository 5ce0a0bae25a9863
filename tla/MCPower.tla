------------------------------ MODULE MCPower -------------------------------
(* Clock and voltage scaling, the clocks, the voltage regulators, the stored *)
(* GDDR calibration, thermal trips, the I2C controller and PLDM,             *)
(* side by side: a behaviour chooses one of them and only that one moves.    *)
(* They share no state, so the reachable states are the union of those of    *)
(* the components, not their product.                                        *)
EXTENDS MCDvfs, Clocks, Regulator, GddrCal, ThermTrip, DwI2c, Pldm

(* Temperature offsets of either sign.                                       *)
MCOff == {-25, -3, 25}
(* One sensor with a name as long as its record, and two requesters that ask *)
(* for a record in one piece and in pieces of 40 bytes.                      *)
MCSensors == <<[id |-> 1, name |-> 20]>>
MCCount == [e \in PmEids |-> IF e = "bmc" THEN 200 ELSE 40]
(* Readings around zero, the rounding points and the limits of the value.    *)
MCRaws == {-32, -31, -9, -8, -7, -3, -1, 0, 1, 5, 8, 24, 31}
MCMods == {-1, 0, 1}
-----------------------------------------------------------------------------
VARIABLE part            \* the component this behaviour is about

MCInit ==
  /\ part \in {"dv", "ck", "rg", "gc", "tt", "i2", "pm"}
  /\ Init
  /\ \/ part = "dv"
     \/ dvfs_enabled /\ vf = CHOOSE c \in Curves : TRUE
  /\ CkInit
  /\ RgInit
  /\ \/ part = "rg"
     \/ rg_board = "UBB"
  /\ GcInit
  /\ \/ part = "gc"
     \/ \A b \in Banks : gc_bank[b] = GcErased
  /\ TtInit
  /\ \/ part = "tt"
     \/ tt_env = [die |-> 30, off |-> 25] /\ tt_gddr = 80 /\ tt_on
  /\ I2Init
  /\ PmInit

MC_dv == part = "dv" /\ Next /\ UNCHANGED <<
    part, ck_vars, rg_vars, gc_vars, tt_vars, i2_vars, pm_vars>>
MC_ck == part = "ck" /\ CkNext /\ UNCHANGED <<
    part, vars, rg_vars, gc_vars, tt_vars, i2_vars, pm_vars>>
MC_rg == part = "rg" /\ RgNext /\ UNCHANGED <<
    part, vars, ck_vars, gc_vars, tt_vars, i2_vars, pm_vars>>
MC_gc == part = "gc" /\ GcNext /\ UNCHANGED <<
    part, vars, ck_vars, rg_vars, tt_vars, i2_vars, pm_vars>>
MC_tt == part = "tt" /\ TtNext /\ UNCHANGED <<
    part, vars, ck_vars, rg_vars, gc_vars, i2_vars, pm_vars>>
MC_i2 == part = "i2" /\ I2Next /\ UNCHANGED <<
    part, vars, ck_vars, rg_vars, gc_vars, tt_vars, pm_vars>>
MC_pm == part = "pm" /\ PmNext /\ UNCHANGED <<
    part, vars, ck_vars, rg_vars, gc_vars, tt_vars, i2_vars>>
(* These may come to their end: calls, blocks and requests are bounded.      *)
MCIdle == part \in {"pm"} /\ UNCHANGED <<
    part, vars, ck_vars, rg_vars, gc_vars, tt_vars, i2_vars, pm_vars>>
MCNext ==
  \/ MC_dv \/ MC_ck \/ MC_rg \/ MC_gc \/ MC_tt \/ MC_i2 \/ MC_pm \/ MCIdle

mcvars == <<
    part, vars, ck_vars, rg_vars, gc_vars, tt_vars, i2_vars, pm_vars>>
MCSpec == MCInit /\ [][MCNext]_mcvars

(* The type invariants of all of them.                                       *)
MCTypeOK ==
  /\ TypeOK
  /\ CkTypeOK
  /\ RgTypeOK
  /\ GcTypeOK
  /\ TtTypeOK
  /\ I2TypeOK
  /\ PmTypeOK
=============================================================================
