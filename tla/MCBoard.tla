------------------------------ MODULE MCBoard -------------------------------
(* The DMC's reset handling and the flash loader of the recovery tool,       *)
(* side by side: a behaviour chooses one of them and only that one moves.    *)
(* They share no state, so the reachable states are the union of those of    *)
(* the components, not their product.                                        *)
EXTENDS DmcReset, RecoveryFlash

VARIABLE part            \* the component this behaviour is about

MCInit ==
  /\ part \in {"dr", "fl"}
  /\ Init
  /\ FlInit
  /\ \/ part = "fl"
     \/ fl_kind = "nor" /\ fl_mem[0] = "old"

MC_dr == part = "dr" /\ Next /\ UNCHANGED <<
    part, fl_vars>>
MC_fl == part = "fl" /\ FlNext /\ UNCHANGED <<
    part, vars>>
(* These may come to their end: calls, blocks and requests are bounded.      *)
MCIdle == part \in {"fl"} /\ UNCHANGED <<
    part, vars, fl_vars>>
MCNext ==
  \/ MC_dr \/ MC_fl \/ MCIdle

mcvars == <<
    part, vars, fl_vars>>

(* The fairness of each component, for the behaviours that are about it.    *)
MCFair ==
  /\ WF_vars(part = "dr" /\ (Sequence \/ Loop))
  /\ WF_vars(part = "dr" /\ Boot)
  /\ WF_vars(part = "dr" /\ bh_chip_auto_reset)
  /\ SF_vars(part = "dr" /\ jtag_bootrom_reset_asic(TRUE))
  /\ SF_vars(part = "dr" /\ send_init_data(TRUE))
  /\ SF_vars(part = "dr" /\ PollFails(TRUE))
  /\ \A m \in Messages : SF_vars(part = "dr" /\ process_cm2dm_message(m))
MCSpec == MCInit /\ [][MCNext]_mcvars /\ MCFair
=============================================================================
