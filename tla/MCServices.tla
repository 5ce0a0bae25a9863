----------------------------- MODULE MCServices -----------------------------
(* The virtual UART and the throttlers,                                      *)
(* side by side: a behaviour chooses one of them and only that one moves.    *)
(* They share no state, so the reachable states are the union of those of    *)
(* the components, not their product.                                        *)
EXTENDS VUart, Throttler

VARIABLE part            \* the component this behaviour is about

MCInit ==
  /\ part \in {"vu", "th"}
  /\ VuInit
  /\ \/ part = "vu"
     \/ vu_role = "tx" /\ vu_ring.buf[0] = CHOOSE b \in VuBytes : TRUE
  /\ ThInit
  /\ \/ part = "th"
     \/ th_dop /\ th_on /\ th_deflt = 0

MC_vu == part = "vu" /\ VuNext /\ UNCHANGED <<
    part, th_vars>>
MC_th == part = "th" /\ ThNext /\ UNCHANGED <<
    part, vu_vars>>
MCNext ==
  \/ MC_vu \/ MC_th

mcvars == <<
    part, vu_vars, th_vars>>

(* The fairness of each component, for the behaviours that are about it.    *)
MCFair ==
  /\ WF_vu_vars(part = "vu" /\ uart_tt_virt_irq_handler)
  /\ \A k \in VuIrqs : WF_vu_vars(part = "vu" /\ VuTimerStart(k))
  /\ WF_th_vars(part = "th" /\ CalculateThrottlers)
MCSpec == MCInit /\ [][MCNext]_mcvars /\ MCFair
=============================================================================
