------------------------------- MODULE MCDvfs ------------------------------
(* Instances of Dvfs for TLC: five clocks, two of them below Fmin and one    *)
(* above Fmax, and curves in half millivolts that rise from Fmin to Fmax as  *)
(* GetMaxAiclkForVoltage assumes; like the code's they rise again below, and *)
(* above Fmax they pass what the board allows.                               *)
EXTENDS Dvfs

CurveChoices ==
  {c \in [LowClock..HighClock -> {2, 4, 5, 7}] :
     /\ c[Fmin] \in {2, 5} /\ \A f \in Fmin..Fmax : c[f] # 7
     /\ \A f \in Fmin..(Fmax - 1) : c[f] <= c[f + 1]
     /\ c[LowClock] = 4 /\ c[ResetSafe] = 7 /\ c[HighClock] = 7}
=============================================================================
