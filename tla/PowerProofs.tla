---------------------------- MODULE PowerProofs -----------------------------
(* TLAPS proofs about power management. Clock and voltage scaling, for every *)
(* curve, range of clocks and voltages and order of host messages: the curve *)
(* need not be monotone, what is enough for a clock is defined by the clocks *)
(* above it. The throttlers, for any widths of the clock and of the counter: *)
(* the Tensix kernels always run at the speed the firmware believes they run *)
(* at, and the time they spent throttled is accounted exactly. The I2C       *)
(* controller that reaches the regulators: a read returns only bytes the     *)
(* device gave it. The thermal trips, of the chip and of the GDDR, come in   *)
(* time.                                                                     *)
EXTENDS Dvfs, Throttler, DwI2c, ThermTrip, TLAPS

InPass == pc \in {"decrease", "voltage", "increase"}

(* What makes the properties inductive: the records of the arbiters match    *)
(* the hardware, a pass carries a target the voltage target is enough for,   *)
(* and after DecreaseAiclk the clock is not above the target.                *)
DvfsInv ==
  /\ TypeOK
  /\ dvfs_enabled => pll = curr_freq /\ vcore = curr_voltage
  /\ pc = "idle" => ~reset_safe
  /\ InPass /\ dvfs_enabled /\ forced_voltage = 0
       => targ_voltage >= Least(aiclk_voltage(targ_freq), VddMax)
  /\ InPass /\ reset_safe => targ_freq <= ResetSafe
  /\ pc \in {"voltage", "increase"} => curr_freq <= targ_freq
  /\ pc = "increase" => curr_voltage = targ_voltage
  /\ ResetSafeClock

(* The order of the constants, one by one.                                   *)
LEMMA Ranges ==
  /\ LowClock \in Nat /\ HighClock \in Nat /\ Fmin \in Nat /\ Fmax \in Nat
  /\ 0 < LowClock /\ LowClock <= Fmin /\ Fmin <= Fmax /\ Fmax <= HighClock
  /\ ResetSafe \in Nat /\ LowClock <= ResetSafe /\ ResetSafe <= HighClock
BY DvfsAssumption, SMTT(30) DEF Clocks

(* The curve's value, its fraction cut, is a natural number.                 *)
LEMMA CurveType ==
  ASSUME vf \in [Clocks -> Nat], NEW f \in Clocks
  PROVE  aiclk_voltage(f) \in Nat
BY DvfsAssumption, SMTT(30) DEF aiclk_voltage

(* The clock chosen for a pass is one of the clocks, below the reset-safe    *)
(* frequency during a tile reset.                                            *)
LEMMA TargetClock ==
  ASSUME TypeOK, NEW t \in Fmin..Fmax, NEW f \in Wanted(t)
  PROVE  Capped(f) \in Clocks /\ (reset_safe => Capped(f) <= ResetSafe)
<1>1. f \in Clocks
  <2>1. Arbitrated(t) \in Clocks
    <3>1. BusyMin \in Fmin..Fmax /\ HostMax \in Fmin..Fmax /\ volt_cap \in Fmin..Fmax
      BY Ranges, SMTT(30) DEF TypeOK, BusyMin, HostMax
    <3>2. Least(BusyMin, Ceiling(t)) \in Fmin..Fmax
      BY <3>1, Ranges, Zenon DEF Ceiling, Least
    <3>3. QED
      BY <3>2, Ranges, SMTT(30) DEF TypeOK, Clocks, Arbitrated, Greatest
  <2>2. QED
    BY <2>1, Ranges, SMTT(30) DEF TypeOK, Wanted, Clocks
<1>2. QED
  BY <1>1, Ranges, SMTT(30) DEF TypeOK, Capped, Least, Clocks

(* The voltage chosen for a clock is one the board allows and, unless it is  *)
(* forced, enough for the clock.                                             *)
LEMMA TargetVoltage ==
  ASSUME TypeOK, NEW f \in Clocks
  PROVE  /\ TargVoltage(f) \in Limits
         /\ dvfs_enabled /\ forced_voltage = 0
              => TargVoltage(f) >= Least(aiclk_voltage(f), VddMax)
<1>1. aiclk_voltage(f) \in Nat
  BY CurveType, Zenon DEF TypeOK
<1>2. VddMin \in Nat /\ VddMax \in Nat /\ VddMin <= VddMax
  BY DvfsAssumption, SMTT(30) DEF Supplies
<1>3. CASE ~dvfs_enabled
  BY <1>3, Zenon DEF TypeOK, TargVoltage, Limits
<1>4. CASE dvfs_enabled
  BY <1>1, <1>2, <1>4, SMTT(30) DEF TypeOK, TargVoltage, Limits, Supplies, CLAMP, Least
<1>5. QED
  BY <1>3, <1>4, Zenon

(* The state after the regulator and the arbiters are initialised satisfies  *)
(* the invariant.                                                            *)
LEMMA InitEstablishes == Init => DvfsInv
<1> SUFFICES ASSUME Init PROVE DvfsInv
  BY Zenon
<1>1. TypeOK
  BY DvfsAssumption, Zenon DEF Init, InitArbMaxVoltage, InitVoltagePPM, InitAiclkPPM,
     TypeOK, Limits, Supplies, Clocks
<1>2. QED
  BY <1>1, Zenon DEF Init, InitVoltagePPM, InitAiclkPPM, DvfsInv, InPass, ResetSafeClock

(* Every step keeps the invariant: a pass step by step, then the callers.    *)
LEMMA StepPreserves == DvfsInv /\ [Next]_vars => DvfsInv'
<1> SUFFICES ASSUME DvfsInv, [Next]_vars PROVE DvfsInv'
  BY Zenon
<1> USE DEF chip, requests, forces, targets, clock, supply
<1>1. CASE Calculate
  <2>. PICK t \in Fmin..Fmax : \E f \in Wanted(t) :
         targ_freq' = Capped(f) /\ targ_voltage' = TargVoltage(Capped(f))
    BY <1>1, Zenon DEF Calculate
  <2>1. PICK f \in Wanted(t) :
          targ_freq' = Capped(f) /\ targ_voltage' = TargVoltage(Capped(f))
    BY Zenon
  <2>2. targ_freq' \in Clocks /\ (reset_safe => targ_freq' <= ResetSafe)
    BY <2>1, TargetClock, Zenon DEF DvfsInv
  <2>3. /\ targ_voltage' \in Limits
        /\ dvfs_enabled /\ forced_voltage = 0
             => targ_voltage' >= Least(aiclk_voltage(targ_freq'), VddMax)
    BY <2>1, <2>2, TargetVoltage, Zenon DEF DvfsInv
  <2>4. TypeOK'
    BY <1>1, <2>2, <2>3, Zenon DEF DvfsInv, TypeOK, Calculate, Limits
  <2>5. QED
    BY <1>1, <2>2, <2>3, <2>4, Zenon DEF DvfsInv, Calculate, InPass, ResetSafeClock,
       aiclk_voltage
<1>2. CASE DecreaseAiclk
  <2>1. TypeOK'
    BY <1>2, Zenon DEF DvfsInv, TypeOK, DecreaseAiclk, SetClock, Limits
  <2>2. curr_freq' <= targ_freq'
    BY <1>2, Ranges, SMTT(30) DEF DvfsInv, TypeOK, DecreaseAiclk, SetClock, Clocks
  <2>3. QED
    BY <1>2, <2>1, <2>2, Zenon DEF DvfsInv, DecreaseAiclk, SetClock, InPass,
       ResetSafeClock, aiclk_voltage
<1>3. CASE VoltageChange
  <2>1. TypeOK'
    <3>1. vcore' \in Supplies
      BY <1>3, Zenon DEF DvfsInv, TypeOK, VoltageChange, Limits
    <3>2. QED
      BY <1>3, <3>1, Zenon DEF DvfsInv, TypeOK, VoltageChange, Limits
  <2>2. QED
    BY <1>3, <2>1, Zenon DEF DvfsInv, VoltageChange, InPass, ResetSafeClock, aiclk_voltage
<1>4. CASE IncreaseAiclk
  <2>1. TypeOK'
    BY <1>4, Zenon DEF DvfsInv, TypeOK, IncreaseAiclk, SetClock, Limits
  <2>2. ResetSafeClock'
    <3>1. CASE reset_safe /\ dvfs_enabled
      <4>1. targ_freq <= ResetSafe /\ curr_freq <= targ_freq /\ pll = curr_freq
        BY <1>4, <3>1, Zenon DEF DvfsInv, IncreaseAiclk, InPass
      <4>2. pll' <= ResetSafe
        BY <1>4, <4>1, Ranges, SMTT(30) DEF DvfsInv, TypeOK, Clocks, IncreaseAiclk, SetClock
      <4>3. QED
        BY <4>2, Zenon DEF ResetSafeClock
    <3>2. CASE ~(reset_safe /\ dvfs_enabled)
      BY <1>4, <3>2, Zenon DEF IncreaseAiclk, ResetSafeClock
    <3>3. QED
      BY <3>1, <3>2, Zenon
  <2>3. QED
    BY <1>4, <2>1, <2>2, Zenon DEF DvfsInv, IncreaseAiclk, SetClock, InPass
<1>5. CASE dvfs_work_handler
  BY <1>5, Zenon DEF DvfsInv, dvfs_work_handler, TypeOK, Limits, InPass, ResetSafeClock
<1>6. CASE TileResetBegins \/ TileResetEnds
  <2>1. /\ UNCHANGED <<chip, requests, forces, targets, clock, supply, asked>>
        /\ pc' = "calculate"
    BY <1>6, Zenon DEF TileResetBegins, TileResetEnds
  <2>2. reset_safe' \in BOOLEAN
    BY <1>6, Zenon DEF TileResetBegins, TileResetEnds
  <2>3. TypeOK'
    BY <2>1, <2>2, Zenon DEF DvfsInv, TypeOK, Limits
  <2>4. QED
    BY <2>1, <2>3, Zenon DEF DvfsInv, InPass, ResetSafeClock
<1>7. ASSUME NEW f \in Clocks \cup {0}, ForceAiclk(f) PROVE DvfsInv'
  <2>1. TypeOK'
    BY <1>7, Ranges, Zenon DEF DvfsInv, TypeOK, ForceAiclk, Limits, Clocks
  <2>2. QED
    BY <1>7, <2>1, Zenon DEF DvfsInv, ForceAiclk, InPass, ResetSafeClock
<1>8. ASSUME NEW v \in Supplies \cup {0}, ForceVdd(v) PROVE DvfsInv'
  <2>1. TypeOK'
    BY <1>8, DvfsAssumption, Zenon DEF DvfsInv, TypeOK, ForceVdd, Limits
  <2>2. QED
    BY <1>8, <2>1, Zenon DEF DvfsInv, ForceVdd, InPass, ResetSafeClock
<1>9. ASSUME NEW b \in BOOLEAN, aiclk_busy_handler(b) \/ apply_power_settings(b)
      PROVE  DvfsInv'
  <2>1. last_msg_busy' \in BOOLEAN /\ max_ai_clk' \in BOOLEAN
    BY <1>9, Zenon DEF DvfsInv, TypeOK, aiclk_busy_handler, apply_power_settings
  <2>2. /\ UNCHANGED <<host_fmax, host_requested_fmin, sweep, Rest>>
        /\ pc = "idle"
    BY <1>9, Zenon DEF aiclk_busy_handler, apply_power_settings
  <2>3. TypeOK'
    BY <2>1, <2>2, Zenon DEF DvfsInv, Rest, TypeOK, Limits
  <2>4. QED
    BY <2>2, <2>3, Zenon DEF DvfsInv, Rest, InPass, ResetSafeClock
<1>10. ASSUME NEW f \in Clocks \cup {0}, set_arb_host_fmax_handler(f) PROVE DvfsInv'
  <2>1. host_fmax' \in (Fmin..Fmax) \cup {0}
    BY <1>10, Ranges, SMTT(30) DEF set_arb_host_fmax_handler, CLAMP, Least, Clocks
  <2>2. QED
    BY <1>10, <2>1, Zenon DEF DvfsInv, set_arb_host_fmax_handler, Rest, TypeOK, Limits,
       InPass, ResetSafeClock
<1>11. ASSUME NEW f \in Clocks \cup {0}, handle_char_set_host_fmin(f) PROVE DvfsInv'
  BY <1>11, Zenon DEF DvfsInv, handle_char_set_host_fmin, Rest, TypeOK, Limits, InPass,
     ResetSafeClock
<1>12. CASE SweepStop \/ \E low, high \in Clocks : SweepAiclkHandler(low, high)
  <2>1. sweep' \in SUBSET (Fmin..Fmax)
    BY <1>12, Ranges, SMTT(30) DEF SweepStop, SweepAiclkHandler, Greatest, Least, Clocks
  <2>2. pc = "idle" /\ UNCHANGED <<last_msg_busy, max_ai_clk, host_fmax, host_requested_fmin, Rest>>
    BY <1>12, Zenon DEF SweepStop, SweepAiclkHandler
  <2>3. QED
    BY <2>1, <2>2, Zenon DEF DvfsInv, Rest, TypeOK, Limits, InPass, ResetSafeClock
<1>13. CASE UNCHANGED vars
  BY <1>13, SMTT(30) DEF vars, DvfsInv, TypeOK, Limits, InPass, ResetSafeClock, aiclk_voltage
<1>14. QED
  BY <1>1, <1>2, <1>3, <1>4, <1>5, <1>6, <1>7, <1>8, <1>9, <1>10, <1>11, <1>12, Zenon,
     <1>13 DEF Next, DVFSChange

(* So the invariant holds in every reachable state.                          *)
LEMMA Invariant == Spec => []DvfsInv
<1>1. Init => DvfsInv
  BY InitEstablishes, Zenon
<1>2. DvfsInv /\ [Next]_vars => DvfsInv'
  BY StepPreserves, Zenon
<1>3. QED
  BY <1>1, <1>2, PTL DEF Spec

(* Types and ranges: with DVFS enabled every voltage the firmware sets, a    *)
(* forced one included, is within the limits of the board's table.           *)
THEOREM DvfsTypeCorrect == Spec => []TypeOK
<1>1. DvfsInv => TypeOK
  BY Zenon DEF DvfsInv
<1>2. QED
  BY <1>1, Invariant, PTL

(* Tiles are reset at or below the reset-safe clock, whatever the host       *)
(* forces, sweeps or sets as a floor (SetAiclkResetSafe and the last lines   *)
(* of CalculateTargAiclk).                                                   *)
THEOREM TilesResetSafely == Spec => []ResetSafeClock
<1>1. DvfsInv => ResetSafeClock
  BY Zenon DEF DvfsInv
<1>2. QED
  BY <1>1, Invariant, PTL

(* One step of DVFSChange never leaves the clock above what the supply is    *)
(* enough for.                                                               *)
LEMMA StepLeads == DvfsInv /\ [Next]_vars => [LeadStep]_vars
<1> SUFFICES ASSUME DvfsInv, Next, dvfs_enabled, forced_voltage = 0,
                    pll' > pll \/ vcore' < vcore
             PROVE  Enough(vcore', pll')
  BY Zenon DEF LeadStep
<1> USE DEF chip, requests, forces, targets, clock, supply
<1>1. pll \in Nat /\ vcore \in Nat /\ curr_freq \in Nat /\ targ_freq \in Clocks
      /\ targ_freq \in Nat /\ targ_voltage \in Nat /\ VddMax \in Nat
  BY Ranges, DvfsAssumption, SMTT(30) DEF DvfsInv, TypeOK, Clocks, Limits, Supplies
<1>2. DecreaseAiclk \/ VoltageChange \/ IncreaseAiclk
  <2>1. CASE UNCHANGED <<pll, vcore>>
    BY <1>1, <2>1, SMTT(30)
  <2>2. CASE ~UNCHANGED <<pll, vcore>>
    BY <2>2, Zenon DEF Next, DVFSChange, Calculate, dvfs_work_handler, TileResetBegins,
       TileResetEnds, SweepStop, ForceAiclk, ForceVdd, set_arb_host_fmax_handler,
       handle_char_set_host_fmin, aiclk_busy_handler, apply_power_settings,
       SweepAiclkHandler, Rest
  <2>3. QED
    BY <2>1, <2>2, Zenon
<1>3. targ_voltage >= Least(aiclk_voltage(targ_freq), VddMax)
  BY <1>2, Zenon DEF DvfsInv, InPass, DecreaseAiclk, VoltageChange, IncreaseAiclk
<1>4. pll' <= targ_freq /\ vcore' = targ_voltage
  <2>1. ~DecreaseAiclk
    <3>. SUFFICES ASSUME DecreaseAiclk PROVE FALSE
      BY Zenon
    <3>1. vcore' = vcore /\ pll = curr_freq
      BY Zenon DEF DvfsInv, DecreaseAiclk
    <3>2. pll' <= pll
      BY <1>1, <3>1, SMTT(30) DEF DecreaseAiclk, SetClock
    <3>3. pll' \in Nat
      BY <1>1, <3>1, Zenon DEF DecreaseAiclk, SetClock
    <3>4. QED
      BY <1>1, <3>1, <3>2, <3>3, SMTT(30)
  <2>2. CASE VoltageChange
    BY <1>1, <2>2, Zenon DEF DvfsInv, VoltageChange
  <2>3. CASE IncreaseAiclk
    BY <1>1, <2>3, SMTT(30) DEF DvfsInv, IncreaseAiclk, SetClock
  <2>4. QED
    BY <1>2, <2>1, <2>2, <2>3, Zenon
<1>5. vf' = vf /\ targ_freq \in Clocks
  BY <1>1, <1>2, Zenon DEF DecreaseAiclk, VoltageChange, IncreaseAiclk
<1>6. QED
  BY <1>1, <1>3, <1>4, <1>5, Zenon DEF Enough, aiclk_voltage

(* No step of the firmware that raises the clock or lowers the supply leaves *)
(* the chip with a clock its supply is not enough for: the order of          *)
(* DecreaseAiclk, VoltageChange and IncreaseAiclk in DVFSChange.             *)
THEOREM VoltageLeads == Spec => VoltageLeadsClock
<1>1. DvfsInv /\ [Next]_vars => [LeadStep]_vars
  BY StepLeads, Zenon
<1>2. QED
  BY <1>1, Invariant, PTL DEF Spec, VoltageLeadsClock
-----------------------------------------------------------------------------
(* The throttlers.                                                            *)

(* A sum below twice the modulus is reduced by at most one subtraction.      *)
LEMMA ModOnce ==
  ASSUME NEW W \in Nat, W > 0, NEW x \in Nat, x < 2 * W
  PROVE  x % W = IF x < W THEN x ELSE x - W
  BY SMTT(30)

(* Differences on the wrapping clock: their value, and that they fit it.     *)
LEMMA ThSubValue ==
  ASSUME NEW a \in 0 .. ThWrap - 1, NEW b \in 0 .. ThWrap - 1
  PROVE  ThSub(a, b) = IF a >= b THEN a - b ELSE a + ThWrap - b
<1>1. ThWrap \in Nat /\ ThWrap > 0 /\ a \in Nat /\ b \in Nat /\ a < ThWrap /\ b < ThWrap
  BY ThAssumption, SMTT(30)
<1>2. a + ThWrap - b \in Nat /\ a + ThWrap - b < 2 * ThWrap
  BY <1>1, SMTT(30)
<1>3. (a + ThWrap - b) % ThWrap
        = IF a + ThWrap - b < ThWrap THEN a + ThWrap - b ELSE a + ThWrap - b - ThWrap
  BY <1>1, <1>2, ModOnce, SMTT(30)
<1> QED
  BY <1>1, <1>3, SMTT(30) DEF ThSub

(* A difference fits the clock's width.                                      *)
LEMMA ThSubType ==
  ASSUME NEW a \in 0 .. ThWrap - 1, NEW b \in 0 .. ThWrap - 1
  PROVE  ThSub(a, b) \in 0 .. ThWrap - 1
<1>1. ThWrap \in Nat /\ ThWrap > 0
  BY ThAssumption, SMTT(30)
<1> QED
  BY <1>1, ThSubValue, SMTT(30)

(* Sums on the wrapping clock.                                               *)
LEMMA ThAddValue ==
  ASSUME NEW a \in 0 .. ThWrap - 1, NEW b \in 0 .. ThWrap - 1
  PROVE  (a + b) % ThWrap = IF a + b < ThWrap THEN a + b ELSE a + b - ThWrap
<1>1. ThWrap \in Nat /\ ThWrap > 0 /\ a \in Nat /\ b \in Nat /\ a < ThWrap /\ b < ThWrap
  BY ThAssumption, SMTT(30)
<1>2. a + b \in Nat /\ a + b < 2 * ThWrap
  BY <1>1, SMTT(30)
<1> QED
  BY <1>1, <1>2, ModOnce, SMTT(30)

-----------------------------------------------------------------------------
(* The time banked since the last sample is the time NOPs were really on.    *)
ThBanked ==
  /\ th_real.on <= th_real.age
  /\ ThSub(GetNOPOnAccumulatedTime, th_time.prev) = th_real.on
  /\ th_exact = TRUE

ThIInv == ThTypeOK /\ ThTensixesKnow /\ ThBanked

(* Throwing the switch moves the counter to the parity of the new state,     *)
(* tells the Tensixes that are enabled, and keeps the accumulated time.      *)
LEMMA SwitchKeeps ==
  ASSUME ThTypeOK, ThTensixesKnow, NEW b \in BOOLEAN, ThSwitch(b), UNCHANGED th_tens
  PROVE  /\ th_nops' = b /\ th_ctr' \in 0 .. ThCtrWrap - 1 /\ th_seen' \in 0 .. ThCtrWrap - 1
         /\ th_time' \in [now : 0 .. ThWrap - 1, since : 0 .. ThWrap - 1, accum : 0 .. ThWrap - 1,
                          prev : 0 .. ThWrap - 1, seeded : BOOLEAN]
         /\ (th_ctr' % 2 = 1) = th_nops' /\ (th_tens' => th_seen' = th_ctr')
         /\ GetNOPOnAccumulatedTime' = GetNOPOnAccumulatedTime
         /\ th_time'.prev = th_time.prev /\ th_time'.now = th_time.now
<1>1. CASE b = th_nops
  BY <1>1, Zenon DEF ThSwitch, ThTypeOK, ThTensixesKnow, GetNOPOnAccumulatedTime, ThSub
<1>2. CASE b # th_nops
  <2> DEFINE c == (th_ctr + 1) % ThCtrWrap
  <2>1. SendKernelThrottlingMessage(b) /\ th_nops' = b
    BY <1>2, Zenon DEF ThSwitch
  <2>2. c = IF th_ctr + 1 = ThCtrWrap THEN 0 ELSE th_ctr + 1
    BY ThAssumption, ModOnce, SMTT(30) DEF ThTypeOK
  <2>3. c \in 0 .. ThCtrWrap - 1 /\ (c % 2 = 1) = b
    BY <1>2, <2>2, ThAssumption, SMTT(30) DEF ThTypeOK, ThTensixesKnow
  <2>4. th_ctr' = c /\ BroadcastKernelThrottleState(th_tens, c)
    BY <2>1, <2>3, Zenon DEF SendKernelThrottlingMessage
  <2>5. /\ th_seen' \in 0 .. ThCtrWrap - 1 /\ (th_tens' => th_seen' = th_ctr')
    BY <2>3, <2>4, Zenon DEF BroadcastKernelThrottleState, ThTypeOK
  <2>6. /\ th_time.now \in 0 .. ThWrap - 1 /\ th_time.since \in 0 .. ThWrap - 1
        /\ th_time.accum \in 0 .. ThWrap - 1 /\ th_time.prev \in 0 .. ThWrap - 1
        /\ th_time.seeded \in BOOLEAN /\ ThWrap \in Nat /\ ThWrap > 0
    BY ThAssumption, SMTT(30) DEF ThTypeOK
  <2>7. CASE b = TRUE
    <3>1. th_time' = [th_time EXCEPT !.since = th_time.now]
      BY <2>1, <2>7, Zenon DEF SendKernelThrottlingMessage
    <3>2. ThSub(th_time.now, th_time.now) = 0
      BY <2>6, ThSubValue, SMTT(30)
    <3>3. (th_time.accum + 0) % ThWrap = th_time.accum
      BY <2>6, ThAddValue, SMTT(30)
    <3>4. /\ th_time'.now = th_time.now /\ th_time'.since = th_time.now
          /\ th_time'.accum = th_time.accum /\ th_time'.prev = th_time.prev
      BY <3>1, Zenon DEF ThTypeOK
    <3>5. GetNOPOnAccumulatedTime' = (th_time.accum + ThSub(th_time.now, th_time.now)) % ThWrap
      BY <2>1, <2>7, <3>4, Zenon DEF GetNOPOnAccumulatedTime, ThSub
    <3>6. GetNOPOnAccumulatedTime = th_time.accum
      BY <1>2, <2>7, Zenon DEF GetNOPOnAccumulatedTime, ThTypeOK
    <3> QED
      BY <2>1, <2>3, <2>4, <2>5, <2>6, <3>1, <3>2, <3>3, <3>4, <3>5, <3>6, Zenon DEF ThTypeOK
  <2>8. CASE b = FALSE
    <3> DEFINE acc == (th_time.accum + ThSub(th_time.now, th_time.since)) % ThWrap
    <3>1. th_time' = [th_time EXCEPT !.accum = acc]
      BY <2>1, <2>8, Zenon DEF SendKernelThrottlingMessage
    <3>2. ThSub(th_time.now, th_time.since) \in 0 .. ThWrap - 1
      BY <2>6, ThSubType, Zenon
    <3>3. acc \in 0 .. ThWrap - 1
      BY <2>6, <3>2, ThAddValue, SMTT(30)
    <3>4. GetNOPOnAccumulatedTime = acc
      BY <1>2, <2>8, Zenon DEF GetNOPOnAccumulatedTime, ThTypeOK
    <3>5. GetNOPOnAccumulatedTime' = acc
      BY <2>1, <2>8, <3>1, Zenon DEF GetNOPOnAccumulatedTime, ThTypeOK
    <3> QED
      BY <2>1, <2>3, <2>4, <2>5, <2>6, <3>1, <3>3, <3>4, <3>5, Zenon DEF ThTypeOK
  <2> QED
    BY <2>7, <2>8, Zenon
<1> QED
  BY <1>1, <1>2, Zenon

(* The parts of the invariant an action keeps that leaves the clock and the  *)
(* history alone and at most throws the switch.                              *)
LEMMA SwitchBanked ==
  ASSUME ThIInv, NEW b \in BOOLEAN, ThSwitch(b), UNCHANGED <<th_tens, th_real, th_exact>>
  PROVE  ThTensixesKnow' /\ ThBanked'
<1>1. /\ th_nops' = b /\ (th_ctr' % 2 = 1) = th_nops' /\ (th_tens' => th_seen' = th_ctr')
      /\ GetNOPOnAccumulatedTime' = GetNOPOnAccumulatedTime
      /\ th_time'.prev = th_time.prev
  BY SwitchKeeps, Zenon DEF ThIInv
<1> QED
  BY <1>1, Zenon DEF ThIInv, ThTensixesKnow, ThBanked, ThSub

-----------------------------------------------------------------------------
(* Initially nothing was throttled and nothing banked.                       *)
LEMMA ThInitInv == ThInit => ThIInv
<1> SUFFICES ASSUME ThInit PROVE ThIInv
  BY Zenon
<1>1. 0 \in 0 .. ThWrap - 1 /\ 0 \in 0 .. ThCtrWrap - 1 /\ 0 \in 0 .. ThSat /\ 0 \in 0 .. ThLate
  BY ThAssumption, SMTT(30)
<1>2. ThSub(0, 0) = 0
  BY <1>1, ThSubValue, SMTT(30)
<1>3. ThTypeOK
  <2>1. {th_dop, th_limit, th_on, th_nops, th_tens, th_crit} \subseteq BOOLEAN
    BY Zenon DEF ThInit
  <2>2. th_env \in [targ : 1 .. 3, power : 0 .. 4] /\ th_stop \in 0 .. 2 /\ th_deflt \in 0 .. 2
    BY SMTT(30) DEF ThInit
  <2> QED
    BY <1>1, <2>1, <2>2, Zenon DEF ThInit, ThTypeOK
<1>4. ThTensixesKnow
  <2>1. (0 % 2 = 1) = FALSE
    BY SMTT(30)
  <2> QED
    BY <2>1, Zenon DEF ThInit, ThTensixesKnow
<1>5. ThBanked
  BY <1>1, <1>2, SMTT(30) DEF ThInit, ThBanked, GetNOPOnAccumulatedTime
<1> QED
  BY <1>3, <1>4, <1>5, Zenon DEF ThIInv

(* A sample counter stays below its saturation.                              *)
LEMMA ThCountType ==
  ASSUME NEW n \in 0 .. ThSat, NEW over \in BOOLEAN
  PROVE  ThCount(n, over) \in 0 .. ThSat
  BY ThAssumption, SMTT(30) DEF ThCount

(* The DVFS timer's pass over both controllers.                              *)
LEMMA CalculateKeeps == ASSUME ThIInv, CalculateThrottlers PROVE ThIInv'
<1>1. /\ UNCHANGED <<th_dop, th_limit, th_env, th_on, th_stop, th_deflt, th_tens, th_real, th_exact>>
      /\ \E b \in BOOLEAN : ThSwitch(b)
      /\ th_t2' \in 0 .. ThSat /\ th_t3' \in 0 .. ThSat /\ th_crit' \in BOOLEAN
  <2>1. CASE DopplerActive
    <3> DEFINE t2 == ThCount(th_t2, th_env.power >= 3)
               t3 == ThCount(th_t3, th_env.power >= 4)
               critical == t2 >= ThT2 \/ t3 >= ThT3
               start == th_env.targ = 1 /\ th_env.power >= 2
               stop == th_env.targ = 3 /\ th_env.power = 0
    <3>1. t2 \in 0 .. ThSat /\ t3 \in 0 .. ThSat
      <4>1. /\ (th_env.power >= 3) \in BOOLEAN /\ (th_env.power >= 4) \in BOOLEAN
            /\ th_t2 \in 0 .. ThSat /\ th_t3 \in 0 .. ThSat
        BY SMTT(30) DEF ThIInv, ThTypeOK
      <4> QED
        BY <4>1, ThCountType, Zenon
    <3>2. th_t2' = t2 /\ th_t3' = t3 /\ th_crit' = critical
          /\ ThSwitch(((th_nops \/ start) /\ ~stop) \/ critical)
      BY <2>1, Zenon DEF CalculateThrottlers, UpdateDoppler
    <3>3. critical \in BOOLEAN /\ (((th_nops \/ start) /\ ~stop) \/ critical) \in BOOLEAN
      BY Zenon
    <3> HIDE DEF t2, t3, critical, start, stop
    <3>4. \E b \in BOOLEAN : ThSwitch(b)
      BY <3>2, <3>3, Zenon
    <3> QED
      BY <3>1, <3>2, <3>3, <3>4, Zenon DEF CalculateThrottlers
  <2>2. CASE ~DopplerActive
    <3> DEFINE stop_freq == IF th_stop = 0 THEN 1 ELSE th_stop
               start == th_on /\ th_env.targ = 1 /\ th_env.power >= 2
               stop == th_on /\ th_env.targ >= stop_freq /\ th_env.power = 0
    <3>1. ThSwitch((th_nops \/ start) /\ ~stop) /\ UNCHANGED <<th_t2, th_t3, th_crit>>
      BY <2>2, Zenon DEF CalculateThrottlers, UpdateKernelThrottler
    <3>2. ((th_nops \/ start) /\ ~stop) \in BOOLEAN
      BY Zenon
    <3> HIDE DEF stop_freq, start, stop
    <3>3. \E b \in BOOLEAN : ThSwitch(b)
      BY <3>1, <3>2, Zenon
    <3> QED
      BY <3>1, <3>3, Zenon DEF CalculateThrottlers, ThIInv, ThTypeOK
  <2> QED
    BY <2>1, <2>2, Zenon
<1>2. PICK b \in BOOLEAN : ThSwitch(b)
  BY <1>1, Zenon
<1>3. ThTensixesKnow' /\ ThBanked'
  BY <1>1, <1>2, SwitchBanked, Zenon
<1>4. /\ th_nops' = b /\ th_ctr' \in 0 .. ThCtrWrap - 1 /\ th_seen' \in 0 .. ThCtrWrap - 1
      /\ th_time' \in [now : 0 .. ThWrap - 1, since : 0 .. ThWrap - 1, accum : 0 .. ThWrap - 1,
                       prev : 0 .. ThWrap - 1, seeded : BOOLEAN]
  BY <1>1, <1>2, SwitchKeeps, Zenon DEF ThIInv
<1>5. ThTypeOK'
  BY <1>1, <1>4, Zenon DEF ThIInv, ThTypeOK
<1> QED
  BY <1>3, <1>5, Zenon DEF ThIInv

(* A millisecond: the accumulated time moves on by one exactly while NOPs    *)
(* are on.                                                                   *)
LEMMA TickKeeps == ASSUME ThIInv, ThTick PROVE ThIInv'
<1> DEFINE W == ThWrap
           now == th_time.now
           since == th_time.since
           accum == th_time.accum
           prev == th_time.prev
<1>1. /\ now \in 0 .. W - 1 /\ since \in 0 .. W - 1 /\ accum \in 0 .. W - 1 /\ prev \in 0 .. W - 1
      /\ W \in Nat /\ W > 0
  BY ThAssumption, SMTT(30) DEF ThIInv, ThTypeOK
<1>2. /\ th_time' = [th_time EXCEPT !.now = (now + 1) % W]
      /\ th_nops' = th_nops /\ th_ctr' = th_ctr /\ th_seen' = th_seen /\ th_tens' = th_tens
      /\ th_exact' = th_exact /\ th_real.age < ThLate
      /\ th_real' = [on |-> th_real.on + (IF th_nops THEN 1 ELSE 0), age |-> th_real.age + 1]
  BY Zenon DEF ThTick
<1>3. (now + 1) % W = IF now + 1 = W THEN 0 ELSE now + 1
  BY <1>1, ModOnce, SMTT(30)
<1>4. /\ th_time'.now = (now + 1) % W /\ th_time'.since = since
      /\ th_time'.accum = accum /\ th_time'.prev = prev
      /\ th_time' \in [now : 0 .. W - 1, since : 0 .. W - 1, accum : 0 .. W - 1,
                       prev : 0 .. W - 1, seeded : BOOLEAN]
  <2>1. (now + 1) % W \in 0 .. W - 1
    BY <1>1, <1>3, SMTT(30)
  <2> QED
    BY <1>2, <2>1, Zenon DEF ThIInv, ThTypeOK
<1>5. th_real'.on <= th_real'.age /\ th_real' \in [on : 0 .. ThLate, age : 0 .. ThLate]
  BY <1>2, ThAssumption, SMTT(30) DEF ThIInv, ThTypeOK, ThBanked
<1>6. ThSub(GetNOPOnAccumulatedTime', prev) = th_real'.on
  <2>1. CASE ~th_nops
    <3>1. GetNOPOnAccumulatedTime' = accum /\ GetNOPOnAccumulatedTime = accum
      BY <1>2, <1>4, <2>1, Zenon DEF GetNOPOnAccumulatedTime
    <3>2. th_real'.on = th_real.on
      BY <1>2, <2>1, SMTT(30) DEF ThIInv, ThTypeOK
    <3> QED
      BY <3>1, <3>2, Zenon DEF ThIInv, ThBanked
  <2>2. CASE th_nops
    <3> DEFINE d == ThSub(now, since)
               d1 == ThSub((now + 1) % W, since)
               a == (accum + d) % W
               a1 == (accum + d1) % W
    <3>1. GetNOPOnAccumulatedTime' = a1 /\ GetNOPOnAccumulatedTime = a
      BY <1>2, <1>4, <2>2, Zenon DEF GetNOPOnAccumulatedTime
    <3>2. (now + 1) % W \in 0 .. W - 1
      BY <1>1, <1>3, SMTT(30)
    <3>3. /\ d = IF now >= since THEN now - since ELSE now + W - since
          /\ d1 = IF (now + 1) % W >= since THEN ((now + 1) % W) - since ELSE ((now + 1) % W) + W - since
          /\ d \in 0 .. W - 1 /\ d1 \in 0 .. W - 1
      BY <1>1, <3>2, ThSubValue, ThSubType, Zenon
    <3>4. d1 = IF d + 1 = W THEN 0 ELSE d + 1
      BY <1>1, <1>3, <3>3, SMTT(30)
    <3> HIDE DEF d, d1
    <3>5. /\ a = IF accum + d < W THEN accum + d ELSE accum + d - W
          /\ a1 = IF accum + d1 < W THEN accum + d1 ELSE accum + d1 - W
      BY <1>1, <3>3, ThAddValue, Zenon
    <3> HIDE DEF a, a1
    <3>6. a \in 0 .. W - 1 /\ a1 = IF a + 1 = W THEN 0 ELSE a + 1
      <4>1. /\ d \in Nat /\ d < W /\ d1 \in Nat /\ d1 < W /\ accum \in Nat /\ accum < W
            /\ W \in Nat /\ W > 0
        BY <1>1, <3>3, SMTT(30)
      <4>2. a \in Nat /\ a < W
        BY <3>5, <4>1, SMTT(30)
      <4>3. CASE d + 1 = W
        <5>1. d1 = 0 /\ a1 = accum
          BY <3>4, <3>5, <4>1, <4>3, SMTT(30)
        <5>2. a = IF accum = 0 THEN W - 1 ELSE accum - 1
          BY <3>5, <4>1, <4>3, SMTT(30)
        <5> QED
          BY <4>1, <4>2, <5>1, <5>2, SMTT(30)
      <4>4. CASE d + 1 # W
        <5>1. d1 = d + 1
          BY <3>4, <4>4, Zenon
        <5> QED
          BY <3>5, <4>1, <4>2, <5>1, SMTT(30)
      <4> QED
        BY <4>3, <4>4, Zenon
    <3>7. /\ ThSub(a, prev) = IF a >= prev THEN a - prev ELSE a + W - prev
          /\ ThSub(a1, prev) = IF a1 >= prev THEN a1 - prev ELSE a1 + W - prev
      <4>1. a1 \in 0 .. W - 1
        BY <1>1, <3>6, SMTT(30)
      <4> QED
        BY <1>1, <3>6, <4>1, ThSubValue, Zenon
    <3>8. ThSub(a, prev) = th_real.on /\ th_real.on < ThLate /\ th_real.on \in Nat
      <4>1. ThSub(a, prev) = th_real.on
        BY <3>1, Zenon DEF ThIInv, ThBanked
      <4>2. /\ th_real.on <= th_real.age /\ th_real.age < ThLate
            /\ th_real.on \in 0 .. ThLate /\ th_real.age \in 0 .. ThLate
        BY <1>2, Zenon DEF ThIInv, ThBanked, ThTypeOK
      <4> QED
        BY <4>1, <4>2, ThAssumption, SMTT(30)
    <3>9. th_real'.on = th_real.on + 1
      BY <1>2, <2>2, Zenon
    <3>10. ThSub(a1, prev) = th_real.on + 1
      BY <1>1, <3>6, <3>7, <3>8, ThAssumption, SMTT(30)
    <3> QED
      BY <3>1, <3>9, <3>10, Zenon
  <2> QED
    BY <2>1, <2>2, Zenon
<1>7. ThBanked'
  BY <1>2, <1>4, <1>5, <1>6, Zenon DEF ThIInv, ThBanked, ThSub
<1>8. ThTensixesKnow'
  BY <1>2, Zenon DEF ThIInv, ThTensixesKnow
<1>9. ThTypeOK'
  <2>1. th_env' \in [targ : 1 .. 3, power : 0 .. 4]
    BY ThAssumption, Zenon DEF ThTick
  <2> QED
    BY <1>4, <1>5, <2>1, Zenon DEF ThTick, ThIInv, ThTypeOK
<1> QED
  BY <1>7, <1>8, <1>9, Zenon DEF ThIInv

(* The host turns the floor's controller on or off.                          *)
LEMMA EnableKeeps ==
  ASSUME ThIInv, NEW enabled \in BOOLEAN, ThrottlerSetKernelThrottlerEnabled(enabled)
  PROVE  ThIInv'
<1>1. /\ UNCHANGED <<th_dop, th_limit, th_env, th_stop, th_deflt, th_tens, th_t2, th_t3, th_crit,
                     th_real, th_exact>>
      /\ th_on' \in BOOLEAN
  BY Zenon DEF ThrottlerSetKernelThrottlerEnabled
<1>2. CASE ~enabled /\ th_nops
  <2>1. ThSwitch(FALSE) /\ FALSE \in BOOLEAN
    BY <1>2, Zenon DEF ThrottlerSetKernelThrottlerEnabled
  <2>2. ThTensixesKnow' /\ ThBanked'
    BY <1>1, <2>1, SwitchBanked, Zenon
  <2>3. /\ th_nops' = FALSE /\ th_ctr' \in 0 .. ThCtrWrap - 1 /\ th_seen' \in 0 .. ThCtrWrap - 1
        /\ th_time' \in [now : 0 .. ThWrap - 1, since : 0 .. ThWrap - 1, accum : 0 .. ThWrap - 1,
                         prev : 0 .. ThWrap - 1, seeded : BOOLEAN]
    BY <1>1, <2>1, SwitchKeeps, Zenon DEF ThIInv
  <2>4. ThTypeOK'
    BY <1>1, <2>3, Zenon DEF ThIInv, ThTypeOK
  <2> QED
    BY <2>2, <2>4, Zenon DEF ThIInv
<1>3. CASE ~(~enabled /\ th_nops)
  <2>1. UNCHANGED <<th_nops, th_ctr, th_seen, th_time>>
    BY <1>3, Zenon DEF ThrottlerSetKernelThrottlerEnabled
  <2>2. GetNOPOnAccumulatedTime' = GetNOPOnAccumulatedTime
    BY <2>1, Zenon DEF GetNOPOnAccumulatedTime, ThSub
  <2>3. ThTensixesKnow' /\ ThBanked'
    BY <1>1, <2>1, <2>2, Zenon DEF ThIInv, ThTensixesKnow, ThBanked, ThSub
  <2>4. ThTypeOK'
    BY <1>1, <2>1, Zenon DEF ThIInv, ThTypeOK
  <2> QED
    BY <2>3, <2>4, Zenon DEF ThIInv
<1> QED
  BY <1>2, <1>3, Zenon

(* The stop frequency, the board's limit and the Tensixes' power state.      *)
LEMMA SettingsKeep ==
  ASSUME ThIInv,
         \/ \E f \in ThStops : ThrottlerSetKernelThrottlerStopFreq(f)
         \/ Dm2CmSetBoardPowerLimit
         \/ \E b \in BOOLEAN : doppler_tensix_state_callback(b)
  PROVE  ThIInv'
<1>1. /\ UNCHANGED <<th_dop, th_env, th_on, th_deflt, th_nops, th_ctr, th_t2, th_t3, th_crit,
                     th_time, th_real, th_exact>>
      /\ th_limit' \in BOOLEAN /\ th_tens' \in BOOLEAN /\ th_stop' \in 0 .. 2
      /\ th_seen' \in 0 .. ThCtrWrap - 1 /\ (th_tens' => th_seen' = th_ctr')
  <2>1. CASE \E f \in ThStops : ThrottlerSetKernelThrottlerStopFreq(f)
    <3>1. PICK f \in ThStops : ThrottlerSetKernelThrottlerStopFreq(f)
      BY <2>1, Zenon
    <3>2. th_stop' \in 0 .. 2
      BY <3>1, ThAssumption, SMTT(30) DEF ThrottlerSetKernelThrottlerStopFreq, ThIInv, ThTypeOK
    <3> QED
      BY <3>1, <3>2, Zenon DEF ThrottlerSetKernelThrottlerStopFreq, ThIInv, ThTypeOK, ThTensixesKnow
  <2>2. CASE Dm2CmSetBoardPowerLimit
    BY <2>2, Zenon DEF Dm2CmSetBoardPowerLimit, ThIInv, ThTypeOK, ThTensixesKnow
  <2>3. CASE \E b \in BOOLEAN : doppler_tensix_state_callback(b)
    BY <2>3, Zenon DEF doppler_tensix_state_callback, BroadcastKernelThrottleState, ThIInv, ThTypeOK,
                ThTensixesKnow
  <2> QED
    BY <2>1, <2>2, <2>3, Zenon
<1>2. GetNOPOnAccumulatedTime' = GetNOPOnAccumulatedTime
  BY <1>1, Zenon DEF GetNOPOnAccumulatedTime, ThSub
<1>3. ThBanked'
  BY <1>1, <1>2, Zenon DEF ThIInv, ThBanked, ThSub
<1>4. ThTensixesKnow'
  BY <1>1, Zenon DEF ThIInv, ThTensixesKnow
<1>5. ThTypeOK'
  BY <1>1, Zenon DEF ThIInv, ThTypeOK
<1> QED
  BY <1>3, <1>4, <1>5, Zenon DEF ThIInv

(* A telemetry sample tells the banked time and starts anew.                 *)
LEMMA SampleKeeps == ASSUME ThIInv, GetNOPOnDuration PROVE ThIInv'
<1> DEFINE acc == GetNOPOnAccumulatedTime
<1>1. acc \in 0 .. ThWrap - 1
  <2>1. /\ th_time.now \in 0 .. ThWrap - 1 /\ th_time.since \in 0 .. ThWrap - 1
        /\ th_time.accum \in 0 .. ThWrap - 1 /\ ThWrap \in Nat /\ ThWrap > 0
    BY ThAssumption, SMTT(30) DEF ThIInv, ThTypeOK
  <2>2. ThSub(th_time.now, th_time.since) \in 0 .. ThWrap - 1
    BY <2>1, ThSubType, Zenon
  <2>3. (th_time.accum + ThSub(th_time.now, th_time.since)) % ThWrap \in 0 .. ThWrap - 1
    BY <2>1, <2>2, ThAddValue, SMTT(30)
  <2> QED
    BY <2>1, <2>3, Zenon DEF GetNOPOnAccumulatedTime
<1>2. /\ th_time' = [th_time EXCEPT !.prev = acc, !.seeded = TRUE]
      /\ th_real' = [on |-> 0, age |-> 0]
      /\ UNCHANGED <<th_dop, th_limit, th_env, th_on, th_stop, th_deflt, th_nops, th_ctr, th_tens,
                     th_seen, th_t2, th_t3, th_crit>>
  BY Zenon DEF GetNOPOnDuration
<1>3. /\ th_time'.now = th_time.now /\ th_time'.since = th_time.since
      /\ th_time'.accum = th_time.accum /\ th_time'.prev = acc
      /\ th_time' \in [now : 0 .. ThWrap - 1, since : 0 .. ThWrap - 1, accum : 0 .. ThWrap - 1,
                       prev : 0 .. ThWrap - 1, seeded : BOOLEAN]
  BY <1>1, <1>2, Zenon DEF ThIInv, ThTypeOK
<1>4. th_exact' = TRUE
  <2>1. ThSub(acc, th_time.prev) = th_real.on /\ th_exact = TRUE /\ th_real.on \in Nat
    BY SMTT(30) DEF ThIInv, ThBanked, ThTypeOK
  <2> QED
    <3> DEFINE duration == IF ~th_time.seeded /\ th_real.on > ThWindow THEN ThWindow ELSE th_real.on
    <3>1. th_exact' = (th_exact /\ duration = IF th_time.seeded \/ th_real.on <= ThWindow
                                              THEN th_real.on ELSE ThWindow)
      BY <2>1, Zenon DEF GetNOPOnDuration
    <3>2. duration = IF th_time.seeded \/ th_real.on <= ThWindow THEN th_real.on ELSE ThWindow
      BY <2>1, ThAssumption, SMTT(30)
    <3> QED
      BY <2>1, <3>1, <3>2, Zenon
<1>5. GetNOPOnAccumulatedTime' = acc
  BY <1>2, <1>3, Zenon DEF GetNOPOnAccumulatedTime, ThSub
<1>6. ThSub(acc, acc) = 0
  BY <1>1, ThSubValue, SMTT(30)
<1>7. ThBanked'
  <2> HIDE DEF acc
  <2>1. ThSub(GetNOPOnAccumulatedTime', th_time'.prev) = 0
    BY <1>3, <1>5, <1>6, Zenon
  <2> QED
    BY <1>2, <1>4, <2>1, SMTT(30) DEF ThBanked
<1>8. ThTensixesKnow'
  BY <1>2, Zenon DEF ThIInv, ThTensixesKnow
<1>9. ThTypeOK'
  <2>1. 0 \in 0 .. ThLate
    BY ThAssumption, SMTT(30)
  <2> QED
    BY <1>2, <1>3, <1>4, <2>1, Zenon DEF ThIInv, ThTypeOK
<1> QED
  BY <1>7, <1>8, <1>9, Zenon DEF ThIInv

-----------------------------------------------------------------------------
(* The invariant is inductive.                                               *)
LEMMA ThInductive == ASSUME ThIInv, [ThNext]_th_vars PROVE ThIInv'
<1>1. CASE CalculateThrottlers
  BY <1>1, CalculateKeeps, Zenon
<1>2. CASE ThTick
  BY <1>2, TickKeeps, Zenon
<1>3. CASE GetNOPOnDuration
  BY <1>3, SampleKeeps, Zenon
<1>4. CASE \E b \in BOOLEAN : ThrottlerSetKernelThrottlerEnabled(b)
  BY <1>4, EnableKeeps, Zenon
<1>5. CASE \/ \E f \in ThStops : ThrottlerSetKernelThrottlerStopFreq(f)
           \/ Dm2CmSetBoardPowerLimit
           \/ \E b \in BOOLEAN : doppler_tensix_state_callback(b)
  BY <1>5, SettingsKeep, Zenon
<1>6. CASE UNCHANGED th_vars
  <2>1. GetNOPOnAccumulatedTime' = GetNOPOnAccumulatedTime
    BY <1>6, Zenon DEF th_vars, GetNOPOnAccumulatedTime, ThSub
  <2> QED
    BY <1>6, <2>1, Zenon DEF th_vars, ThIInv, ThTypeOK, ThTensixesKnow, ThBanked, ThSub
<1> QED
  BY <1>1, <1>2, <1>3, <1>4, <1>5, <1>6, Zenon DEF ThNext

(* The invariant holds of every behaviour.                                   *)
LEMMA ThInvariant == ThSpec => []ThIInv
<1>1. ThIInv /\ [ThNext]_th_vars => ThIInv'
  BY ThInductive, Zenon
<1> QED
  BY <1>1, ThInitInv, PTL DEF ThSpec

(* The throttler's state is well typed: counters stay in their widths        *)
(* (throttler.c).                                                            *)
THEOREM ThTypeCorrect == ThSpec => []ThTypeOK
<1>1. ThIInv => ThTypeOK
  BY Zenon DEF ThIInv
<1> QED
  BY <1>1, ThInvariant, PTL

(* The Tensix kernels run at the speed the firmware believes they run at:    *)
(* the counter's parity is the switch, with either controller or the host    *)
(* throwing it, and a change made while the Tensixes were powered down       *)
(* reaches them when they come back (SendKernelThrottlingMessage,            *)
(* doppler_tensix_state_callback).                                           *)
THEOREM TensixesAlwaysKnow == ThSpec => []ThTensixesKnow
<1>1. ThIInv => ThTensixesKnow
  BY Zenon DEF ThIInv
<1> QED
  BY <1>1, ThInvariant, PTL

(* Every telemetry sample tells exactly the milliseconds NOPs were on since  *)
(* the sample before, across wraps of the clock and of the accumulated sum,  *)
(* as long as samples are less than a wrap apart (GetNOPOnDuration).         *)
THEOREM DurationsExact == ThSpec => []ThDurationExact
<1>1. ThIInv => ThDurationExact
  BY Zenon DEF ThIInv, ThBanked, ThDurationExact
<1> QED
  BY <1>1, ThInvariant, PTL

-----------------------------------------------------------------------------

I2Pcs == {"write", "read", "txabrt", "txstatus", "rxabrt", "rxstatus"}

(* What is known of the controller in every state.                           *)
I2Shape ==
    /\ i2_fifo \in Seq({"W", "R"})
    /\ i2_rx \in Nat /\ i2_abrt \in BOOLEAN
    /\ i2_todo \in [w : Int, r : Nat]
    /\ i2_op \in [w : Nat, r : Nat, given : Nat, refused : BOOLEAN]
    /\ i2_pc \in I2Pcs \cup {"idle"}
    /\ i2_abrt => i2_fifo = <<>>
    /\ i2_pc = "idle" => i2_fifo = <<>>
    /\ i2_pc # "idle" => i2_ret = "none" /\ (i2_op.refused => i2_abrt)

I2OnlyWrites == \A x \in 1 .. Len(i2_fifo) : i2_fifo[x] = "W"
(* The command of the byte that is waited for is the last of the FIFO.       *)
I2ReadLast ==
    /\ i2_fifo # <<>> /\ i2_fifo[Len(i2_fifo)] = "R"
    /\ \A x \in 1 .. Len(i2_fifo) - 1 : i2_fifo[x] = "W"

(* The bytes the device gave are the ones handed on, and the one in the      *)
(* receive FIFO.                                                             *)
I2Counts == i2_op.given = (i2_op.r - i2_todo.r) + i2_rx

I2Flow ==
    /\ i2_pc = "write" => /\ I2OnlyWrites /\ i2_rx = 0 /\ i2_op.given = 0
                          /\ i2_todo.r = i2_op.r
    /\ i2_pc = "read" => I2OnlyWrites /\ i2_rx = 0 /\ I2Counts /\ i2_todo.r >= 1
    /\ i2_pc \in {"txabrt", "txstatus"} => i2_op.r = 0 /\ I2OnlyWrites
    /\ i2_pc \in {"rxabrt", "rxstatus"} =>
         /\ I2Counts /\ i2_todo.r >= 1
         /\ \/ I2ReadLast /\ i2_rx = 0
            \/ i2_fifo = <<>> /\ i2_rx = 0
            \/ i2_fifo = <<>> /\ i2_rx = 1 /\ ~i2_abrt

I2IInv == I2Shape /\ I2Flow /\ I2ReadTrue

(* Before the first I2CTransaction the controller is empty and the invariant *)
(* holds.                                                                    *)
LEMMA I2InitInv == I2Init => I2IInv
<1> SUFFICES ASSUME I2Init PROVE I2IInv
  BY Zenon
<1>1. I2Shape
  <2>1. <<>> \in Seq({"W", "R"})
    BY SMTT(30)
  <2>2. i2_op \in [w : Nat, r : Nat, given : Nat, refused : BOOLEAN] /\ i2_todo \in [w : Int, r : Nat]
    BY SMTT(30) DEF I2Init
  <2>3. i2_fifo \in Seq({"W", "R"}) /\ i2_abrt \in BOOLEAN /\ i2_fifo = <<>> /\ i2_rx \in Nat /\ i2_pc = "idle"
    BY <2>1, Zenon DEF I2Init
  <2> QED
    BY <2>2, <2>3, Zenon DEF I2Shape
<1>2. I2Flow /\ I2ReadTrue
  BY Zenon DEF I2Init, I2Flow, I2ReadTrue
<1> QED
  BY <1>1, <1>2, Zenon DEF I2IInv

(* A command that is put into the FIFO goes last; a pending abort drops it.  *)
LEMMA PutLast ==
  ASSUME I2Shape, NEW c \in {"W", "R"}, WriteTxFifo(c)
  PROVE  /\ i2_fifo' \in Seq({"W", "R"})
         /\ i2_abrt => i2_fifo' = <<>>
         /\ ~i2_abrt => /\ Len(i2_fifo') = Len(i2_fifo) + 1 /\ i2_fifo'[Len(i2_fifo) + 1] = c
                        /\ \A x \in 1 .. Len(i2_fifo) : i2_fifo'[x] = i2_fifo[x]
                        /\ i2_fifo' # <<>>
BY SMTT(30) DEF I2Shape, WriteTxFifo

(* A sequence of no length is the empty one.                                 *)
LEMMA EmptyIs ==
  ASSUME NEW S, NEW s \in Seq(S)
  PROVE  s = <<>> <=> Len(s) = 0
<1>1. CASE Len(s) = 0
  <2>1. s \in [{} -> S]
    BY <1>1, SMTT(30)
  <2>2. s = [k \in {} |-> s[k]]
    BY <2>1, Zenon
  <2>3. <<>> = [k \in {} |-> <<>>[k]]
    BY SMTT(30)
  <2> QED
    BY <1>1, <2>2, <2>3, Zenon
<1> QED
  BY <1>1, SMTT(30)

(* The rest of the FIFO.                                                     *)
LEMMA FifoTail ==
  ASSUME I2Shape, i2_fifo # <<>>
  PROVE  /\ Tail(i2_fifo) \in Seq({"W", "R"}) /\ Head(i2_fifo) = i2_fifo[1]
         /\ Len(i2_fifo) \in Nat /\ Len(i2_fifo) >= 1
         /\ Len(Tail(i2_fifo)) = Len(i2_fifo) - 1
         /\ \A x \in 1 .. Len(i2_fifo) - 1 : Tail(i2_fifo)[x] = i2_fifo[x + 1]
         /\ Tail(i2_fifo) = <<>> <=> Len(i2_fifo) = 1
<1>1. i2_fifo \in Seq({"W", "R"})
  BY Zenon DEF I2Shape
<1>2. /\ Tail(i2_fifo) \in Seq({"W", "R"}) /\ Head(i2_fifo) = i2_fifo[1]
      /\ Len(i2_fifo) \in Nat /\ Len(i2_fifo) >= 1
  BY <1>1, SMTT(30)
<1>3. /\ Len(Tail(i2_fifo)) = Len(i2_fifo) - 1
      /\ \A x \in 1 .. Len(i2_fifo) - 1 : Tail(i2_fifo)[x] = i2_fifo[x + 1]
  BY <1>1, SMTT(30)
<1>4. Tail(i2_fifo) = <<>> <=> Len(Tail(i2_fifo)) = 0
  BY <1>2, EmptyIs, Zenon
<1> QED
  BY <1>2, <1>3, <1>4, SMTT(30)

(* Every step keeps the shape of the controller.                             *)
LEMMA I2StepShape == I2IInv /\ [I2Next]_i2_vars => I2Shape'
<1> SUFFICES ASSUME I2Shape, I2Flow, [I2Next]_i2_vars PROVE I2Shape'
  BY Zenon DEF I2IInv
<1>e. <<>> \in Seq({"W", "R"})
  BY SMTT(30)
<1>1. ASSUME NEW w \in 1 .. I2Max, NEW r \in 0 .. I2Max, I2CInit(w, r)
      PROVE  I2Shape'
  <2>1. w \in Nat /\ r \in Nat
    BY I2Assumption, SMTT(30)
  <2>2. i2_op' \in [w : Nat, r : Nat, given : Nat, refused : BOOLEAN] /\ ~i2_op'.refused
        /\ i2_todo' \in [w : Int, r : Nat]
    BY <1>1, <2>1, SMTT(30) DEF I2CInit
  <2> QED
    BY <1>1, <2>2, <1>e, Zenon DEF I2CInit, I2Shape, I2Pcs
<1>2. CASE I2PutWrite
  <2>1. i2_todo' \in [w : Int, r : Nat]
    BY <1>2, SMTT(30) DEF I2PutWrite, I2Shape
  <2>2. i2_fifo' \in Seq({"W", "R"}) /\ (i2_abrt => i2_fifo' = <<>>)
    BY <1>2, PutLast, Zenon DEF I2PutWrite
  <2> QED
    BY <1>2, <2>1, <2>2, Zenon DEF I2PutWrite, I2Shape, I2Pcs
<1>3. CASE I2PutRead
  <2>2. i2_fifo' \in Seq({"W", "R"}) /\ (i2_abrt => i2_fifo' = <<>>)
    BY <1>3, PutLast, Zenon DEF I2PutRead
  <2> QED
    BY <1>3, <2>2, Zenon DEF I2PutRead, I2Shape, I2Pcs
<1>4. ASSUME NEW at \in I2Pcs, NEW next \in I2Pcs, CheckTxAbrt(at, next)
      PROVE  I2Shape'
  <2>1. CASE i2_abrt
    BY <1>4, <2>1, Zenon DEF CheckTxAbrt, I2Return, I2Shape, I2Pcs
  <2>2. CASE ~i2_abrt
    BY <1>4, <2>2, Zenon DEF CheckTxAbrt, I2Shape, I2Pcs
  <2> QED
    BY <2>1, <2>2, Zenon
<1>5. CASE WaitAllTxDone
  BY <1>5, Zenon DEF WaitAllTxDone, I2Return, I2Controller, I2Shape, I2Pcs
<1>6. CASE I2CReadRxFifo
  <2>1. CASE i2_rx = 0
    BY <1>6, <2>1, Zenon DEF I2CReadRxFifo, I2Shape, I2Pcs
  <2>2. CASE i2_rx # 0
    <3>1. i2_todo' \in [w : Int, r : Nat] /\ i2_rx' \in Nat /\ i2_fifo = <<>>
      BY <1>6, <2>2, SMTT(30) DEF I2CReadRxFifo, I2Flow, I2Shape
    <3> QED
      BY <1>6, <2>2, <3>1, Zenon DEF I2CReadRxFifo, I2Return, I2Shape, I2Pcs
  <2> QED
    BY <2>1, <2>2, Zenon
<1>7. CASE I2Timeout
  <2>1. i2_fifo' = <<>> /\ i2_rx' = 0 /\ UNCHANGED <<i2_abrt, i2_todo, i2_op>>
    BY <1>7, Zenon DEF I2Timeout, I2CRecoverBus
  <2>2. i2_pc' = "idle" \/ UNCHANGED <<i2_pc, i2_ret>>
    BY <1>7, Zenon DEF I2Timeout, I2Return
  <2> QED
    BY <2>1, <2>2, <1>e, Zenon DEF I2Shape
<1>8. CASE I2Byte
  <2>1. i2_fifo' \in Seq({"W", "R"}) /\ i2_fifo # <<>> /\ ~i2_abrt
    BY <1>8, FifoTail, Zenon DEF I2Byte, I2Shape
  <2>2. i2_rx' \in Nat /\ i2_op' \in [w : Nat, r : Nat, given : Nat, refused : BOOLEAN]
        /\ i2_op'.refused = i2_op.refused
    <3>1. i2_rx \in Nat /\ i2_op \in [w : Nat, r : Nat, given : Nat, refused : BOOLEAN]
      BY Zenon DEF I2Shape
    <3>2. CASE Head(i2_fifo) = "R"
      <4>1. i2_rx' = i2_rx + 1 /\ i2_op' = [i2_op EXCEPT !.given = @ + 1]
        BY <1>8, <3>2, Zenon DEF I2Byte
      <4> QED
        BY <3>1, <4>1, SMTT(30)
    <3>3. CASE Head(i2_fifo) # "R"
      BY <1>8, <3>1, <3>3, Zenon DEF I2Byte
    <3> QED
      BY <3>2, <3>3, Zenon
  <2> QED
    BY <1>8, <2>1, <2>2, Zenon DEF I2Byte, I2Shape
<1>9. CASE I2Refuse
  <2>1. i2_op' \in [w : Nat, r : Nat, given : Nat, refused : BOOLEAN]
    BY <1>9, Zenon DEF I2Refuse, I2Shape
  <2>2. i2_pc # "idle"
    BY <1>9, Zenon DEF I2Refuse, I2Shape
  <2> QED
    BY <1>9, <2>1, <2>2, <1>e, Zenon DEF I2Refuse, I2Shape
<1>10. CASE I2Stop \/ I2Hold
  BY <1>10, SMTT(30) DEF I2Stop, I2Hold, I2Shape
<1>11. CASE UNCHANGED i2_vars
  BY <1>11, Zenon DEF i2_vars, I2Shape
<1>12. {"txabrt", "txstatus", "rxabrt", "rxstatus"} \subseteq I2Pcs
  BY Zenon DEF I2Pcs
<1> QED
  BY <1>1, <1>2, <1>3, <1>4, <1>5, <1>6, <1>7, <1>8, <1>9, <1>10, <1>11, <1>12, Zenon DEF I2Next, I2Caller

(* Every step keeps the account of the bytes of a transaction.               *)
LEMMA I2StepFlow == I2IInv /\ [I2Next]_i2_vars => I2Flow'
<1> SUFFICES ASSUME I2Shape, I2Flow, [I2Next]_i2_vars PROVE I2Flow'
  BY Zenon DEF I2IInv
<1>n. /\ i2_rx \in Nat /\ i2_todo.r \in Nat /\ i2_op.r \in Nat /\ i2_op.given \in Nat
      /\ Len(i2_fifo) \in Nat
  BY SMTT(30) DEF I2Shape
<1>1. ASSUME NEW w \in 1 .. I2Max, NEW r \in 0 .. I2Max, I2CInit(w, r)
      PROVE  I2Flow'
  <2>1. i2_pc' = "write" /\ i2_rx' = 0 /\ i2_op'.given = 0 /\ i2_todo'.r = r /\ i2_op'.r = r
        /\ i2_fifo' = <<>>
    BY <1>1, Zenon DEF I2CInit
  <2>2. I2OnlyWrites'
    BY <2>1, SMTT(30) DEF I2OnlyWrites
  <2> QED
    BY <2>1, <2>2, Zenon DEF I2Flow
<1>2. CASE I2PutWrite
  <2>1. i2_pc = "write" /\ WriteTxFifo("W") /\ UNCHANGED <<i2_rx, i2_abrt, i2_op>>
        /\ i2_todo'.r = i2_todo.r
    BY <1>2, Zenon DEF I2PutWrite, I2Shape
  <2>2. I2OnlyWrites'
    <3>1. CASE i2_abrt
      BY <2>1, <3>1, PutLast, SMTT(30) DEF I2OnlyWrites
    <3>2. CASE ~i2_abrt
      <4>1. Len(i2_fifo') = Len(i2_fifo) + 1 /\ i2_fifo'[Len(i2_fifo) + 1] = "W"
            /\ \A x \in 1 .. Len(i2_fifo) : i2_fifo'[x] = i2_fifo[x]
        BY <2>1, <3>2, PutLast, Zenon
      <4> QED
        BY <2>1, <4>1, <1>n, SMTT(30) DEF I2OnlyWrites, I2Flow
    <3> QED
      BY <3>1, <3>2, Zenon
  <2>3. i2_pc' \in {"write", "txabrt", "read"} /\ (i2_pc' = "txabrt" => i2_todo.r = 0)
        /\ (i2_pc' = "read" => i2_todo.r # 0)
    BY <1>2, Zenon DEF I2PutWrite
  <2> QED
    BY <2>1, <2>2, <2>3, <1>n, SMTT(30) DEF I2Flow, I2Counts
<1>3. CASE I2PutRead
  <2>1. i2_pc = "read" /\ i2_pc' = "rxabrt" /\ WriteTxFifo("R")
        /\ UNCHANGED <<i2_rx, i2_abrt, i2_op, i2_todo>>
    BY <1>3, Zenon DEF I2PutRead
  <2>2. CASE i2_abrt
    <3>1. i2_fifo' = <<>>
      BY <2>1, <2>2, PutLast, Zenon
    <3> QED
      BY <2>1, <3>1, Zenon DEF I2Flow, I2Counts
  <2>3. CASE ~i2_abrt
    <3>1. Len(i2_fifo') = Len(i2_fifo) + 1 /\ i2_fifo'[Len(i2_fifo) + 1] = "R"
          /\ (\A x \in 1 .. Len(i2_fifo) : i2_fifo'[x] = i2_fifo[x]) /\ i2_fifo' # <<>>
      BY <2>1, <2>3, PutLast, Zenon
    <3>2. I2ReadLast'
      BY <2>1, <3>1, <1>n, SMTT(30) DEF I2ReadLast, I2Flow, I2OnlyWrites
    <3> QED
      BY <2>1, <3>2, Zenon DEF I2Flow, I2Counts
  <2> QED
    BY <2>2, <2>3, Zenon
<1>4. CASE CheckTxAbrt("txabrt", "txstatus")
  BY <1>4, Zenon DEF CheckTxAbrt, I2Return, I2Flow, I2OnlyWrites
<1>5. CASE CheckTxAbrt("rxabrt", "rxstatus")
  <2>1. CASE i2_abrt
    BY <1>5, <2>1, Zenon DEF CheckTxAbrt, I2Return, I2Flow
  <2>2. CASE ~i2_abrt
    BY <1>5, <2>2, Zenon DEF CheckTxAbrt, I2Flow, I2Counts, I2ReadLast
  <2> QED
    BY <2>1, <2>2, Zenon
<1>6. CASE WaitAllTxDone
  BY <1>6, Zenon DEF WaitAllTxDone, I2Controller, I2Return, I2Flow, I2OnlyWrites
<1>7. CASE I2CReadRxFifo
  <2>1. CASE i2_rx = 0
    BY <1>7, <2>1, Zenon DEF I2CReadRxFifo, I2Flow, I2Counts, I2ReadLast
  <2>2. CASE i2_rx # 0
    <3>1. i2_fifo = <<>> /\ i2_rx = 1 /\ I2Counts /\ i2_todo.r >= 1
      BY <1>7, <2>2, Zenon DEF I2CReadRxFifo, I2Flow
    <3>2. i2_rx' = 0 /\ i2_todo'.r = i2_todo.r - 1 /\ UNCHANGED <<i2_fifo, i2_op>>
          /\ i2_pc' = (IF i2_todo.r = 1 THEN "idle" ELSE "read")
      BY <1>7, <2>2, <3>1, SMTT(30) DEF I2CReadRxFifo, I2Return, I2Shape
    <3>3. I2OnlyWrites'
      BY <3>1, <3>2, SMTT(30) DEF I2OnlyWrites
    <3> QED
      BY <3>1, <3>2, <3>3, <1>n, SMTT(30) DEF I2Flow, I2Counts
  <2> QED
    BY <2>1, <2>2, Zenon
<1>8. CASE I2Timeout
  <2>1. i2_fifo' = <<>> /\ i2_rx' = 0 /\ UNCHANGED <<i2_abrt, i2_todo, i2_op>>
    BY <1>8, Zenon DEF I2Timeout, I2CRecoverBus
  <2>2. I2OnlyWrites'
    BY <2>1, SMTT(30) DEF I2OnlyWrites
  <2>3. i2_pc' = "idle" \/ (i2_pc \in {"write", "read", "idle"} /\ i2_pc' = i2_pc)
    BY <1>8, Zenon DEF I2Timeout, I2Return
  <2> QED
    BY <2>1, <2>2, <2>3, Zenon DEF I2Flow, I2Counts
<1>9. CASE I2Byte
  <2>1. i2_fifo # <<>> /\ i2_fifo' = Tail(i2_fifo) /\ UNCHANGED <<i2_abrt, i2_pc, i2_todo>> /\ ~i2_abrt
    BY <1>9, Zenon DEF I2Byte, I2Shape
  <2>2. CASE I2OnlyWrites
    <3>1. Head(i2_fifo) = "W"
      BY <2>1, <2>2, FifoTail, SMTT(30) DEF I2OnlyWrites
    <3>2. UNCHANGED <<i2_rx, i2_op>>
      BY <1>9, <3>1, Zenon DEF I2Byte
    <3>3. I2OnlyWrites'
      BY <2>1, <2>2, FifoTail, SMTT(30) DEF I2OnlyWrites
    <3>4. ~I2ReadLast
      BY <2>1, <2>2, FifoTail, SMTT(30) DEF I2OnlyWrites, I2ReadLast
    <3>5. i2_pc \notin {"rxabrt", "rxstatus"}
      BY <2>1, <3>4, Zenon DEF I2Flow
    <3> QED
      BY <2>1, <3>2, <3>3, <3>5, Zenon DEF I2Flow, I2Counts
  <2>3. CASE ~I2OnlyWrites
    <3>1. i2_pc \in {"rxabrt", "rxstatus"}
      BY <2>1, <2>3, Zenon DEF I2Flow, I2Shape, I2Pcs
    <3>2. I2ReadLast /\ i2_rx = 0 /\ I2Counts /\ i2_todo.r >= 1
      BY <2>1, <3>1, Zenon DEF I2Flow
    <3>3. CASE Len(i2_fifo) = 1
      <4>1. Head(i2_fifo) = "R" /\ i2_fifo' = <<>>
        BY <2>1, <3>2, <3>3, FifoTail, Zenon DEF I2ReadLast
      <4>2. i2_rx' = 1 /\ i2_op' = [i2_op EXCEPT !.given = @ + 1]
        BY <1>9, <3>2, <4>1, SMTT(30) DEF I2Byte
      <4>3. i2_op'.given = i2_op.given + 1 /\ i2_op'.r = i2_op.r
        BY <4>2, Zenon DEF I2Shape
      <4> QED
        BY <2>1, <3>1, <3>2, <4>1, <4>2, <4>3, <1>n, SMTT(30) DEF I2Flow, I2Counts
    <3>4. CASE Len(i2_fifo) > 1
      <4>1. Head(i2_fifo) = "W"
        BY <2>1, <3>2, <3>4, FifoTail, SMTT(30) DEF I2ReadLast
      <4>2. UNCHANGED <<i2_rx, i2_op>>
        BY <1>9, <4>1, Zenon DEF I2Byte
      <4>3. I2ReadLast'
        BY <2>1, <3>2, <3>4, FifoTail, SMTT(30) DEF I2ReadLast
      <4> QED
        BY <2>1, <3>1, <3>2, <4>2, <4>3, Zenon DEF I2Flow, I2Counts
    <3> QED
      BY <2>1, <3>3, <3>4, FifoTail, SMTT(30)
  <2> QED
    BY <2>2, <2>3, Zenon
<1>10. CASE I2Refuse
  <2>1. i2_fifo # <<>> /\ i2_fifo' = <<>> /\ UNCHANGED <<i2_rx, i2_pc, i2_todo>>
        /\ i2_op'.r = i2_op.r /\ i2_op'.given = i2_op.given
    BY <1>10, Zenon DEF I2Refuse, I2Shape
  <2>2. I2OnlyWrites'
    BY <2>1, SMTT(30) DEF I2OnlyWrites
  <2>3. i2_pc \in {"rxabrt", "rxstatus"} => i2_rx = 0
    BY <2>1, Zenon DEF I2Flow
  <2> QED
    BY <2>1, <2>2, <2>3, Zenon DEF I2Flow, I2Counts
<1>11. CASE I2Stop \/ I2Hold
  BY <1>11, SMTT(30) DEF I2Stop, I2Hold, I2Flow, I2Counts, I2OnlyWrites, I2ReadLast
<1>12. CASE UNCHANGED i2_vars
  BY <1>12, Zenon DEF i2_vars, I2Flow, I2Counts, I2OnlyWrites, I2ReadLast
<1> QED
  BY <1>1, <1>2, <1>3, <1>4, <1>5, <1>6, <1>7, <1>8, <1>9, <1>10, <1>11, <1>12, Zenon DEF I2Next, I2Caller

(* Only the step that takes the last byte returns 0 from a transaction that  *)
(* reads.                                                                    *)
LEMMA I2StepTrue == I2IInv /\ [I2Next]_i2_vars => I2ReadTrue'
<1> SUFFICES ASSUME I2Shape, I2Flow, I2ReadTrue, [I2Next]_i2_vars PROVE I2ReadTrue'
  BY Zenon DEF I2IInv
<1>n. /\ i2_rx \in Nat /\ i2_todo.r \in Nat /\ i2_op.r \in Nat /\ i2_op.given \in Nat
  BY Zenon DEF I2Shape
<1>r. i2_pc # "idle" => i2_ret = "none"
  BY Zenon DEF I2Shape
<1>1. ASSUME NEW w \in 1 .. I2Max, NEW r \in 0 .. I2Max, I2CInit(w, r)
      PROVE  I2ReadTrue'
  BY <1>1, Zenon DEF I2CInit, I2ReadTrue
<1>2. CASE I2PutWrite \/ I2PutRead
  BY <1>2, <1>r, Zenon DEF I2PutWrite, I2PutRead, I2ReadTrue
<1>3. CASE CheckTxAbrt("txabrt", "txstatus") \/ CheckTxAbrt("rxabrt", "rxstatus")
  BY <1>3, <1>r, Zenon DEF CheckTxAbrt, I2Return, I2ReadTrue
<1>4. CASE WaitAllTxDone
  <2>1. i2_op'.r = 0
    BY <1>4, Zenon DEF WaitAllTxDone, I2Flow
  <2> QED
    BY <2>1, SMTT(30) DEF I2ReadTrue
<1>5. CASE I2CReadRxFifo
  <2>1. CASE i2_rx = 0 \/ i2_todo.r # 1
    BY <1>5, <2>1, <1>r, Zenon DEF I2CReadRxFifo, I2ReadTrue
  <2>2. CASE i2_rx # 0 /\ i2_todo.r = 1
    <3>1. i2_pc = "rxstatus" /\ UNCHANGED i2_op
      BY <1>5, Zenon DEF I2CReadRxFifo
    <3>2. i2_rx = 1 /\ ~i2_abrt /\ I2Counts
      BY <2>2, <3>1, Zenon DEF I2Flow
    <3>3. ~i2_op.refused
      BY <3>1, <3>2, Zenon DEF I2Shape
    <3>4. i2_op.given = i2_op.r
      BY <2>2, <3>2, <1>n, SMTT(30) DEF I2Counts
    <3> QED
      BY <3>1, <3>3, <3>4, Zenon DEF I2ReadTrue
  <2> QED
    BY <2>1, <2>2, Zenon
<1>6. CASE I2Timeout
  <2>1. UNCHANGED i2_op /\ (i2_ret' = "timeout" \/ i2_ret' = i2_ret)
    BY <1>6, Zenon DEF I2Timeout, I2Return
  <2> QED
    BY <2>1, Zenon DEF I2ReadTrue
<1>7. CASE I2Byte \/ I2Refuse
  <2>1. i2_ret' = i2_ret /\ i2_ret = "none"
    BY <1>7, <1>r, Zenon DEF I2Byte, I2Refuse, I2Shape
  <2> QED
    BY <2>1, Zenon DEF I2ReadTrue
<1>8. CASE I2Stop \/ I2Hold
  BY <1>8, Zenon DEF I2Stop, I2Hold, I2ReadTrue
<1>9. CASE UNCHANGED i2_vars
  BY <1>9, Zenon DEF i2_vars, I2ReadTrue
<1> QED
  BY <1>1, <1>2, <1>3, <1>4, <1>5, <1>6, <1>7, <1>8, <1>9, Zenon DEF I2Next, I2Caller

(* I2CTransaction returns 0 for a read only with the bytes the device gave   *)
(* it during this very transaction, for every FIFO depth and every length,   *)
(* wherever the device refuses a byte or holds the bus.                      *)
THEOREM ReadsAreTrue == I2Spec => []I2ReadTrue
<1>1. I2IInv /\ [I2Next]_i2_vars => I2IInv'
  BY I2StepShape, I2StepFlow, I2StepTrue, Zenon DEF I2IInv
<1>2. I2IInv => I2ReadTrue
  BY Zenon DEF I2IInv
<1> QED
  BY I2InitInv, <1>1, <1>2, PTL DEF I2Spec

-----------------------------------------------------------------------------
TtTypes ==
  /\ tt_track \in [tracking : BOOLEAN, since : 0 .. TtDur]
  /\ tt_hot \in [run : Nat, on : Nat]
  /\ tt_pend \in BOOLEAN /\ tt_tag \in Int /\ tt_gddr \in Int
(* After a sample and before the next tick (no work), an excess that is      *)
(* tracked has been seen in one sample more than the ticks since its start;  *)
(* after the tick, in as many, unless the count of ticks was already full.   *)
TtCounted ==
  tt_told = "none" =>
    /\ ~tt_track.tracking => tt_hot.on = 0
    /\ tt_track.tracking /\ "gddr" \notin tt_work =>
         /\ tt_hot.on <= tt_track.since + 1 /\ tt_hot.run > tt_track.since
         /\ tt_track.since < TtDur \/ TtDur = 0
    /\ tt_track.tracking /\ "gddr" \in tt_work =>
         /\ tt_hot.on <= TtDur + 1 /\ tt_hot.run >= tt_track.since
         /\ tt_track.since < TtDur => tt_hot.on <= tt_track.since
TtToldWhy ==
  /\ tt_pend <=> tt_told # "none"
  /\ tt_fire # "none" => tt_pend
  /\ tt_told = "sustained" => tt_hot.run > TtDur
  /\ tt_phase = "tripped" => tt_pend
TtIInv == TtTypes /\ TtCounted /\ TtToldWhy

(* The monitor starts with nothing tracked and nothing pending.              *)
LEMMA TtInitInv == TtInit => TtIInv
<1> SUFFICES ASSUME TtInit PROVE TtIInv
  BY Zenon
<1>1. tt_track \in [tracking : BOOLEAN, since : 0 .. TtDur]
  BY TtAssumption, SMTT(30) DEF TtInit, TtUntracked
<1>2. tt_hot \in [run : Nat, on : Nat]
  BY Zenon DEF TtInit
<1>3. tt_pend \in BOOLEAN
  BY Zenon DEF TtInit
<1>4. tt_tag \in Int /\ tt_gddr \in Int
  BY TtAssumption, SMTT(30) DEF TtInit
<1>5. TtCounted
  BY Zenon DEF TtInit, TtCounted, TtUntracked
<1>6. TtToldWhy
  BY Zenon DEF TtInit, TtToldWhy, TtUntracked
<1> QED BY <1>1, <1>2, <1>3, <1>4, <1>5, <1>6, Zenon DEF TtIInv, TtTypes

(* A sample by the monitor, with no trip pending.                            *)
LEMMA TtSample ==
  ASSUME TtIInv, ~tt_pend, "gddr" \in tt_work, gddr_therm_trip_work_handler
  PROVE  TtIInv'
<1> DEFINE over == EvaluateGddrThermTrip(tt_tag)
           hot == TtTrip # 0 /\ tt_tag >= TtTrip
           crit == TtCrit # 0 /\ tt_tag >= TtCrit
<1>1. /\ tt_track' = over[2]
      /\ tt_hot' = [run |-> TtCount(tt_hot.run, hot), on |-> TtCount(tt_hot.on, hot /\ tt_on)]
      /\ IF over[1] /\ tt_on
         THEN /\ tt_pend' = TRUE /\ tt_fire' = "armed"
              /\ tt_told' = IF crit THEN "instantaneous" ELSE "sustained"
         ELSE UNCHANGED <<tt_pend, tt_fire, tt_told>>
      /\ "gddr" \notin tt_work'
      /\ UNCHANGED <<tt_phase, tt_gddr, tt_tag, tt_on>>
  BY Zenon DEF gddr_therm_trip_work_handler
<1>2. /\ crit => over[1] = TRUE /\ over[2] = TtUntracked
      /\ ~crit /\ ~hot => over[1] = FALSE /\ over[2] = TtUntracked
      /\ ~crit /\ hot /\ ~tt_track.tracking => 
           over[1] = FALSE /\ over[2] = [tracking |-> TRUE, since |-> 0]
      /\ ~crit /\ hot /\ tt_track.tracking /\ tt_track.since >= TtDur => 
           over[1] = TRUE /\ over[2] = TtUntracked
      /\ ~crit /\ hot /\ tt_track.tracking /\ ~(tt_track.since >= TtDur) => 
           over[1] = FALSE /\ over[2] = tt_track
  <2>1. (TtTrip = 0 \/ tt_tag < TtTrip) <=> ~hot
    BY TtAssumption, SMTT(30) DEF TtIInv, TtTypes
  <2>2. over = IF crit THEN <<TRUE, TtUntracked>>
               ELSE IF ~hot THEN <<FALSE, TtUntracked>>
               ELSE IF ~tt_track.tracking THEN <<FALSE, [tracking |-> TRUE, since |-> 0]>>
               ELSE IF tt_track.since >= TtDur THEN <<TRUE, TtUntracked>>
               ELSE <<FALSE, tt_track>>
    BY <2>1, Zenon DEF EvaluateGddrThermTrip
  <2> HIDE DEF over, hot, crit
  <2> QED BY <2>2, Zenon
<1> HIDE DEF over
<1>3. /\ tt_hot'.run = TtCount(tt_hot.run, hot) /\ tt_hot'.on = TtCount(tt_hot.on, hot /\ tt_on)
      /\ tt_hot' \in [run : Nat, on : Nat]
  BY <1>1, TtAssumption, SMTT(30) DEF TtIInv, TtTypes, TtCount
<1>4. tt_track' \in [tracking : BOOLEAN, since : 0 .. TtDur]
  <2>1. TtUntracked \in [tracking : BOOLEAN, since : 0 .. TtDur]
    BY TtAssumption, SMTT(30) DEF TtUntracked
  <2>2. [tracking |-> TRUE, since |-> 0] \in [tracking : BOOLEAN, since : 0 .. TtDur]
    BY TtAssumption, SMTT(30)
  <2> HIDE DEF hot, crit
  <2> QED BY <1>1, <1>2, <2>1, <2>2, Zenon DEF TtIInv, TtTypes
<1>5. tt_pend' \in BOOLEAN /\ (tt_pend' <=> tt_told' # "none") /\ (tt_fire' # "none" => tt_pend')
      /\ (tt_phase' = "tripped" => tt_pend')
  BY <1>1, Zenon DEF TtIInv, TtTypes, TtToldWhy
<1>6. tt_told = "none"
  BY Zenon DEF TtIInv, TtToldWhy
<1>7. /\ crit => ~tt_track'.tracking
      /\ ~crit /\ ~hot => ~tt_track'.tracking /\ ~over[1]
      /\ ~crit /\ hot /\ ~tt_track.tracking => tt_track'.tracking /\ tt_track'.since = 0 /\ ~over[1]
      /\ ~crit /\ hot /\ tt_track.tracking /\ tt_track.since >= TtDur => ~tt_track'.tracking /\ over[1]
      /\ ~crit /\ hot /\ tt_track.tracking /\ ~(tt_track.since >= TtDur) => 
           tt_track' = tt_track /\ ~over[1]
  <2>1. TtUntracked.tracking = FALSE
    BY Zenon DEF TtUntracked
  <2> DEFINE began == [tracking |-> TRUE, since |-> 0]
  <2>2. began.tracking = TRUE /\ began.since = 0
    BY Zenon
  <2> HIDE DEF hot, crit, began
  <2>3. /\ tt_track' = over[2]
        /\ ~crit /\ hot /\ ~tt_track.tracking => over[1] = FALSE /\ over[2] = began
    BY <1>1, <1>2, Zenon DEF began
  <2> QED BY <1>2, <2>1, <2>2, <2>3, Zenon
<1>8. /\ ~(over[1] /\ tt_on) => tt_told' = tt_told
      /\ over[1] /\ tt_on => tt_told' = IF crit THEN "instantaneous" ELSE "sustained"
  BY <1>1, Zenon
<1> HIDE DEF hot, crit
<1>9. /\ ~hot => tt_hot'.run = 0
      /\ ~(hot /\ tt_on) => tt_hot'.on = 0
      /\ hot => tt_hot'.run > 0 /\ (tt_hot.run <= TtDur + 1 => tt_hot'.run = tt_hot.run + 1)
      /\ tt_hot.run > TtDur + 1 /\ hot => tt_hot'.run > TtDur + 1
      /\ tt_hot'.on <= tt_hot.on + 1
  BY <1>3, TtAssumption, SMTT(30) DEF TtCount, TtIInv, TtTypes
<1>10. TtCounted' /\ (tt_told' = "sustained" => tt_hot'.run > TtDur)
  <2>0. "gddr" \notin tt_work'
    BY <1>1, Zenon
  <2>2. /\ TtDur \in Nat /\ tt_track.since \in 0 .. TtDur /\ tt_hot.on \in Nat /\ tt_hot.run \in Nat
        /\ tt_hot'.on \in Nat /\ tt_hot'.run \in Nat /\ tt_track.tracking \in BOOLEAN
    BY <1>3, TtAssumption, Zenon DEF TtIInv, TtTypes
  <2>6. /\ ~tt_track.tracking => tt_hot.on = 0
        /\ tt_track.tracking =>
             /\ tt_hot.on <= TtDur + 1 /\ tt_hot.run >= tt_track.since
             /\ tt_track.since < TtDur => tt_hot.on <= tt_track.since
    BY <1>6, Zenon DEF TtIInv, TtCounted
  <2> USE DEF TtCounted
  <2>1. CASE crit \/ ~hot
    <3>1. ~tt_track'.tracking /\ tt_told' # "sustained" /\ (tt_told' = "none" => ~(hot /\ tt_on))
      BY <1>6, <1>7, <1>8, <1>2, <2>1, Zenon
    <3> QED BY <1>9, <3>1, Zenon
  <2>3. CASE ~crit /\ hot /\ ~tt_track.tracking
    <3>1. tt_track'.tracking /\ tt_track'.since = 0 /\ tt_told' = "none"
      BY <1>6, <1>7, <1>8, <2>3, Zenon
    <3> QED BY <1>9, <2>0, <2>2, <2>6, <2>3, <3>1, SMTT(30)
  <2>4. CASE ~crit /\ hot /\ tt_track.tracking /\ tt_track.since >= TtDur
    <3>1. ~tt_track'.tracking /\ (tt_told' = "none" => ~(hot /\ tt_on))
      BY <1>6, <1>7, <1>8, <2>4, Zenon
    <3> QED BY <1>9, <2>0, <2>2, <2>6, <2>4, <3>1, SMTT(30)
  <2>5. CASE ~crit /\ hot /\ tt_track.tracking /\ ~(tt_track.since >= TtDur)
    <3>1. tt_track' = tt_track /\ tt_told' = "none"
      BY <1>6, <1>7, <1>8, <2>5, Zenon
    <3> QED BY <1>9, <2>0, <2>2, <2>6, <2>5, <3>1, SMTT(30)
  <2> QED BY <2>1, <2>3, <2>4, <2>5, Zenon
<1> QED BY <1>1, <1>3, <1>4, <1>5, <1>10, Zenon DEF TtIInv, TtTypes, TtToldWhy

(* Every step of the monitor, its handlers and a reset keeps the invariant.  *)
LEMMA TtStepInv == TtIInv /\ [TtNext]_tt_vars => TtIInv'
<1> SUFFICES ASSUME TtIInv, [TtNext]_tt_vars PROVE TtIInv'
  BY Zenon
<1> USE DEF TtIInv, TtTypes, TtCounted, TtToldWhy
<1>1. CASE CATEarlyInit
  BY <1>1, Zenon DEF CATEarlyInit, tt_run
<1>2. CASE CATInit
  BY <1>2, Zenon DEF CATInit
<1>3. CASE TtTick
  <2>1. tt_work = {} /\ "gddr" \in tt_work' /\ tt_gddr' \in Int
    BY <1>3, TtAssumption, Zenon DEF TtTick
  <2>2. /\ tt_track'.tracking = tt_track.tracking
        /\ tt_track'.since = IF tt_track.tracking /\ tt_track.since < TtDur THEN tt_track.since + 1
                             ELSE tt_track.since
        /\ tt_track' \in [tracking : BOOLEAN, since : 0 .. TtDur]
    BY <1>3, TtAssumption, SMTT(30) DEF TtTick, TtSince
  <2>3. UNCHANGED <<tt_phase, tt_tag, tt_pend, tt_fire, tt_told, tt_hot>>
    BY <1>3, Zenon DEF TtTick
  <2> QED BY <2>1, <2>2, <2>3, TtAssumption, SMTT(30)
<1>4. CASE telemetry_work_handler
  BY <1>4, Zenon DEF telemetry_work_handler
<1>5. CASE gddr_therm_trip_work_handler
  <2>1. CASE tt_pend
    BY <1>5, <2>1, Zenon DEF gddr_therm_trip_work_handler
  <2>2. CASE ~tt_pend
    BY <1>5, <2>2, TtSample, Zenon DEF gddr_therm_trip_work_handler
  <2> QED BY <2>1, <2>2, Zenon
<1>6. CASE gddr_therm_trip_trigger_handler
  BY <1>6, Zenon DEF gddr_therm_trip_trigger_handler
<1>7. CASE TtAsk
  BY <1>7, Zenon DEF TtAsk
<1>8. CASE TtReset
  <2>1. tt_track' \in [tracking : BOOLEAN, since : 0 .. TtDur]
    <3>1. TtUntracked \in [tracking : BOOLEAN, since : 0 .. TtDur]
      BY TtAssumption, SMTT(30) DEF TtUntracked
    <3> QED BY <1>8, <3>1, Zenon DEF TtReset
  <2>2. tt_hot' \in [run : Nat, on : Nat] /\ tt_tag' \in Int /\ tt_gddr' \in Int
    <3>1. 0 \in Int /\ TtGddr \subseteq Int /\ [run |-> 0, on |-> 0] \in [run : Nat, on : Nat]
      BY TtAssumption, SMTT(30)
    <3> QED BY <1>8, <3>1, Zenon DEF TtReset
  <2>3. tt_pend' \in BOOLEAN /\ TtToldWhy'
    BY <1>8, Zenon DEF TtReset
  <2>4. TtCounted'
    BY <1>8, Zenon DEF TtReset, TtUntracked
  <2> QED BY <2>1, <2>2, <2>3, <2>4, Zenon
<1>9. CASE UNCHANGED tt_vars
  BY <1>9, Zenon DEF tt_vars
<1> QED
  BY <1>1, <1>2, <1>3, <1>4, <1>5, <1>6, <1>7, <1>8, <1>9, Zenon DEF TtNext

(* For any limits, duration and temperatures the GDDR trip comes neither     *)
(* late nor early: with the feature on, at most the duration and two samples *)
(* pass over the trip temperature before it is decided, a sustained trip     *)
(* follows an excess of the whole duration, and no chip is tripped without a *)
(* reason told (GddrTripsInTime; EvaluateGddrThermTrip,                      *)
(* gddr_therm_trip_work_handler).                                            *)
THEOREM GddrTripTimely == TtSpec => []GddrTripsInTime
<1>1. TtIInv => GddrTripsInTime
  BY TtAssumption, SMTT(30) DEF TtIInv, TtTypes, TtCounted, TtToldWhy, GddrTripsInTime
<1> QED
  BY TtInitInv, TtStepInv, <1>1, PTL DEF TtSpec

(* What a calibration meets: an error of the monitor within its data sheet's *)
(* 25 degrees, and a reading that the sweep of 64 codes covers.              *)
TtCovered ==
  \A die \in TtDie, off \in TtOffsets : off \in -25 .. 25 /\ die + off \in -56 .. 195

(* The code that CalibrateCAT and TempToTrimCode choose trips near TJ.       *)
LEMMA CatCalibrated ==
  ASSUME NEW die \in Int, NEW off \in -25 .. 25, die + off \in -56 .. 195
  PROVE  LET at == 196 - 4 * TempToTrimCode(TJ + CalibrateCAT(die, off)) - off
         IN  TJ - 6 < at /\ at < TJ + 4
<1> DEFINE tripping == {c \in 0 .. 63 : CatTrips(c, die + off)}
           first == (199 - (die + off)) \div 4
           error == TrimCodeToTemp(first + 1) - die
           shift == TtClamp(error, -25, 25)
<1>1. first \in 1 .. 63 /\ 4 * first \in (196 - (die + off)) .. (199 - (die + off))
  BY SMTT(30)
<1> HIDE DEF first
<1>2. first \in tripping /\ (\A c \in tripping : first <= c) /\ 0 \notin tripping
  BY <1>1, SMTT(30) DEF CatTrips
<1>3. \A c \in tripping : (\A y \in tripping : c <= y) => c = first
  BY <1>1, <1>2, SMTT(30)
<1>4. Min(tripping) = first
  <2> HIDE DEF tripping
  <2> QED BY <1>2, <1>3, Zenon DEF Min
<1>5. CalibrateCAT(die, off) = shift
  <2> HIDE DEF tripping
  <2>1. tripping # {} /\ ~(0 \in tripping)
    BY <1>2, Zenon
  <2> QED BY <1>4, <2>1, Zenon DEF CalibrateCAT, tripping
<1>6. shift \in -25 .. 25 /\ shift - off \in -5 .. 0
  BY <1>1, SMTT(30) DEF TrimCodeToTemp, TtClamp
<1> HIDE DEF shift
<1>7. TempToTrimCode(TJ + shift) = 49 - ((113 + shift) \div 4)
  BY <1>6, SMTT(30) DEF TempToTrimCode, TtClamp, TJ
<1>8. /\ 196 - 4 * (49 - ((113 + shift) \div 4)) - off > 104
      /\ 196 - 4 * (49 - ((113 + shift) \div 4)) - off < 114
  BY <1>6, SMTT(30)
<1> QED BY <1>5, <1>7, <1>8, SMTT(30) DEF TJ

(* The armed code is the calibrated one while the chip runs.                 *)
TtArmed ==
  /\ tt_env \in [die : TtDie, off : TtOffsets]
  /\ tt_phase = "run" => tt_cat.code = TempToTrimCode(TJ + CalibrateCAT(tt_env.die, tt_env.off))

(* EnableCAT arms the monitor with the calibrated code; a reset disarms it.  *)
LEMMA TtArmedStep == TtArmed /\ [TtNext]_tt_vars => TtArmed'
<1> SUFFICES ASSUME TtArmed, [TtNext]_tt_vars PROVE TtArmed'
  BY Zenon
<1>1. CASE CATInit
  <2>1. tt_env' = tt_env /\ tt_cat' = [code |-> TempToTrimCode(TJ + CalibrateCAT(tt_env.die, tt_env.off)),
                                      shut |-> TRUE]
    BY <1>1, Zenon DEF CATInit, EnableCAT
  <2> QED BY <2>1, Zenon DEF TtArmed
<1>2. CASE CATEarlyInit \/ gddr_therm_trip_trigger_handler \/ TtReset
  <2>1. tt_phase' # "run" /\ (tt_env' = tt_env \/ tt_env' \in [die : TtDie, off : TtOffsets])
    BY <1>2, Zenon DEF CATEarlyInit, gddr_therm_trip_trigger_handler, TtReset
  <2> QED BY <2>1, Zenon DEF TtArmed
<1>3. CASE UNCHANGED <<tt_env, tt_cat, tt_phase>>
  BY <1>3, Zenon DEF TtArmed
<1> QED
  BY <1>1, <1>2, <1>3, Zenon DEF TtNext, TtTick, telemetry_work_handler, gddr_therm_trip_work_handler,
     TtAsk, tt_vars

(* After CATInit the monitor trips within six degrees below and four above   *)
(* T_J_SHUTDOWN (CatTripsNearShutdown), for every die temperature and every  *)
(* error of the monitor whose sum the trim codes cover (TtCovered):          *)
(* CalibrateCAT.                                                             *)
THEOREM CatTripsAtShutdown == TtCovered /\ TtSpec => []CatTripsNearShutdown
<1> SUFFICES ASSUME TtCovered PROVE TtSpec => []CatTripsNearShutdown
  BY Zenon
<1>1. TtInit => TtArmed
  BY Zenon DEF TtInit, TtArmed
<1>2. TtArmed => CatTripsNearShutdown
  <2> SUFFICES ASSUME TtArmed, tt_phase = "run"
               PROVE  LET at == 196 - 4 * tt_cat.code - tt_env.off IN TJ - 6 < at /\ at < TJ + 4
    BY Zenon DEF CatTripsNearShutdown
  <2>1. tt_env.die \in TtDie /\ tt_env.off \in TtOffsets
    BY Zenon DEF TtArmed
  <2>2. tt_env.die \in Int /\ tt_env.off \in -25 .. 25 /\ tt_env.die + tt_env.off \in -56 .. 195
    BY <2>1, TtAssumption, ZenonT(40) DEF TtCovered
  <2> QED BY <2>2, CatCalibrated, ZenonT(40) DEF TtArmed
<1> QED
  BY <1>1, <1>2, TtArmedStep, PTL DEF TtSpec
=============================================================================
