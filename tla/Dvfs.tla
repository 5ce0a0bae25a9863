------------------------------- MODULE Dvfs --------------------------------
(* Clock and voltage scaling of the Tensix clock (AICLK) by the SMC:         *)
(* lib/tenstorrent/bh_arc/dvfs.c, aiclk_ppm.c, voltage.c and vf_curve.c.     *)
(* Every pass and every host message runs on the system work queue, one      *)
(* after the other; a pass is several steps here because the chip runs at    *)
(* the clock and the supply of each moment between them.  Clocks and         *)
(* voltages are small numbers in the order of the MHz and mV of the code.    *)
EXTENDS Integers

CONSTANTS
  LowClock, HighClock,   \* AICLK_FMIN_MIN and AICLK_FMAX_MAX (= FMIN_MAX)
  HostFmaxMin,           \* AICLK_FMAX_MIN: lowest ceiling a host may set
  ResetSafe,             \* AICLK_RESET_SAFE_FREQ
  Fmin, Fmax,            \* of the board's firmware table
  VddMin, VddMax,        \* of the board's firmware table
  VddBoot,               \* VDD_BOOT
  Unit,                  \* curve values are in 1/Unit of a millivolt
  Curves,                \* voltage curves a chip may have
  Boots                  \* clocks the chip may boot with

Clocks == LowClock..HighClock
Supplies == VddMin..VddMax

ASSUME DvfsAssumption ==
  /\ {LowClock, HighClock, HostFmaxMin, ResetSafe, Fmin, Fmax} \subseteq Nat \ {0}
  /\ {HostFmaxMin, ResetSafe, Fmin, Fmax} \subseteq Clocks
  /\ Fmin <= Fmax
  /\ VddMin \in Nat \ {0} /\ VddMax \in Nat /\ VddBoot \in Supplies
  /\ Unit \in Nat \ {0}
  /\ Curves \subseteq [Clocks -> Nat]
  /\ Boots \subseteq Clocks

VARIABLES
  dvfs_enabled,          \* FALSE: the regulator failed to initialise
  vf,                    \* VFCurve of this chip
  volt_cap,              \* arbiter_max[aiclk_arb_max_voltage]
  boot_freq,
  last_msg_busy, max_ai_clk,            \* what keeps the busy arbiter at Fmax
  host_fmax,             \* arbiter_max[aiclk_arb_max_host_fmax], 0: disabled
  host_requested_fmin,   \* 0: disabled
  sweep,                 \* clocks a sweep draws from, {}: no sweep
  forced_freq, forced_voltage,          \* 0: not forced
  reset_safe,            \* a tile reset is under way
  targ_freq, curr_freq,  \* AiclkPPM: wanted, and believed to be set
  targ_voltage, curr_voltage,           \* VoltageArbiter: the same
  pll, vcore,            \* the clock and the supply the chip runs with
  pc,                    \* next step of DVFSChange, or where the queue is
  asked                  \* history: clock the host or the boot code left

requests == <<last_msg_busy, max_ai_clk, host_fmax, host_requested_fmin, sweep>>
forces == <<forced_freq, forced_voltage>>
chip == <<dvfs_enabled, vf, volt_cap, boot_freq>>
clock == <<curr_freq, pll>>
supply == <<curr_voltage, vcore>>
targets == <<targ_freq, targ_voltage>>
vars == <<chip, requests, forces, reset_safe, targets, clock, supply, pc, asked>>
-----------------------------------------------------------------------------
Least(a, b) == IF a < b THEN a ELSE b
Greatest(a, b) == IF a > b THEN a ELSE b
CLAMP(x, lo, hi) == IF x <= lo THEN lo ELSE Least(x, hi)

(* GetMaxAiclkForVoltage: the loop of the binary search over low..high.      *)
Search(curve, voltage) ==
  LET find[r \in (Fmin..(Fmax + 1)) \X (Fmin..(Fmax + 1))] ==
        LET mid == (r[1] + r[2]) \div 2
        IN  IF r[1] >= r[2] THEN r[1]
            ELSE IF curve[mid] > voltage * Unit THEN find[<<r[1], mid>>]
            ELSE find[<<mid + 1, r[2]>>]
  IN  find[<<Fmin, Fmax + 1>>]
GetMaxAiclkForVoltage(curve, voltage) == Search(curve, voltage) - 1

InitArbMaxVoltage ==      \* skipped, like the rest of InitDVFS, if disabled
  volt_cap = IF dvfs_enabled
             THEN CLAMP(GetMaxAiclkForVoltage(vf, VddMax), Fmin, Fmax)
             ELSE Fmax
InitVoltagePPM ==
  IF dvfs_enabled
  THEN vcore = VddBoot /\ curr_voltage = VddBoot /\ targ_voltage = VddBoot
  ELSE vcore \in Supplies /\ curr_voltage = 0 /\ targ_voltage = 0
InitAiclkPPM ==
  /\ boot_freq \in Boots
  /\ pll = boot_freq /\ curr_freq = boot_freq /\ targ_freq = boot_freq
  /\ host_fmax = 0 /\ host_requested_fmin = 0 /\ sweep = {}
  /\ forced_freq = 0 /\ reset_safe = FALSE

Init ==
  /\ dvfs_enabled \in BOOLEAN /\ vf \in Curves
  /\ volt_cap \in Fmin..Fmax
  /\ InitArbMaxVoltage /\ InitVoltagePPM /\ InitAiclkPPM
  /\ last_msg_busy = FALSE /\ max_ai_clk = FALSE
  /\ forced_voltage = 0
  /\ pc = "idle" /\ asked = boot_freq
-----------------------------------------------------------------------------
(* CalculateTargAiclk.  The throttling arbiters (power, current, heat,       *)
(* doppler) are controllers fed by sensors: any limit from Fmin to Fmax.     *)
BusyMin == IF last_msg_busy \/ max_ai_clk THEN Fmax ELSE Fmin
HostMax == IF host_fmax = 0 THEN Fmax ELSE host_fmax
Ceiling(throttle) == Least(Least(throttle, volt_cap), HostMax)
Arbitrated(throttle) ==
  Greatest(Least(BusyMin, Ceiling(throttle)), Greatest(Fmin, host_requested_fmin))
Wanted(throttle) == IF forced_freq # 0 THEN {forced_freq}
                    ELSE IF sweep # {} THEN sweep
                    ELSE {Arbitrated(throttle)}
Capped(f) == IF reset_safe THEN Least(f, ResetSafe) ELSE f

(* VoltageArbRequest and CalculateTargVoltage; the curve's value loses its   *)
(* fraction.  Without InitVoltagePPM both limits are 0.                      *)
aiclk_voltage(f) == vf[f] \div Unit
TargVoltage(f) ==
  IF forced_voltage # 0 THEN forced_voltage
  ELSE IF dvfs_enabled THEN CLAMP(aiclk_voltage(f), VddMin, VddMax)
  ELSE 0

(* DVFSChange, in the order of its calls.                                    *)
Calculate ==
  /\ pc = "calculate" /\ pc' = "decrease"
  /\ \E throttle \in Fmin..Fmax : \E f \in Wanted(throttle) :
       /\ targ_freq' = Capped(f)
       /\ targ_voltage' = TargVoltage(Capped(f))
  /\ UNCHANGED <<chip, requests, forces, reset_safe, clock, supply, asked>>

SetClock(f) == curr_freq' = f /\ pll' = f

DecreaseAiclk_bothWays ==
  /\ pc = "decrease" /\ pc' = "voltage"
  /\ IF targ_freq # curr_freq THEN SetClock(targ_freq) ELSE UNCHANGED clock
  /\ UNCHANGED <<chip, requests, forces, reset_safe, targets, supply, asked>>
DecreaseAiclk ==
  /\ pc = "decrease" /\ pc' = "voltage"
  /\ IF targ_freq < curr_freq THEN SetClock(targ_freq) ELSE UNCHANGED clock
  /\ UNCHANGED <<chip, requests, forces, reset_safe, targets, supply, asked>>

VoltageChange ==
  /\ pc = "voltage" /\ pc' = "increase"
  /\ IF targ_voltage # curr_voltage
     THEN curr_voltage' = targ_voltage /\ vcore' = targ_voltage
     ELSE UNCHANGED supply
  /\ UNCHANGED <<chip, requests, forces, reset_safe, targets, clock, asked>>

IncreaseAiclk ==          \* a tile reset goes on where it called
  /\ pc = "increase" /\ pc' = IF reset_safe THEN "tile" ELSE "idle"
  /\ IF targ_freq > curr_freq THEN SetClock(targ_freq) ELSE UNCHANGED clock
  /\ UNCHANGED <<chip, requests, forces, reset_safe, targets, supply, asked>>
-----------------------------------------------------------------------------
dvfs_work_handler ==      \* the 1 ms timer, started only if enabled
  /\ pc = "idle" /\ dvfs_enabled
  /\ pc' = "calculate"
  /\ UNCHANGED <<chip, requests, forces, reset_safe, targets, clock, supply, asked>>

ForceAiclk(freq) ==       \* TT_SMC_MSG_FORCE_AICLK, 0: no longer forced
  /\ pc = "idle"
  /\ freq = 0 \/ freq \in Clocks
  /\ IF dvfs_enabled
     THEN /\ forced_freq' = freq /\ pc' = "calculate"
          /\ UNCHANGED <<pll, asked>>
     ELSE /\ pll' = IF freq = 0 THEN boot_freq ELSE freq
          /\ asked' = pll'
          /\ UNCHANGED <<forced_freq, pc>>
  /\ UNCHANGED <<chip, requests, forced_voltage, reset_safe, targets, curr_freq,
                 supply>>

ForceVdd(voltage) ==      \* TT_SMC_MSG_FORCE_VDD
  /\ pc = "idle"
  /\ IF dvfs_enabled
     THEN /\ voltage = 0 \/ voltage \in Supplies
          /\ forced_voltage' = voltage /\ pc' = "calculate"
          /\ UNCHANGED vcore
     ELSE /\ voltage = 0             \* the limits are 0: all else is refused
          /\ vcore' = VddBoot
          /\ UNCHANGED <<forced_voltage, pc>>
  /\ UNCHANGED <<chip, requests, forced_freq, reset_safe, targets, clock,
                 curr_voltage, asked>>

(* SetAiclkResetSafe, around the reset of a Tensix or Ethernet tile.         *)
TileResetBegins ==
  /\ pc = "idle" /\ ~reset_safe
  /\ reset_safe' = TRUE /\ pc' = "calculate"
  /\ UNCHANGED <<chip, requests, forces, targets, clock, supply, asked>>
TileResetEnds ==
  /\ pc = "tile" /\ reset_safe
  /\ reset_safe' = FALSE /\ pc' = "calculate"
  /\ UNCHANGED <<chip, requests, forces, targets, clock, supply, asked>>

(* Messages that take effect with the next pass.                             *)
Rest == <<chip, forces, reset_safe, targets, clock, supply, pc, asked>>

aiclk_busy_handler(busy) ==
  /\ pc = "idle" /\ last_msg_busy' = busy
  /\ UNCHANGED <<max_ai_clk, host_fmax, host_requested_fmin, sweep, Rest>>
apply_power_settings(on) ==
  /\ pc = "idle" /\ max_ai_clk' = on
  /\ UNCHANGED <<last_msg_busy, host_fmax, host_requested_fmin, sweep, Rest>>
set_arb_host_fmax_handler(fmax) ==     \* 0 stands for restore_default
  /\ pc = "idle"
  /\ fmax = 0 \/ fmax \in HostFmaxMin..HighClock
  /\ host_fmax' = IF fmax = 0 THEN 0 ELSE CLAMP(fmax, Fmin, Fmax)
  /\ UNCHANGED <<last_msg_busy, max_ai_clk, host_requested_fmin, sweep, Rest>>
handle_char_set_host_fmin(fmin) ==     \* 0 stands for the restore flag
  /\ pc = "idle"
  /\ fmin = 0 \/ fmin \in Clocks
  /\ host_requested_fmin' = fmin
  /\ UNCHANGED <<last_msg_busy, max_ai_clk, host_fmax, sweep, Rest>>
SweepAiclkHandler(low, high) ==        \* a range that meets Fmin..Fmax
  /\ pc = "idle"
  /\ Greatest(low, Fmin) <= Least(high, Fmax)
  /\ sweep' = Greatest(low, Fmin)..Least(high, Fmax)
  /\ UNCHANGED <<last_msg_busy, max_ai_clk, host_fmax, host_requested_fmin, Rest>>
SweepStop ==
  /\ pc = "idle" /\ sweep' = {}
  /\ UNCHANGED <<last_msg_busy, max_ai_clk, host_fmax, host_requested_fmin, Rest>>

DVFSChange == Calculate \/ DecreaseAiclk \/ VoltageChange \/ IncreaseAiclk
Next ==
  \/ DVFSChange \/ dvfs_work_handler
  \/ TileResetBegins \/ TileResetEnds \/ SweepStop
  \/ \E f \in Clocks \cup {0} :
       ForceAiclk(f) \/ set_arb_host_fmax_handler(f) \/ handle_char_set_host_fmin(f)
  \/ \E v \in Supplies \cup {0} : ForceVdd(v)
  \/ \E b \in BOOLEAN : aiclk_busy_handler(b) \/ apply_power_settings(b)
  \/ \E low, high \in Clocks : SweepAiclkHandler(low, high)

Spec == Init /\ [][Next]_vars
-----------------------------------------------------------------------------
(* Types; with DVFS enabled the supply is within the limits of the board, a  *)
(* forced voltage included, and with it disabled the arbiter knows no        *)
(* voltage, so that no pass touches the regulator.                           *)
Limits == IF dvfs_enabled THEN Supplies ELSE {0}
TypeOK ==
  /\ dvfs_enabled \in BOOLEAN /\ vf \in [Clocks -> Nat]
  /\ volt_cap \in Fmin..Fmax /\ boot_freq \in Clocks
  /\ last_msg_busy \in BOOLEAN /\ max_ai_clk \in BOOLEAN
  /\ host_fmax \in (Fmin..Fmax) \cup {0} /\ host_requested_fmin \in Clocks \cup {0}
  /\ sweep \in SUBSET (Fmin..Fmax)
  /\ forced_freq \in Clocks \cup {0} /\ forced_voltage \in Limits \cup {0}
  /\ reset_safe \in BOOLEAN
  /\ targ_freq \in Clocks /\ curr_freq \in Clocks /\ pll \in Clocks
  /\ targ_voltage \in Limits /\ curr_voltage \in Limits /\ vcore \in Supplies
  /\ pc \in {"idle", "calculate", "decrease", "voltage", "increase", "tile"}
  /\ asked \in Clocks

(* A supply is enough for a clock when it is what the curve gives for that   *)
(* clock or for a faster one (below 700 MHz the curve rises again), as far   *)
(* as the regulator may go.                                                  *)
Enough(v, f) ==
  \E g \in Clocks : g >= f /\ v >= Least(aiclk_voltage(g), VddMax)

(* DVFSChange slows the clock before the voltage changes and speeds it up    *)
(* after: no step that raises the clock or lowers the supply leaves the chip *)
(* at a clock its supply is not enough for, whatever the host asked for in   *)
(* between, unless it forces the voltage itself.                             *)
LeadStep ==
  (/\ dvfs_enabled /\ forced_voltage = 0
   /\ pll' > pll \/ vcore' < vcore) => Enough(vcore', pll')
VoltageLeadsClock == [][LeadStep]_vars

(* A tile is reset only with the clock at or below the reset-safe frequency, *)
(* whatever clock the host forces or sweeps.                                 *)
ResetSafeClock == dvfs_enabled /\ pc = "tile" => pll <= ResetSafe

(* dvfs.c:117, "Not enabling AICLK PPM due to regulator init error": without *)
(* DVFS the clock between messages is the one the chip booted with or the    *)
(* host set last.                                                            *)
UncontrolledClock == ~dvfs_enabled /\ pc = "idle" => pll = asked
=============================================================================
