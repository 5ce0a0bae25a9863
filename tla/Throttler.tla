------------------------------ MODULE Throttler ------------------------------
(***************************************************************************)
(* Kernel throttling (lib/tenstorrent/bh_arc/throttler.c): when lowering   *)
(* the AI clock is not enough the firmware makes the Tensix kernels insert *)
(* NOPs, by broadcasting a counter whose parity says slow (odd) or fast.   *)
(* Two controllers share that switch, the board-power one ("Doppler") and  *)
(* the one at the AICLK floor, and the host retunes them while they run.   *)
(*                                                                         *)
(* The proportional controllers that move the frequency arbiters are data: *)
(* the target frequency and the power class are chosen by the environment. *)
(***************************************************************************)
EXTENDS Naturals

CONSTANTS ThWrap,     \* the millisecond counter's modulus, 2^32 in the code
          ThCtrWrap,  \* throttle_counter's modulus, 2^32 in the code
          ThT2, ThT3, \* samples that make T2 and T3 trigger: 10 and 2
          ThSat,      \* UINT8_MAX, where the sample counters saturate
          ThLate,     \* bound: ticks between two telemetry samples
          ThWindow,   \* window_ms, the telemetry's interval
          ThPowers,   \* the power classes the load takes, of 0 .. 4
          ThStops     \* the stop frequencies asked for, 0 for the default

ASSUME ThAssumption ==
    /\ ThWrap \in Nat /\ ThCtrWrap \in Nat /\ ThCtrWrap > 0 /\ ThCtrWrap % 2 = 0
    /\ ThT2 \in Nat /\ ThT3 \in Nat /\ ThSat \in Nat /\ ThT2 <= ThSat /\ ThT3 <= ThSat
    /\ ThLate \in Nat /\ ThLate < ThWrap /\ ThWindow \in Nat
    /\ ThPowers \subseteq 0 .. 4 /\ ThStops \subseteq Nat

\* Frequencies: 1 is Fmin and the effective arbiter minimum, 3 is Fmax.
\* Power: 0 under the limit, 1 at it, 2 over it, 3 over twice, 4 over 2.5 times.
VARIABLES th_dop,    \* doppler, from the firmware table
          th_limit,  \* power_limit is not 0
          th_env,    \* [targ, power]
          th_on,     \* the kernel_nops_at_aiclk_fmin bit of the active config
          th_stop,   \* kernel_throttler_stop_nops_freq
          th_deflt,  \* its default from the firmware table
          th_nops,   \* kernel_nops_enabled
          th_ctr,    \* throttle_counter
          th_tens,   \* tensixes_enabled
          th_seen,   \* what the Tensixes were last told
          th_t2, th_t3, \* consecutive samples over the T2 and T3 limits
          th_crit,   \* aiclk_arb_max_doppler_critical is enabled
          th_time,   \* [now, since, accum, prev] and whether a sample was taken (seeded)
          th_real,   \* history: ticks with NOPs on since the last sample, and its age
          th_exact   \* history: every sample so far told the real time

th_vars == <<th_dop, th_limit, th_env, th_on, th_stop, th_deflt, th_nops, th_ctr, th_tens, th_seen,
             th_t2, th_t3, th_crit, th_time, th_real, th_exact>>

ThTypeOK ==
    /\ th_env \in [targ : 1 .. 3, power : 0 .. 4] /\ th_stop \in 0 .. 2 /\ th_deflt \in 0 .. 2
    /\ {th_dop, th_limit, th_on, th_nops, th_tens, th_crit} \subseteq BOOLEAN
    /\ th_ctr \in 0 .. ThCtrWrap - 1 /\ th_seen \in 0 .. ThCtrWrap - 1
    /\ th_t2 \in 0 .. ThSat /\ th_t3 \in 0 .. ThSat
    /\ th_time \in [now : 0 .. ThWrap - 1, since : 0 .. ThWrap - 1, accum : 0 .. ThWrap - 1,
                    prev : 0 .. ThWrap - 1, seeded : BOOLEAN]
    /\ th_real \in [on : 0 .. ThLate, age : 0 .. ThLate] /\ th_exact \in BOOLEAN

\* InitThrottlers: an out-of-range default from the table becomes 0.
ThInit ==
    /\ th_dop \in BOOLEAN /\ th_on \in BOOLEAN /\ th_deflt \in ThStops \cap 0 .. 2 /\ th_stop = th_deflt
    /\ th_limit = FALSE /\ th_env = [targ |-> 3, power |-> 0]
    /\ th_nops = FALSE /\ th_ctr = 0 /\ th_tens = TRUE /\ th_seen = 0
    /\ th_t2 = 0 /\ th_t3 = 0 /\ th_crit = FALSE
    /\ th_time = [now |-> 0, since |-> 0, accum |-> 0, prev |-> 0, seeded |-> FALSE]
    /\ th_real = [on |-> 0, age |-> 0] /\ th_exact = TRUE

ThSub(a, b) == (a + ThWrap - b) % ThWrap

BroadcastKernelThrottleState(tens, ctr) == th_seen' = IF tens THEN ctr ELSE th_seen

\* The counter moves to the parity of the new state; the time is stamped or banked.
SendKernelThrottlingMessage(throttle) ==
    LET c == (th_ctr + 1) % ThCtrWrap
        d == IF (c % 2 = 1) # throttle THEN (c + 1) % ThCtrWrap ELSE c IN
    /\ th_ctr' = d /\ BroadcastKernelThrottleState(th_tens, d)
    /\ th_time' = IF throttle THEN [th_time EXCEPT !.since = th_time.now]
                  ELSE [th_time EXCEPT !.accum = (@ + ThSub(th_time.now, th_time.since)) % ThWrap]
\* The switch, thrown only when the state changes.
ThSwitch(nops) ==
    /\ th_nops' = nops
    /\ IF nops # th_nops THEN SendKernelThrottlingMessage(nops)
       ELSE UNCHANGED <<th_ctr, th_seen, th_time>>

ThCount(n, over) == IF over THEN IF n < ThSat THEN n + 1 ELSE n ELSE 0

DopplerActive == th_dop /\ th_limit
UpdateDoppler_stopAtFloor ==
    LET t2 == ThCount(th_t2, th_env.power >= 3)
        t3 == ThCount(th_t3, th_env.power >= 4)
        critical == t2 >= ThT2 \/ t3 >= ThT3
        start == th_env.targ = 1 /\ th_env.power >= 2
        stop == th_env.targ = 1 /\ th_env.power = 0 IN
    /\ th_t2' = t2 /\ th_t3' = t3 /\ th_crit' = critical
    /\ ThSwitch(((th_nops \/ start) /\ ~stop) \/ critical)

UpdateDoppler ==
    LET t2 == ThCount(th_t2, th_env.power >= 3)
        t3 == ThCount(th_t3, th_env.power >= 4)
        critical == t2 >= ThT2 \/ t3 >= ThT3
        start == th_env.targ = 1 /\ th_env.power >= 2
        stop == th_env.targ = 3 /\ th_env.power = 0 IN
    /\ th_t2' = t2 /\ th_t3' = t3 /\ th_crit' = critical
    /\ ThSwitch(((th_nops \/ start) /\ ~stop) \/ critical)
UpdateKernelThrottler ==
    LET stop_freq == IF th_stop = 0 THEN 1 ELSE th_stop
        start == th_on /\ th_env.targ = 1 /\ th_env.power >= 2
        stop == th_on /\ th_env.targ >= stop_freq /\ th_env.power = 0 IN
    /\ ThSwitch((th_nops \/ start) /\ ~stop)
    /\ UNCHANGED <<th_t2, th_t3, th_crit>>
CalculateThrottlers ==
    /\ IF DopplerActive THEN UpdateDoppler ELSE UpdateKernelThrottler
    /\ UNCHANGED <<th_dop, th_limit, th_env, th_on, th_stop, th_deflt, th_tens, th_real, th_exact>>

\* A millisecond passes; power and frequency follow the load and the arbiters.
ThTick ==
    /\ th_real.age < ThLate
    /\ th_time' = [th_time EXCEPT !.now = (@ + 1) % ThWrap]
    /\ th_real' = [on |-> th_real.on + (IF th_nops THEN 1 ELSE 0), age |-> th_real.age + 1]
    /\ th_env' \in [targ : 1 .. 3, power : ThPowers]
    /\ UNCHANGED <<th_dop, th_limit, th_on, th_stop, th_deflt, th_nops, th_ctr, th_tens, th_seen,
                   th_t2, th_t3, th_crit, th_exact>>

\* The host's requests; a stop frequency outside the floor's range (9) is refused.
ThrottlerSetKernelThrottlerEnabled(enabled) ==
    /\ th_on' = enabled
    /\ IF ~enabled /\ th_nops THEN ThSwitch(FALSE) ELSE UNCHANGED <<th_nops, th_ctr, th_seen, th_time>>
    /\ UNCHANGED <<th_dop, th_limit, th_env, th_stop, th_deflt, th_tens, th_t2, th_t3, th_crit,
                   th_real, th_exact>>
ThrottlerSetKernelThrottlerStopFreq(frequency) ==
    /\ frequency <= 2
    /\ th_stop' = IF frequency = 0 THEN th_deflt ELSE frequency
    /\ UNCHANGED <<th_dop, th_limit, th_env, th_on, th_deflt, th_nops, th_ctr, th_tens, th_seen,
                   th_t2, th_t3, th_crit, th_time, th_real, th_exact>>
\* The DMC tells the limit of the power cable, the one it detected when it
\* started (0 when it detected none: the same as never told).
Dm2CmSetBoardPowerLimit ==
    /\ th_limit' = TRUE
    /\ UNCHANGED <<th_dop, th_env, th_on, th_stop, th_deflt, th_nops, th_ctr, th_tens, th_seen,
                   th_t2, th_t3, th_crit, th_time, th_real, th_exact>>
doppler_tensix_state_callback(enable) ==
    /\ th_tens' = enable /\ BroadcastKernelThrottleState(enable, th_ctr)
    /\ UNCHANGED <<th_dop, th_limit, th_env, th_on, th_stop, th_deflt, th_nops, th_ctr, th_t2, th_t3,
                   th_crit, th_time, th_real, th_exact>>

GetNOPOnAccumulatedTime ==
    IF th_nops THEN (th_time.accum + ThSub(th_time.now, th_time.since)) % ThWrap ELSE th_time.accum
\* Called by the telemetry's work; only the first sample is cut to the window.
GetNOPOnDuration ==
    LET delta == ThSub(GetNOPOnAccumulatedTime, th_time.prev)
        duration == IF ~th_time.seeded /\ delta > ThWindow THEN ThWindow ELSE delta IN
    /\ th_real.age > 0
    /\ th_exact' = (th_exact /\ duration = IF th_time.seeded \/ th_real.on <= ThWindow
                                            THEN th_real.on ELSE ThWindow)
    /\ th_time' = [th_time EXCEPT !.prev = GetNOPOnAccumulatedTime, !.seeded = TRUE]
    /\ th_real' = [on |-> 0, age |-> 0]
    /\ UNCHANGED <<th_dop, th_limit, th_env, th_on, th_stop, th_deflt, th_nops, th_ctr, th_tens,
                   th_seen, th_t2, th_t3, th_crit>>

ThNext ==
    \/ CalculateThrottlers \/ ThTick \/ Dm2CmSetBoardPowerLimit \/ GetNOPOnDuration
    \/ \E b \in BOOLEAN : ThrottlerSetKernelThrottlerEnabled(b) \/ doppler_tensix_state_callback(b)
    \/ \E f \in ThStops : ThrottlerSetKernelThrottlerStopFreq(f)

\* The DVFS timer runs CalculateThrottlers every millisecond.
ThSpec == ThInit /\ [][ThNext]_th_vars /\ WF_th_vars(CalculateThrottlers)

-----------------------------------------------------------------------------
\* The counter's parity is the switch, and Tensixes that are enabled know it:
\* a change made while they were disabled reaches them when they come back.
ThTensixesKnow ==
    /\ (th_ctr % 2 = 1) = th_nops
    /\ th_tens => th_seen = th_ctr

\* Every sample of the NOP time is exact (the first one up to its window), across
\* the wrap of the clock and of the sum, with the switch thrown by either
\* controller or by the host.
ThDurationExact == th_exact

\* NOPs do not stay on for good: once the power stays under the limit with the
\* clock at its maximum, and the host changes nothing more, they are released.
ThReleased ==
    <>[](th_env = [targ |-> 3, power |-> 0] /\ (th_on \/ DopplerActive)) => <>[](~th_nops)

=============================================================================
