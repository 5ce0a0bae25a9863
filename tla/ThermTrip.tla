------------------------------ MODULE ThermTrip ------------------------------
(***************************************************************************)
(* The thermal trip of the chip (lib/tenstorrent/bh_arc/cat.c): the        *)
(* catastrophic temperature monitor ("catmon") and its calibration at      *)
(* boot, and the monitor that trips it when the GDDR is too hot, fed by    *)
(* the telemetry table that lib/tenstorrent/fw_common/telemetry.c          *)
(* refreshes on a timer the host may retune.                               *)
(*                                                                         *)
(* One Tick is gddr_therm_trip_interval (100 ms); the work queue runs what *)
(* a tick submits before the next tick.  Temperatures are whole degrees.   *)
(***************************************************************************)
EXTENDS Integers, FiniteSets, FiniteSetsExt

CONSTANTS TtDie,       \* die temperatures at calibration
          TtOffsets,   \* what catmon reads above the die (its error)
          TtGddr,      \* GDDR temperatures
          TtTrip, TtCrit, TtDur, \* chip_limits: thresholds, duration in ticks
          TtIntervals, \* telemetry intervals the host asks for, in ticks
          TtAsks       \* bound: requests of the host after a reset

TJ == 110              \* T_J_SHUTDOWN
TelDefault == 1        \* TELEM_UPDATE_INTERVAL_DEFAULT_MS in ticks

ASSUME TtAssumption ==
    /\ TtDie \subseteq Int /\ TtOffsets \subseteq Int /\ TtGddr \subseteq Int
    /\ TtTrip \in Int /\ TtCrit \in Int /\ TtDur \in Nat /\ TtAsks \in Nat
    /\ TtIntervals \subseteq Nat \ {0}

VARIABLES tt_phase,  \* boot: "off", "early", "calibrated", "run"
          tt_env,    \* [die, off]: the die's temperature and catmon's error
          tt_cat,    \* catmon: [code, shut]; shut: GPIO and PLL bypass enabled
          tt_gddr,   \* the GDDR's temperature
          tt_tag,    \* TAG_MAX_GDDR_TEMP
          tt_tel,    \* the telemetry timer: [interval, left, started]
          tt_on,     \* the gddr_therm_trip bit of TAG_FW_ACTIVE_CONFIG_0
          tt_work,   \* work items submitted in this tick
          tt_track,  \* EvaluateGddrThermTrip: [tracking, since]
          tt_pend,   \* trip_pending
          tt_fire,   \* the delayed trigger: "none", "armed" or "done"
          tt_told,   \* the reason posted for the DMC, "none" before
          tt_hot,    \* history: samples in a row at or over TtTrip; and with tt_on
          tt_asks    \* requests left

tt_vars == <<tt_phase, tt_env, tt_cat, tt_gddr, tt_tag, tt_tel, tt_on, tt_work, tt_track, tt_pend,
             tt_fire, tt_told, tt_hot, tt_asks>>
tt_run == <<tt_gddr, tt_tag, tt_tel, tt_on, tt_work, tt_track, tt_pend, tt_fire, tt_told, tt_hot, tt_asks>>

TtTypeOK ==
    /\ tt_phase \in {"off", "early", "run", "tripped"}
    /\ tt_cat.code \in 0 .. 63 /\ tt_cat.shut \in BOOLEAN
    /\ tt_tel.interval \in Nat \ {0} /\ tt_tel.left \in 0 .. tt_tel.interval
    /\ tt_work \subseteq {"telem", "gddr"}
    /\ tt_track.since \in 0 .. TtDur
    /\ tt_fire \in {"none", "armed", "done"} /\ tt_told \in {"none", "instantaneous", "sustained"}

TtUntracked == [tracking |-> FALSE, since |-> 0]

TtInit ==
    /\ tt_phase = "off" /\ tt_env \in [die : TtDie, off : TtOffsets]
    /\ tt_cat = [code |-> 0, shut |-> FALSE] /\ tt_gddr \in TtGddr
    /\ tt_tag = 0 /\ tt_tel = [interval |-> TelDefault, left |-> 0, started |-> FALSE]
    /\ tt_on \in BOOLEAN /\ tt_work = {} /\ tt_track = TtUntracked /\ tt_pend = FALSE
    /\ tt_fire = "none" /\ tt_told = "none" /\ tt_hot = [run |-> 0, on |-> 0]
    /\ tt_asks = TtAsks

-----------------------------------------------------------------------------
(* catmon: trim code c trips at 196 - 4 * c degrees and above. *)

TtClamp(x, lo, hi) == IF x < lo THEN lo ELSE IF x > hi THEN hi ELSE x
\* 49 - temp / 4 in floating point, truncated to the unsigned code.
TempToTrimCode(temp) == 49 - ((TtClamp(temp, -56, 196) + 3) \div 4)
TrimCodeToTemp(code) == 198 - 4 * code
CatTrips(code, reads) == reads >= 196 - 4 * code
EnableCAT(code, shutdown_on_trip) == tt_cat' = [code |-> code, shut |-> shutdown_on_trip]

DEFAULT_CALIBRATION == 100 - TJ
CalibrateCAT_negated(die, off) ==
    LET tripping == {c \in 0 .. 63 : CatTrips(c, die + off)}
        error == die - TrimCodeToTemp(Min(tripping) + 1)
    IN  IF 0 \in tripping \/ tripping = {} THEN DEFAULT_CALIBRATION
        ELSE TtClamp(error, -25, 25)

\* The loop leaves code one past the first that trips.
CalibrateCAT(die, off) ==
    LET tripping == {c \in 0 .. 63 : CatTrips(c, die + off)}
        error == TrimCodeToTemp(Min(tripping) + 1) - die
    IN  IF 0 \in tripping \/ tripping = {} THEN DEFAULT_CALIBRATION
        ELSE TtClamp(error, -25, 25)

CATEarlyInit ==
    /\ tt_phase = "off" /\ tt_phase' = "early"
    /\ EnableCAT(TempToTrimCode(100), TRUE)
    /\ UNCHANGED <<tt_env, tt_run>>
StartTelemetryTimer == tt_tel' = [tt_tel EXCEPT !.started = TRUE, !.left = tt_tel.interval]

\* CATInit: the sweep runs with GPIO and bypass off, then the real code is armed.
\* StartGddrThermTripMonitor and StartTelemetryTimer follow.
CATInit ==
    /\ tt_phase = "early" /\ tt_phase' = "run"
    /\ EnableCAT(TempToTrimCode(TJ + CalibrateCAT(tt_env.die, tt_env.off)), TRUE)
    /\ tt_tag' = tt_gddr                 \* init_telemetry fills the table once
    /\ StartTelemetryTimer
    /\ UNCHANGED <<tt_env, tt_gddr, tt_on, tt_work, tt_track, tt_pend, tt_fire, tt_told, tt_hot, tt_asks>>

-----------------------------------------------------------------------------
(* The GDDR's monitor. *)

TtSince(t) == [t EXCEPT !.since = IF t.tracking /\ t.since < TtDur THEN @ + 1 ELSE @]

\* 100 ms pass: both timers submit their work, also between a trip and the reset
\* it causes; a delayed trigger (50 ms) comes before.
TtTick ==
    /\ tt_phase \in {"run", "tripped"} /\ tt_work = {} /\ tt_fire # "armed"
    /\ tt_gddr' \in TtGddr
    /\ tt_track' = TtSince(tt_track)
    /\ IF tt_tel.left = 1
       THEN tt_work' = {"gddr", "telem"} /\ tt_tel' = [tt_tel EXCEPT !.left = tt_tel.interval]
       ELSE tt_work' = {"gddr"} /\ tt_tel' = [tt_tel EXCEPT !.left = @ - 1]
    /\ UNCHANGED <<tt_phase, tt_env, tt_cat, tt_tag, tt_on, tt_pend, tt_fire, tt_told, tt_hot, tt_asks>>

telemetry_work_handler ==
    /\ "telem" \in tt_work /\ tt_work' = tt_work \ {"telem"} /\ tt_tag' = tt_gddr
    /\ UNCHANGED <<tt_phase, tt_env, tt_cat, tt_gddr, tt_tel, tt_on, tt_track, tt_pend, tt_fire,
                   tt_told, tt_hot, tt_asks>>

\* Every sample of an excess starts its duration again.
EvaluateGddrThermTrip_restarts(max_temp) ==
    IF TtCrit # 0 /\ max_temp >= TtCrit THEN <<TRUE, TtUntracked>>
    ELSE IF TtTrip = 0 \/ max_temp < TtTrip THEN <<FALSE, TtUntracked>>
    ELSE IF tt_track.since >= TtDur THEN <<TRUE, TtUntracked>>
    ELSE <<FALSE, [tracking |-> TRUE, since |-> 0]>>

\* <<over temperature, the next tracking state>>; a threshold of 0 is off.
EvaluateGddrThermTrip(max_temp) ==
    IF TtCrit # 0 /\ max_temp >= TtCrit THEN <<TRUE, TtUntracked>>
    ELSE IF TtTrip = 0 \/ max_temp < TtTrip THEN <<FALSE, TtUntracked>>
    ELSE IF ~tt_track.tracking THEN <<FALSE, [tracking |-> TRUE, since |-> 0]>>
    ELSE IF tt_track.since >= TtDur THEN <<TRUE, TtUntracked>>
    ELSE <<FALSE, tt_track>>

TtCount(n, hot) == IF hot THEN IF n < TtDur + 3 THEN n + 1 ELSE n ELSE 0
gddr_therm_trip_work_handler ==
    /\ "gddr" \in tt_work /\ tt_work' = tt_work \ {"gddr"}
    /\ LET over == EvaluateGddrThermTrip(tt_tag)
           hot == TtTrip # 0 /\ tt_tag >= TtTrip IN
       \/ /\ tt_pend /\ UNCHANGED <<tt_track, tt_pend, tt_fire, tt_told, tt_hot>>
       \/ /\ ~tt_pend /\ tt_track' = over[2]
          /\ tt_hot' = [run |-> TtCount(tt_hot.run, hot), on |-> TtCount(tt_hot.on, hot /\ tt_on)]
          /\ IF over[1] /\ tt_on
             THEN /\ tt_pend' = TRUE /\ tt_fire' = "armed"
                  /\ tt_told' = IF TtCrit # 0 /\ tt_tag >= TtCrit THEN "instantaneous" ELSE "sustained"
             ELSE UNCHANGED <<tt_pend, tt_fire, tt_told>>
    /\ UNCHANGED <<tt_phase, tt_env, tt_cat, tt_gddr, tt_tag, tt_tel, tt_on, tt_asks>>

\* TriggerThermTrip, 50 ms after the notice: catmon trips at any temperature.
gddr_therm_trip_trigger_handler ==
    /\ tt_fire = "armed" /\ tt_fire' = "done" /\ tt_phase' = "tripped"
    /\ EnableCAT(TempToTrimCode(-56), TRUE)
    /\ UNCHANGED <<tt_env, tt_gddr, tt_tag, tt_tel, tt_on, tt_work, tt_track, tt_pend, tt_told, tt_hot, tt_asks>>

\* A timer that was started starts again with the new period.
TelemetrySetUpdateInterval(n) ==
    tt_tel' = [tt_tel EXCEPT !.interval = n, !.left = IF tt_tel.started THEN n ELSE @]
CatSetGddrThermTripEnabled(enabled) == tt_on' = enabled

\* The host retunes telemetry, or switches the trip by a characterisation message.
TtAsk ==
    /\ tt_phase \in {"early", "run"} /\ tt_asks > 0 /\ tt_asks' = tt_asks - 1
    /\ \/ (\E n \in TtIntervals : TelemetrySetUpdateInterval(n)) /\ UNCHANGED tt_on
       \/ CatSetGddrThermTripEnabled(~tt_on) /\ UNCHANGED tt_tel
    /\ UNCHANGED <<tt_phase, tt_env, tt_cat, tt_gddr, tt_tag, tt_work, tt_track, tt_pend, tt_fire,
                   tt_told, tt_hot>>

\* The trip resets the chip; the DMC brings it up again.
TtReset ==
    /\ tt_phase = "tripped" /\ tt_phase' = "off" /\ tt_env' \in [die : TtDie, off : TtOffsets]
    /\ tt_cat' = [code |-> 0, shut |-> FALSE] /\ tt_gddr' \in TtGddr
    /\ tt_tag' = 0 /\ tt_tel' = [interval |-> TelDefault, left |-> 0, started |-> FALSE]
    /\ tt_on' \in BOOLEAN /\ tt_work' = {} /\ tt_track' = TtUntracked /\ tt_pend' = FALSE
    /\ tt_fire' = "none" /\ tt_told' = "none" /\ tt_hot' = [run |-> 0, on |-> 0]
    /\ tt_asks' = TtAsks

TtNext == \/ CATEarlyInit \/ CATInit \/ TtTick \/ telemetry_work_handler
          \/ gddr_therm_trip_work_handler \/ gddr_therm_trip_trigger_handler \/ TtAsk \/ TtReset

\* Time passes, the work queue and the delayed work run.
TtFair == /\ WF_tt_vars(CATEarlyInit) /\ WF_tt_vars(CATInit) /\ WF_tt_vars(TtTick)
          /\ WF_tt_vars(telemetry_work_handler)
          /\ WF_tt_vars(gddr_therm_trip_work_handler) /\ WF_tt_vars(gddr_therm_trip_trigger_handler)
          /\ WF_tt_vars(TtReset)
TtSpec == TtInit /\ [][TtNext]_tt_vars /\ TtFair

-----------------------------------------------------------------------------
\* After calibration catmon trips within six degrees below and four above
\* T_J_SHUTDOWN, for a monitor whose error is within the 25 degrees of its data
\* sheet: the trim codes' rounding, the sweep's last increment and the clamp
\* add up to no more (CalibrateCAT, TempToTrimCode).
CatTripsNearShutdown ==
    tt_phase = "run" =>
        LET at == 196 - 4 * tt_cat.code - tt_env.off IN TJ - 6 < at /\ at < TJ + 4

\* The trip comes neither late nor early: with the feature on, no more than the
\* duration and two samples pass at or over the trip temperature before it is
\* decided, also when the decision was thrown away before because the feature
\* was off; and a sustained trip follows an excess in every sample of the whole
\* duration (EvaluateGddrThermTrip).
GddrTripsInTime ==
    /\ ~tt_pend => tt_hot.on <= TtDur + 1
    /\ tt_told = "sustained" => tt_hot.run > TtDur
    /\ tt_phase = "tripped" => tt_told # "none"

=============================================================================
