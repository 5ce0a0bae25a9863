------------------------------ MODULE FanCtrl ------------------------------
(* Fan control across the two firmwares, over the messages of Cm2Dm: the SMC *)
(* (lib/tenstorrent/bh_arc/fan_ctrl.c) computes or forces a speed and posts  *)
(* it; the DMC (app/dmc/src/main.c) keeps one request per chip, drives the   *)
(* fan with their maximum and reports the result back.  One chip is followed *)
(* in full; the other chips of the board are an environment.                 *)
EXTENDS Cm2Dm

CONSTANTS FanSpeedUpdate, ForcedFanSpeedUpdate,   \* kCm2DmMsgId...
          Unforce,          \* UINT32_MAX: back to the fan curve
          OtherSpeeds,      \* speeds another chip of the board asks for
          MaxTrips          \* bound: thermal trips and watchdog resets

ASSUME FanAssumption ==
  /\ FanSpeedUpdate \in Ids /\ ForcedFanSpeedUpdate \in Ids
  /\ ResetReq < FanSpeedUpdate /\ FanSpeedUpdate < ForcedFanSpeedUpdate
  /\ Data \subseteq 0..100 /\ OtherSpeeds \subseteq 0..100
  /\ MaxTrips \in Nat

VARIABLES
  fan_speed, fan_speed_forced, fan_speed_feedback,  \* SMC: fan_ctrl.c
  chip,                 \* DMC: fan_speed and fan_speed_forced of the chip
  others,               \* DMC: the same of another chip on the board
  pwm,                  \* duty cycle of the fan, of 255
  tripped,              \* history: reset for heat, not heard from since
  trips

smc_fan == <<fan_speed, fan_speed_forced, fan_speed_feedback>>
fan_vars == <<smc_fan, chip, others, pwm, tripped, trips>>
all_vars == <<vars, fan_vars>>

Request_(speed, forced) == [fan_speed |-> speed, fan_speed_forced |-> forced]
INITIAL_FAN_SPEED == 35

(* DMC: update_fan_speed.  Any forced request outvotes all that are not.     *)
Larger(a, b) == IF a >= b THEN a ELSE b
ForcedPart(c) == IF c.fan_speed_forced THEN c.fan_speed ELSE 0
BoardSpeed(c, o) ==
  LET forced_fan_speed == Larger(ForcedPart(c), ForcedPart(o))
  IN  IF forced_fan_speed # 0 THEN forced_fan_speed
      ELSE Larger(c.fan_speed, o.fan_speed)
Duty(speed) == (speed * 255 + 99) \div 100            \* DIV_ROUND_UP

Update(c, o) ==             \* the feedback write to the chip may be lost
  /\ chip' = c /\ others' = o
  /\ pwm' = Duty(BoardSpeed(c, o))
  /\ fan_speed_feedback' \in
       IF perst THEN {fan_speed_feedback}
       ELSE {fan_speed_feedback, BoardSpeed(c, o)}

SmcFanStart == fan_speed = 0 /\ fan_speed_forced = FALSE /\ fan_speed_feedback = 0
FanInit ==
  /\ Init /\ SmcFanStart
  /\ chip = Request_(INITIAL_FAN_SPEED, FALSE)
  /\ others = Request_(INITIAL_FAN_SPEED, FALSE)
  /\ pwm = Duty(INITIAL_FAN_SPEED)
  /\ tripped = FALSE /\ trips = 0
-----------------------------------------------------------------------------
(* SMC: both handlers run on the system work queue, one after the other, and *)
(* no thread runs while the request handler, an interrupt handler, does.     *)
ThreadRuns == pc \notin {"clear", "load"}
FanIdle == /\ ThreadRuns
           /\ posting \cap {FanSpeedUpdate, ForcedFanSpeedUpdate} = {}

fan_ctrl_work_handler(curve) ==         \* once per second
  /\ FanIdle /\ ~fan_speed_forced
  /\ fan_speed' = curve
  /\ PostData(FanSpeedUpdate, curve)
  /\ UNCHANGED <<fan_speed_forced, fan_speed_feedback, chip, others, pwm,
                 tripped, trips>>

force_fan_speed(raw_speed, curve) ==    \* TT_SMC_MSG_FORCE_FAN_SPEED
  /\ FanIdle
  /\ fan_speed_forced' = (raw_speed # Unforce)
  /\ fan_speed' = IF raw_speed = Unforce THEN curve ELSE raw_speed
  /\ PostData(IF raw_speed = Unforce THEN FanSpeedUpdate
              ELSE ForcedFanSpeedUpdate, fan_speed')
  /\ UNCHANGED <<fan_speed_feedback, chip, others, pwm, tripped, trips>>

OtherPost(id, d) ==                     \* posts that are not about the fan
  /\ ThreadRuns
  /\ id \notin {FanSpeedUpdate, ForcedFanSpeedUpdate}
  /\ PostData(id, d)
  /\ UNCHANGED fan_vars

(* DMC: process_fan_speed_update and process_forced_fan_speed_update; the    *)
(* processors of other messages leave the fan alone.                         *)
ProcessMessage ==
  /\ Process
  /\ IF msg.msg_id \in {FanSpeedUpdate, ForcedFanSpeedUpdate}
     THEN /\ Update(Request_(msg.data, msg.msg_id = ForcedFanSpeedUpdate), others)
          /\ tripped' = FALSE
          /\ UNCHANGED <<fan_speed, fan_speed_forced, trips>>
     ELSE UNCHANGED fan_vars

OtherChip(speed, forced) ==             \* a message from another chip
  /\ pc = "poll"                         \* the loop is at that chip
  /\ Update(chip, Request_(speed, forced))
  /\ UNCHANGED <<vars, fan_speed, fan_speed_forced, tripped, trips>>

(* DMC: handle_therm_trip and handle_watchdog_reset ("hold fan at 100% until *)
(* we hear otherwise from this chip").                                       *)
SmcFanRestarts ==
  /\ fan_speed' = 0 /\ fan_speed_forced' = FALSE /\ fan_speed_feedback' = 0

TripReset_unforced ==
  /\ trips < MaxTrips /\ trips' = trips + 1
  /\ UrgentReset /\ SmcFanRestarts
  /\ chip' = Request_(100, FALSE) /\ pwm' = 255
  /\ tripped' = TRUE
  /\ UNCHANGED others

TripReset ==
  /\ trips < MaxTrips /\ trips' = trips + 1
  /\ UrgentReset /\ SmcFanRestarts
  /\ chip' = Request_(100, TRUE) /\ pwm' = 255
  /\ tripped' = TRUE
  /\ UNCHANGED others

KeepRequests == SmcFanRestarts /\ UNCHANGED <<chip, others, pwm, tripped, trips>>
DmcReset == (UrgentReset \/ ProcessReset) /\ KeepRequests \* PGOOD, request
PerstReset == Perst /\ KeepRequests
DmcReboot ==                            \* kCm2DmResetLevelDmc: sys_reboot
  /\ ProcessReset /\ SmcFanRestarts
  /\ chip' = Request_(INITIAL_FAN_SPEED, FALSE)
  /\ others' = Request_(INITIAL_FAN_SPEED, FALSE)
  /\ pwm' = Duty(INITIAL_FAN_SPEED)
  /\ tripped' = FALSE /\ UNCHANGED trips

Carry ==                                \* the transport, nothing of the fan
  /\ \/ ThreadRuns /\ \E id \in Ids : PostBit(id)
     \/ Request \/ Poll \/ Transfer \/ Duplicate \/ NoReset
  /\ UNCHANGED fan_vars

FanNext ==
  \/ \E curve \in Data : fan_ctrl_work_handler(curve)
  \/ \E raw \in Data \cup {Unforce}, curve \in Data : force_fan_speed(raw, curve)
  \/ \E id \in Ids, d \in Data : OtherPost(id, d)
  \/ \E speed \in OtherSpeeds, forced \in BOOLEAN : OtherChip(speed, forced)
  \/ ProcessMessage \/ TripReset \/ DmcReset \/ DmcReboot \/ PerstReset \/ Carry

FanSpec == FanInit /\ [][FanNext]_all_vars
-----------------------------------------------------------------------------
(* "Hold fan at 100% until we hear otherwise from this chip" (main.c:436 and *)
(* 487): after a reset for heat or a hang the fan runs at full duty until    *)
(* the restarted SMC's own request arrives, whatever the other chips ask     *)
(* for, and although messages of the SMC's previous life may be in flight.   *)
FullDutyAfterTrip == tripped => pwm = 255

(* The duty cycle is the one the requests of the chips determine at every    *)
(* moment, resets included: no path updates a request and forgets the fan.   *)
DutyFollowsRequests == pwm = Duty(BoardSpeed(chip, others))

(* "The raw speed of the fan to set" (msgqueue.h:157): once the host has     *)
(* forced a speed and nothing about the fan is waiting or in flight, the DMC *)
(* holds that speed as forced.                                               *)
FanQuiet == \A id \in {FanSpeedUpdate, ForcedFanSpeedUpdate} :
              ~Waiting(id) /\ ~InFlight(id)
ForcedSpeedHolds == fan_speed_forced /\ FanQuiet =>
                      chip = Request_(fan_speed, TRUE)
=============================================================================
