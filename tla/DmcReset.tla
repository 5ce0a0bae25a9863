------------------------------ MODULE DmcReset ------------------------------
(* Who resets a chip and when: the DMC's main loop (app/dmc/src/main.c), the *)
(* interrupt and timer handlers that feed it (lib/tenstorrent/bh_chip and    *)
(* jtag_bootrom.c), and the reset sequence (jtag_bootrom/reset.c), for one   *)
(* chip.  Interrupts may come between any two steps.  Messages of the SMC    *)
(* are a set from which the DMC takes one at a time: how they travel is the  *)
(* subject of Cm2Dm.                                                         *)
CONSTANT Causes         \* the disturbances of this instance
ASSUME CausesAssumption ==
  Causes \subseteq {"perst", "therm", "watchdog", "pgood", "request", "jtag"}

VARIABLES
  data,                 \* chip->data
  timer,                \* auto_reset_timer is running
  cancelled,            \* smbus_cancel is in force
  pgood, asic_reset,    \* power good input, ASIC reset output (asserted)
  smc, box,             \* the SMC: its state, the messages it has posted
  pc, caller,           \* place in main, and who runs the reset sequence
  inited,               \* history: this SMC life has got the init data
  hot,                  \* history: thermal trip, ASIC not reset since
  unserved              \* history: PERST, ARC not reset since, and when it came

hw_vars == <<timer, cancelled, pgood, asic_reset>>
life_vars == <<smc, box, inited>>
vars == <<data, hw_vars, life_vars, pc, caller, hot, unserved>>

Flags == {"trigger_reset", "performing_reset", "therm_trip_triggered",
          "arc_wdog_triggered", "pgood_fall_triggered", "pgood_rise_triggered",
          "pgood_severe_fault", "auto_reset_timeout", "arc_needs_init_msg",
          "pgood_last_trip_recent"}     \* the last two: not 0; under 1 s ago
Set(flags) == data' = [f \in Flags |-> f \in flags \/ data[f]]
Clear(flags) == data' = [f \in Flags |-> f \notin flags /\ data[f]]

LifeEnds == smc' = "off" /\ box' = {} /\ inited' = FALSE

Init ==                 \* main reaches its loop
  /\ data = [f \in Flags |-> FALSE]
  /\ timer = FALSE /\ cancelled = FALSE
  /\ pgood = TRUE /\ asic_reset = FALSE
  /\ smc = "boot" /\ box = {} /\ inited = FALSE
  /\ pc = "wait" /\ caller = "none"
  /\ hot = FALSE /\ unserved = "no"
-----------------------------------------------------------------------------
(* Interrupt and timer handlers.                                             *)
Forced == pc \in {"power", "id", "soft", "clear"} /\ caller # "perst"

gpio_asic_reset_callback ==             \* PERST
  /\ "perst" \in Causes
  /\ Set({"trigger_reset"})
  /\ cancelled' = (cancelled \/ ~data["performing_reset"])
  /\ LifeEnds
  /\ unserved' = IF Forced THEN "forced" ELSE "idle"
  /\ UNCHANGED <<timer, pgood, asic_reset, pc, caller, hot>>

therm_trip_detected ==
  /\ "therm" \in Causes /\ smc # "off"
  /\ Set({"therm_trip_triggered"})
  /\ cancelled' = TRUE /\ hot' = TRUE
  /\ UNCHANGED <<timer, pgood, asic_reset, life_vars, pc, caller, unserved>>

bh_chip_auto_reset ==                   \* auto_reset_timer expires
  /\ timer /\ timer' = FALSE
  /\ Set({"arc_wdog_triggered"})
  /\ cancelled' = TRUE
  /\ UNCHANGED <<pgood, asic_reset, life_vars, pc, caller, hot, unserved>>

(* The power fails or returns; the handler samples the pin, so that a short  *)
(* dip is seen as a rise only and a short return as a fall only.             *)
pgood_change_detected(level) ==
  /\ "pgood" \in Causes
  /\ pgood' = level
  /\ Set({IF level THEN "pgood_rise_triggered" ELSE "pgood_fall_triggered"})
  /\ LifeEnds
  /\ UNCHANGED <<timer, cancelled, asic_reset, pc, caller, hot, unserved>>

SecondPasses ==
  /\ data["pgood_last_trip_recent"]
  /\ Clear({"pgood_last_trip_recent"})
  /\ UNCHANGED <<hw_vars, life_vars, pc, caller, hot, unserved>>
-----------------------------------------------------------------------------
(* The SMC.                                                                  *)
Life(s, messages) ==
  /\ smc' = s /\ box' = messages
  /\ UNCHANGED <<data, hw_vars, inited, pc, caller, hot, unserved>>

Boot == /\ smc = "boot"                 \* wdt_tt_bh_init, bh_arc_init_end
        /\ Life("up", {"timeout_off", "ready"})
set_watchdog_timeout(on) ==
  /\ "watchdog" \in Causes /\ smc = "up"
  /\ Life("up", IF on THEN (box \ {"timeout_off"}) \cup {"timeout_on"}
                ELSE (box \ {"timeout_on"}) \cup {"timeout_off"})
wdt_tt_bh_feed == "watchdog" \in Causes /\ smc = "up" /\ Life(smc, box \cup {"heartbeat"})
IssueChipReset == "request" \in Causes /\ smc = "up" /\ Life(smc, box \cup {"reset"})
Hang == "watchdog" \in Causes /\ smc = "up" /\ Life("hung", box)
-----------------------------------------------------------------------------
(* The reset sequence: bh_chip_reset_chip with jtag_bootrom_reset_sequence;  *)
(* handle_perst enters at "power", with trigger_reset taken.                 *)
Begin ==
  /\ pc = "begin" /\ pc' = "power"
  /\ Set({"trigger_reset"})             \* force_reset
  /\ cancelled' = FALSE
  /\ UNCHANGED <<timer, pgood, asic_reset, life_vars, caller, hot, unserved>>

jtag_bootrom_reset_asic(ok) ==          \* waits for power good first
  /\ pc = "power" /\ pgood
  /\ ok \/ "jtag" \in Causes            \* jtag_setup may fail
  /\ asic_reset' = ~ok
  /\ LifeEnds
  /\ hot' = FALSE
  /\ pc' = IF ok THEN "id" ELSE "return"
  /\ UNCHANGED <<data, timer, cancelled, pgood, caller, unserved>>

WaitForId ==                            \* jtag_bitbang_wait_for_id, axiwait
  /\ pc = "id" /\ pgood /\ pc' = "soft"
  /\ UNCHANGED <<data, hw_vars, life_vars, caller, hot, unserved>>

jtag_bootrom_soft_reset_arc ==
  /\ pc = "soft"
  /\ smc' = IF pgood THEN "boot" ELSE "off"
  /\ unserved' = "no"
  /\ pc' = IF caller = "perst" THEN "return" ELSE "clear"
  /\ UNCHANGED <<data, hw_vars, box, inited, caller, hot>>

ClearTrigger ==
  /\ pc = "clear" /\ pc' = "return"
  /\ Clear({"trigger_reset"})
  /\ UNCHANGED <<hw_vars, life_vars, caller, hot, unserved>>

Return ==                               \* the bus cancel, by caller
  /\ pc = "return" /\ pc' = "done"
  /\ cancelled' = IF caller \in {"therm", "perst"}
                  THEN cancelled \/ data["trigger_reset"]
                  ELSE cancelled /\ caller # "wdog"
  /\ UNCHANGED <<data, timer, pgood, asic_reset, life_vars, caller, hot, unserved>>

After(who) == IF who = "therm" THEN "wdog" ELSE IF who = "wdog" THEN "perst"
              ELSE IF who = "perst" THEN "pgood"
              ELSE IF who = "rise" THEN "init" ELSE "wait"
Done_clearsTrigger ==
  /\ pc = "done" /\ pc' = After(caller) /\ caller' = "none"
  /\ Clear(IF caller = "rise" THEN {"pgood_rise_triggered"}
           ELSE IF caller = "request" THEN {} ELSE {"performing_reset", "trigger_reset"})
  /\ UNCHANGED <<hw_vars, life_vars, hot, unserved>>

Done ==
  /\ pc = "done" /\ pc' = After(caller) /\ caller' = "none"
  /\ Clear(IF caller = "rise" THEN {"pgood_rise_triggered"}
           ELSE IF caller = "request" THEN {} ELSE {"performing_reset"})
  /\ UNCHANGED <<hw_vars, life_vars, hot, unserved>>
-----------------------------------------------------------------------------
(* The main loop: each handler looks at its own flag.                        *)
Wake ==                                 \* a 20 ms timer posts events
  /\ pc = "wait" /\ pc' = "therm"
  /\ UNCHANGED <<data, hw_vars, life_vars, caller, hot, unserved>>

Skip(flag, next) ==                     \* nothing for this handler
  /\ ~data[flag] /\ pc' = next
  /\ UNCHANGED <<data, hw_vars, life_vars, caller, hot, unserved>>

Take(flag, place, who) ==               \* performing_reset, bus cancel cleared
  /\ data[flag]
  /\ data' = [data EXCEPT ![flag] = FALSE, !["performing_reset"] = TRUE]
  /\ cancelled' = FALSE
  /\ pc' = place /\ caller' = who
  /\ UNCHANGED <<timer, pgood, asic_reset, life_vars, hot, unserved>>

handle_therm_trip ==
  /\ pc = "therm"
  /\ \/ Skip("therm_trip_triggered", "wdog")
     \/ ~data["trigger_reset"] /\ Take("therm_trip_triggered", "begin", "therm")
     \/ /\ data["therm_trip_triggered"] /\ data["trigger_reset"]
        /\ Clear({"therm_trip_triggered"})
        /\ pc' = "wdog"                 \* "Prioritize the system rebooting"
        /\ UNCHANGED <<hw_vars, life_vars, caller, hot, unserved>>

handle_watchdog_reset_skips ==
  /\ pc = "wdog" /\ pc' = "perst"
  /\ Clear({"arc_wdog_triggered", "auto_reset_timeout"})
  /\ UNCHANGED <<hw_vars, life_vars, caller, hot, unserved>>

handle_watchdog_reset ==
  /\ pc = "wdog"
  /\ \/ Skip("arc_wdog_triggered", "perst")
     \/ /\ data["arc_wdog_triggered"]
        /\ data' = [data EXCEPT !["arc_wdog_triggered"] = FALSE,
                                !["auto_reset_timeout"] = FALSE,
                                !["performing_reset"] = TRUE]
        /\ cancelled' = FALSE
        /\ pc' = "begin" /\ caller' = "wdog"
        /\ UNCHANGED <<timer, pgood, asic_reset, life_vars, hot, unserved>>

handle_perst ==
  /\ pc = "perst"
  /\ \/ Skip("trigger_reset", "pgood")
     \/ Take("trigger_reset", "power", "perst")

handle_pgood_fall ==
  /\ pc = "pgood"
  /\ IF data["pgood_fall_triggered"] /\ ~data["pgood_severe_fault"]
     THEN /\ asic_reset' = TRUE /\ LifeEnds /\ hot' = FALSE
          /\ data' = [data EXCEPT
               !["pgood_severe_fault"] = data["pgood_last_trip_recent"],
               !["pgood_last_trip_recent"] = TRUE]
          /\ pc' = "fell"
     ELSE pc' = "rise" /\ UNCHANGED <<data, asic_reset, life_vars, hot>>
  /\ UNCHANGED <<timer, cancelled, pgood, caller, unserved>>

handle_pgood_fell ==
  /\ pc = "fell" /\ pc' = "rise"
  /\ Clear({"pgood_fall_triggered"})
  /\ UNCHANGED <<hw_vars, life_vars, caller, hot, unserved>>

handle_pgood_rise ==
  /\ pc = "rise"
  /\ IF data["pgood_rise_triggered"] /\ ~data["pgood_severe_fault"]
     THEN pc' = "begin" /\ caller' = "rise"
     ELSE pc' = "init" /\ UNCHANGED caller
  /\ UNCHANGED <<data, hw_vars, life_vars, hot, unserved>>

Answers == smc \in {"up", "hung"} /\ ~cancelled /\ ~asic_reset

send_init_data(ok) ==                   \* a transfer may fail at any time
  /\ pc = "init" /\ pc' = "poll"
  /\ ok => data["arc_needs_init_msg"] /\ Answers
  /\ IF ok THEN Clear({"arc_needs_init_msg"}) /\ inited' = TRUE
     ELSE UNCHANGED <<data, inited>>
  /\ UNCHANGED <<hw_vars, smc, box, caller, hot, unserved>>

PollFails_noUncancel(recover) ==
  /\ pc = "poll" /\ pc' = "wait"
  /\ UNCHANGED <<data, hw_vars, life_vars, caller, hot, unserved>>

PollFails(recover) ==                   \* -EIO; recovery is rate limited
  /\ pc = "poll" /\ pc' = "wait"
  /\ cancelled' = (cancelled /\ ~recover)
  /\ UNCHANGED <<data, timer, pgood, asic_reset, life_vars, caller, hot, unserved>>

PollEmpty ==
  /\ pc = "poll" /\ Answers /\ box = {} /\ pc' = "wait"
  /\ UNCHANGED <<data, hw_vars, life_vars, caller, hot, unserved>>

process_cm2dm_message(m) ==
  /\ pc = "poll" /\ Answers /\ m \in box
  /\ box' = box \ {m}
  /\ timer' = IF m = "timeout_off" THEN FALSE
              ELSE timer \/ m = "timeout_on"
                         \/ (m = "heartbeat" /\ data["auto_reset_timeout"])
  /\ data' = [data EXCEPT
       !["auto_reset_timeout"] = (@ \/ m = "timeout_on") /\ m # "timeout_off",
       !["arc_needs_init_msg"] = @ \/ m = "ready"]
  /\ IF m = "reset" THEN pc' = "begin" /\ caller' = "request" /\ cancelled' = FALSE
     ELSE pc' = "wait" /\ UNCHANGED <<caller, cancelled>>
  /\ UNCHANGED <<pgood, asic_reset, smc, inited, hot, unserved>>

Interrupt == \/ gpio_asic_reset_callback \/ therm_trip_detected
             \/ \E level \in BOOLEAN : pgood_change_detected(level)
Smc == \/ \E on \in BOOLEAN : set_watchdog_timeout(on)
       \/ wdt_tt_bh_feed \/ IssueChipReset \/ Hang
Sequence == \/ Begin \/ (\E ok \in BOOLEAN : jtag_bootrom_reset_asic(ok))
            \/ WaitForId \/ jtag_bootrom_soft_reset_arc \/ ClearTrigger
            \/ Return \/ Done
Messages == {"ready", "timeout_on", "timeout_off", "heartbeat", "reset"}
Loop == \/ Wake \/ handle_therm_trip \/ handle_watchdog_reset \/ handle_perst
        \/ handle_pgood_fall \/ handle_pgood_fell \/ handle_pgood_rise
        \/ (\E ok \in BOOLEAN : send_init_data(ok))
        \/ (\E recover \in BOOLEAN : PollFails(recover)) \/ PollEmpty
        \/ (\E m \in Messages : process_cm2dm_message(m))
Next == Interrupt \/ bh_chip_auto_reset \/ SecondPasses \/ Smc \/ Boot
        \/ Sequence \/ Loop

Spec == Init /\ [][Next]_vars

(* The main thread runs whenever it can; the SMC boots once its reset is     *)
(* over; timers expire; transfers that are tried again and again are         *)
(* answered in the end, and so is the bus recovery.                          *)
Fairness ==
  /\ WF_vars(Sequence \/ Loop) /\ WF_vars(Boot) /\ WF_vars(bh_chip_auto_reset)
  /\ SF_vars(jtag_bootrom_reset_asic(TRUE))
  /\ SF_vars(send_init_data(TRUE)) /\ SF_vars(PollFails(TRUE))
  /\ \A m \in Messages : SF_vars(process_cm2dm_message(m))
FairSpec == Spec /\ Fairness
-----------------------------------------------------------------------------
(* Types; and the reset sequence is left as it was entered: it has a caller  *)
(* while it runs, and performing_reset is set exactly for the callers that   *)
(* set it (main.c:464, 500, 538).                                            *)
SequencePlaces == {"begin", "power", "id", "soft", "clear", "return", "done"}
TypeOK ==
  /\ data \in [Flags -> BOOLEAN]
  /\ timer \in BOOLEAN /\ cancelled \in BOOLEAN
  /\ pgood \in BOOLEAN /\ asic_reset \in BOOLEAN
  /\ smc \in {"off", "boot", "up", "hung"} /\ box \subseteq Messages
  /\ inited \in BOOLEAN /\ hot \in BOOLEAN
  /\ unserved \in {"no", "idle", "forced"}
  /\ IF pc \in SequencePlaces
     THEN caller \in {"therm", "wdog", "perst", "rise", "request"}
     ELSE /\ caller = "none"
          /\ pc \in {"wait", "therm", "wdog", "perst", "pgood", "fell", "rise",
                     "init", "poll"}
  /\ data["performing_reset"] <=> caller \in {"therm", "wdog", "perst"}

(* A thermal trip is never forgotten: until the ASIC is put in reset, its    *)
(* flag is set, or the reset it caused has begun, or it was left to a PERST  *)
(* whose reset comes next (main.c:444), whenever further trips, PERSTs and   *)
(* resets interrupt.                                                         *)
TripNotForgotten ==
  hot => \/ data["therm_trip_triggered"]
         \/ pc \in {"begin", "power"}
         \/ data["trigger_reset"] /\ pc \in {"wdog", "perst"}

(* A PERST that does not fall into a reset the DMC itself began stays noted  *)
(* in trigger_reset until handle_perst takes it (main.c:508), also when it   *)
(* comes while an earlier PERST is handled; only a failed JTAG setup ends    *)
(* the handling without an ARC reset, and then the ASIC is held in reset.    *)
PerstKept ==
  unserved = "idle" => \/ data["trigger_reset"] \/ asic_reset
                       \/ caller = "perst" /\ pc \in {"power", "id", "soft"}

(* Neither is lost, whatever arrives while the other is handled.             *)
TriggersKept == TripNotForgotten /\ PerstKept

(* The messages to the SMC recover.  The bus does not stay cancelled: PERST  *)
(* during a reset that was requested or follows PGOOD cancels it with nobody *)
(* left to clear it, and bh_chip_get_cm2dm_message does (bh_chip.c:71).  And *)
(* an SMC that comes up and stays up gets the init data (main.c:550) for its *)
(* own life, whatever happened to the lives before.                          *)
BusRecovers ==
  /\ []<>(pc = "wait") => []<>~cancelled
  /\ <>[](smc = "up") => <>[]inited

(* An SMC that hangs while the DMC watches it, and has not itself turned the *)
(* watchdog off, is reset (main.c:470).                                      *)
HungRecovered ==
  (smc = "hung" /\ timer /\ "timeout_off" \notin box) ~> smc # "hung"

(* "pgood rose, resetting chip" (bh_chip.c:287): when the main loop waits    *)
(* with the power good, the ASIC is in reset only for a severe fault or      *)
(* while the rise is still to be handled.                                    *)
RiseReleases == pc = "wait" /\ asic_reset /\ pgood =>
                  data["pgood_severe_fault"] \/ data["pgood_rise_triggered"]
=============================================================================
