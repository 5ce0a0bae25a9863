--------------------------- MODULE BringUpProofs ----------------------------
(* TLAPS proofs about resets and what bring-up leaves behind. Whatever       *)
(* disturbances come and in whatever order, the DMC forgets no thermal trip  *)
(* and no PERST. The calibration record in flash survives a power loss at    *)
(* any point, for any width of its sequence numbers; an Ethernet tile only   *)
(* ever runs what was loaded whole; the GDDR settings that are kept are      *)
(* settings the memory was tested with; and the regulators that bring-up     *)
(* configures hold what they were told.                                      *)
EXTENDS DmcReset, GddrCal, Gddr, Eth, Regulator, TLAPS

(* While the DMC runs a sequence it began itself trigger_reset is set, and   *)
(* once the ARC is reset in it only a later PERST is unserved.               *)
ForcedTriggers ==
  /\ pc \in {"power", "id", "soft", "clear"} /\ caller # "perst" =>
       data["trigger_reset"]
  /\ pc = "clear" => caller # "perst" /\ unserved # "idle"
Inv == TypeOK /\ TripNotForgotten /\ PerstKept /\ ForcedTriggers

(* Setting or clearing flags keeps the type of chip->data and says of each   *)
(* flag what became of it.                                                   *)
LEMMA SetFlags ==
  ASSUME data \in [Flags -> BOOLEAN], NEW flags \in SUBSET Flags, Set(flags)
  PROVE  /\ data' \in [Flags -> BOOLEAN]
         /\ \A f \in Flags : data[f]' <=> f \in flags \/ data[f]
BY Zenon DEF Set
(* The same for clearing.                                                    *)
LEMMA ClearFlags ==
  ASSUME data \in [Flags -> BOOLEAN], NEW flags \in SUBSET Flags, Clear(flags)
  PROVE  /\ data' \in [Flags -> BOOLEAN]
         /\ \A f \in Flags : data[f]' <=> f \notin flags /\ data[f]
BY Zenon DEF Clear

(* No interrupt or timer handler forgets a trip or a PERST.                  *)
LEMMA InterruptKeeps ==
  ASSUME Inv, Interrupt \/ bh_chip_auto_reset \/ SecondPasses
  PROVE  Inv'
<1> USE DEF Inv
<1>1. CASE gpio_asic_reset_callback
  <2>1. Set({"trigger_reset"}) BY <1>1, Zenon DEF gpio_asic_reset_callback
  <2>2. /\ data' \in [Flags -> BOOLEAN]
        /\ \A f \in Flags : data[f]' <=> f \in {"trigger_reset"} \/ data[f]
    BY <2>1, SetFlags, Zenon DEF TypeOK, Flags
  <2>3. TypeOK' BY <1>1, <2>2, Zenon
    DEF TypeOK, gpio_asic_reset_callback, LifeEnds, Forced, Flags,
         SequencePlaces, Messages, hw_vars, life_vars
  <2>4. TripNotForgotten' BY <1>1, <2>2, Zenon
    DEF TypeOK, TripNotForgotten, gpio_asic_reset_callback, LifeEnds, Forced,
         Flags, SequencePlaces, hw_vars, life_vars
  <2>5. PerstKept' BY <1>1, <2>2, Zenon
    DEF TypeOK, PerstKept, ForcedTriggers, gpio_asic_reset_callback, LifeEnds,
         Forced, Flags, SequencePlaces, hw_vars, life_vars
  <2>6. ForcedTriggers' BY <1>1, <2>2, Zenon
    DEF TypeOK, ForcedTriggers, gpio_asic_reset_callback, LifeEnds, Forced,
         Flags, SequencePlaces, hw_vars, life_vars
  <2> QED BY <2>3, <2>4, <2>5, <2>6, Zenon
<1>2. CASE therm_trip_detected
  <2>1. Set({"therm_trip_triggered"}) BY <1>2, Zenon DEF therm_trip_detected
  <2>2. /\ data' \in [Flags -> BOOLEAN]
        /\ \A f \in Flags : data[f]' <=> f \in {"therm_trip_triggered"} \/ data[f]
    BY <2>1, SetFlags, Zenon DEF TypeOK, Flags
  <2>3. TypeOK' BY <1>2, <2>2, SMTT(30)
    DEF TypeOK, therm_trip_detected, Flags, SequencePlaces, Messages, hw_vars,
         life_vars
  <2>4. TripNotForgotten' BY <1>2, <2>2, Zenon
    DEF TypeOK, TripNotForgotten, therm_trip_detected, Flags, SequencePlaces,
         hw_vars, life_vars
  <2>5. PerstKept' BY <1>2, <2>2, Zenon
    DEF TypeOK, PerstKept, ForcedTriggers, therm_trip_detected, Flags,
         SequencePlaces, hw_vars, life_vars
  <2>6. ForcedTriggers' BY <1>2, <2>2, Zenon
    DEF TypeOK, ForcedTriggers, therm_trip_detected, Flags, SequencePlaces,
         hw_vars, life_vars
  <2> QED BY <2>3, <2>4, <2>5, <2>6, Zenon
<1>3. CASE pgood_change_detected(TRUE)
  <2>1. Set({"pgood_rise_triggered"}) BY <1>3, Zenon DEF pgood_change_detected
  <2>2. /\ data' \in [Flags -> BOOLEAN]
        /\ \A f \in Flags : data[f]' <=> f \in {"pgood_rise_triggered"} \/ data[f]
    BY <2>1, SetFlags, Zenon DEF TypeOK, Flags
  <2>3. TypeOK' BY <1>3, <2>2, Zenon
    DEF TypeOK, pgood_change_detected, LifeEnds, Flags, SequencePlaces,
         Messages, hw_vars, life_vars
  <2>4. TripNotForgotten' BY <1>3, <2>2, Zenon
    DEF TypeOK, TripNotForgotten, pgood_change_detected, LifeEnds, Flags,
         SequencePlaces, hw_vars, life_vars
  <2>5. PerstKept' BY <1>3, <2>2, Zenon
    DEF TypeOK, PerstKept, ForcedTriggers, pgood_change_detected, LifeEnds,
         Flags, SequencePlaces, hw_vars, life_vars
  <2>6. ForcedTriggers' BY <1>3, <2>2, Zenon
    DEF TypeOK, ForcedTriggers, pgood_change_detected, LifeEnds, Flags,
         SequencePlaces, hw_vars, life_vars
  <2> QED BY <2>3, <2>4, <2>5, <2>6, Zenon
<1>4. CASE pgood_change_detected(FALSE)
  <2>1. Set({"pgood_fall_triggered"}) BY <1>4, Zenon DEF pgood_change_detected
  <2>2. /\ data' \in [Flags -> BOOLEAN]
        /\ \A f \in Flags : data[f]' <=> f \in {"pgood_fall_triggered"} \/ data[f]
    BY <2>1, SetFlags, Zenon DEF TypeOK, Flags
  <2>3. TypeOK' BY <1>4, <2>2, Zenon
    DEF TypeOK, pgood_change_detected, LifeEnds, Flags, SequencePlaces,
         Messages, hw_vars, life_vars
  <2>4. TripNotForgotten' BY <1>4, <2>2, Zenon
    DEF TypeOK, TripNotForgotten, pgood_change_detected, LifeEnds, Flags,
         SequencePlaces, hw_vars, life_vars
  <2>5. PerstKept' BY <1>4, <2>2, Zenon
    DEF TypeOK, PerstKept, ForcedTriggers, pgood_change_detected, LifeEnds,
         Flags, SequencePlaces, hw_vars, life_vars
  <2>6. ForcedTriggers' BY <1>4, <2>2, Zenon
    DEF TypeOK, ForcedTriggers, pgood_change_detected, LifeEnds, Flags,
         SequencePlaces, hw_vars, life_vars
  <2> QED BY <2>3, <2>4, <2>5, <2>6, Zenon
<1>5. CASE bh_chip_auto_reset
  <2>1. Set({"arc_wdog_triggered"}) BY <1>5, Zenon DEF bh_chip_auto_reset
  <2>2. /\ data' \in [Flags -> BOOLEAN]
        /\ \A f \in Flags : data[f]' <=> f \in {"arc_wdog_triggered"} \/ data[f]
    BY <2>1, SetFlags, Zenon DEF TypeOK, Flags
  <2>3. TypeOK' BY <1>5, <2>2, ZenonT(60)
    DEF TypeOK, bh_chip_auto_reset, Flags, SequencePlaces, Messages, hw_vars,
         life_vars
  <2>4. TripNotForgotten' BY <1>5, <2>2, Zenon
    DEF TypeOK, TripNotForgotten, bh_chip_auto_reset, Flags, SequencePlaces,
         hw_vars, life_vars
  <2>5. PerstKept' BY <1>5, <2>2, Zenon
    DEF TypeOK, PerstKept, ForcedTriggers, bh_chip_auto_reset, Flags,
         SequencePlaces, hw_vars, life_vars
  <2>6. ForcedTriggers' BY <1>5, <2>2, Zenon
    DEF TypeOK, ForcedTriggers, bh_chip_auto_reset, Flags, SequencePlaces,
         hw_vars, life_vars
  <2> QED BY <2>3, <2>4, <2>5, <2>6, Zenon
<1>6. CASE SecondPasses
  <2>1. Clear({"pgood_last_trip_recent"}) BY <1>6, Zenon DEF SecondPasses
  <2>2. /\ data' \in [Flags -> BOOLEAN]
        /\ \A f \in Flags : data[f]' <=> f \notin {"pgood_last_trip_recent"} /\ data[f]
    BY <2>1, ClearFlags, Zenon DEF TypeOK, Flags
  <2>3. TypeOK' BY <1>6, <2>2, SMTT(30)
    DEF TypeOK, SecondPasses, Flags, SequencePlaces, Messages, hw_vars,
         life_vars
  <2>4. TripNotForgotten' BY <1>6, <2>2, Zenon
    DEF TypeOK, TripNotForgotten, SecondPasses, Flags, SequencePlaces, hw_vars,
         life_vars
  <2>5. PerstKept' BY <1>6, <2>2, Zenon
    DEF TypeOK, PerstKept, ForcedTriggers, SecondPasses, Flags, SequencePlaces,
         hw_vars, life_vars
  <2>6. ForcedTriggers' BY <1>6, <2>2, Zenon
    DEF TypeOK, ForcedTriggers, SecondPasses, Flags, SequencePlaces, hw_vars,
         life_vars
  <2> QED BY <2>3, <2>4, <2>5, <2>6, Zenon
<1> QED BY <1>1, <1>2, <1>3, <1>4, <1>5, <1>6, Zenon DEF Interrupt

(* The SMC's own steps touch only its own state.                             *)
LEMMA SmcKeeps ==
  ASSUME Inv, Smc \/ Boot
  PROVE  Inv'
<1> USE DEF Inv
<1>1. CASE Boot
  <2>2. data' = data BY <1>1, Zenon DEF Boot, Life
  <2>3. TypeOK' BY <1>1, <2>2, SMTT(30)
    DEF TypeOK, Boot, Life, Flags, SequencePlaces, Messages, hw_vars, life_vars
  <2>4. TripNotForgotten' BY <1>1, <2>2, Zenon
    DEF TypeOK, TripNotForgotten, Boot, Life, Flags, SequencePlaces, hw_vars,
         life_vars
  <2>5. PerstKept' BY <1>1, <2>2, Zenon
    DEF TypeOK, PerstKept, ForcedTriggers, Boot, Life, Flags, SequencePlaces,
         hw_vars, life_vars
  <2>6. ForcedTriggers' BY <1>1, <2>2, Zenon
    DEF TypeOK, ForcedTriggers, Boot, Life, Flags, SequencePlaces, hw_vars,
         life_vars
  <2> QED BY <2>3, <2>4, <2>5, <2>6, Zenon
<1>2. CASE set_watchdog_timeout(TRUE)
  <2>2. data' = data BY <1>2, Zenon DEF set_watchdog_timeout, Life
  <2>3. TypeOK' BY <1>2, <2>2, SMTT(30)
    DEF TypeOK, set_watchdog_timeout, Life, Flags, SequencePlaces, Messages,
         hw_vars, life_vars
  <2>4. TripNotForgotten' BY <1>2, <2>2, Zenon
    DEF TypeOK, TripNotForgotten, set_watchdog_timeout, Life, Flags,
         SequencePlaces, hw_vars, life_vars
  <2>5. PerstKept' BY <1>2, <2>2, Zenon
    DEF TypeOK, PerstKept, ForcedTriggers, set_watchdog_timeout, Life, Flags,
         SequencePlaces, hw_vars, life_vars
  <2>6. ForcedTriggers' BY <1>2, <2>2, Zenon
    DEF TypeOK, ForcedTriggers, set_watchdog_timeout, Life, Flags,
         SequencePlaces, hw_vars, life_vars
  <2> QED BY <2>3, <2>4, <2>5, <2>6, Zenon
<1>3. CASE set_watchdog_timeout(FALSE)
  <2>2. data' = data BY <1>3, Zenon DEF set_watchdog_timeout, Life
  <2>3. TypeOK' BY <1>3, <2>2, SMTT(30)
    DEF TypeOK, set_watchdog_timeout, Life, Flags, SequencePlaces, Messages,
         hw_vars, life_vars
  <2>4. TripNotForgotten' BY <1>3, <2>2, Zenon
    DEF TypeOK, TripNotForgotten, set_watchdog_timeout, Life, Flags,
         SequencePlaces, hw_vars, life_vars
  <2>5. PerstKept' BY <1>3, <2>2, Zenon
    DEF TypeOK, PerstKept, ForcedTriggers, set_watchdog_timeout, Life, Flags,
         SequencePlaces, hw_vars, life_vars
  <2>6. ForcedTriggers' BY <1>3, <2>2, Zenon
    DEF TypeOK, ForcedTriggers, set_watchdog_timeout, Life, Flags,
         SequencePlaces, hw_vars, life_vars
  <2> QED BY <2>3, <2>4, <2>5, <2>6, Zenon
<1>4. CASE wdt_tt_bh_feed
  <2>2. data' = data BY <1>4, Zenon DEF wdt_tt_bh_feed, Life
  <2>3. TypeOK' BY <1>4, <2>2, SMTT(30)
    DEF TypeOK, wdt_tt_bh_feed, Life, Flags, SequencePlaces, Messages, hw_vars,
         life_vars
  <2>4. TripNotForgotten' BY <1>4, <2>2, Zenon
    DEF TypeOK, TripNotForgotten, wdt_tt_bh_feed, Life, Flags, SequencePlaces,
         hw_vars, life_vars
  <2>5. PerstKept' BY <1>4, <2>2, Zenon
    DEF TypeOK, PerstKept, ForcedTriggers, wdt_tt_bh_feed, Life, Flags,
         SequencePlaces, hw_vars, life_vars
  <2>6. ForcedTriggers' BY <1>4, <2>2, Zenon
    DEF TypeOK, ForcedTriggers, wdt_tt_bh_feed, Life, Flags, SequencePlaces,
         hw_vars, life_vars
  <2> QED BY <2>3, <2>4, <2>5, <2>6, Zenon
<1>5. CASE IssueChipReset
  <2>2. data' = data BY <1>5, Zenon DEF IssueChipReset, Life
  <2>3. TypeOK' BY <1>5, <2>2, SMTT(30)
    DEF TypeOK, IssueChipReset, Life, Flags, SequencePlaces, Messages, hw_vars,
         life_vars
  <2>4. TripNotForgotten' BY <1>5, <2>2, Zenon
    DEF TypeOK, TripNotForgotten, IssueChipReset, Life, Flags, SequencePlaces,
         hw_vars, life_vars
  <2>5. PerstKept' BY <1>5, <2>2, Zenon
    DEF TypeOK, PerstKept, ForcedTriggers, IssueChipReset, Life, Flags,
         SequencePlaces, hw_vars, life_vars
  <2>6. ForcedTriggers' BY <1>5, <2>2, Zenon
    DEF TypeOK, ForcedTriggers, IssueChipReset, Life, Flags, SequencePlaces,
         hw_vars, life_vars
  <2> QED BY <2>3, <2>4, <2>5, <2>6, Zenon
<1>6. CASE Hang
  <2>2. data' = data BY <1>6, Zenon DEF Hang, Life
  <2>3. TypeOK' BY <1>6, <2>2, SMTT(30)
    DEF TypeOK, Hang, Life, Flags, SequencePlaces, Messages, hw_vars, life_vars
  <2>4. TripNotForgotten' BY <1>6, <2>2, Zenon
    DEF TypeOK, TripNotForgotten, Hang, Life, Flags, SequencePlaces, hw_vars,
         life_vars
  <2>5. PerstKept' BY <1>6, <2>2, Zenon
    DEF TypeOK, PerstKept, ForcedTriggers, Hang, Life, Flags, SequencePlaces,
         hw_vars, life_vars
  <2>6. ForcedTriggers' BY <1>6, <2>2, Zenon
    DEF TypeOK, ForcedTriggers, Hang, Life, Flags, SequencePlaces, hw_vars,
         life_vars
  <2> QED BY <2>3, <2>4, <2>5, <2>6, Zenon
<1> QED BY <1>1, <1>2, <1>3, <1>4, <1>5, <1>6, Zenon DEF Smc

(* The reset sequence.                                                       *)
LEMMA SequenceKeeps ==
  ASSUME Inv, Sequence
  PROVE  Inv'
<1> USE DEF Inv
<1>1. CASE Begin
  <2>1. Set({"trigger_reset"}) BY <1>1, Zenon DEF Begin
  <2>2. /\ data' \in [Flags -> BOOLEAN]
        /\ \A f \in Flags : data[f]' <=> f \in {"trigger_reset"} \/ data[f]
    BY <2>1, SetFlags, Zenon DEF TypeOK, Flags
  <2>3. TypeOK'
    <3>1. /\ pc' = "power" /\ caller' = caller
          /\ caller \in {"therm", "wdog", "perst", "rise", "request"}
      BY <1>1, <2>2, Zenon DEF TypeOK, Begin, SequencePlaces
    <3>2. /\ timer' \in BOOLEAN /\ cancelled' \in BOOLEAN
          /\ pgood' \in BOOLEAN /\ asic_reset' \in BOOLEAN
      BY <1>1, <2>2, Zenon DEF TypeOK, Begin, hw_vars
    <3>3. UNCHANGED <<smc, inited, hot, unserved>> /\ box' \subseteq box
      BY <1>1, <2>2, Zenon DEF Begin, life_vars
    <3>4. data["performing_reset"]' <=> caller' \in {"therm", "wdog", "perst"}
      BY <1>1, <2>2, <3>1, Zenon DEF TypeOK, Flags
    <3> QED BY <1>1, <2>2, <3>1, <3>2, <3>3, <3>4, Zenon DEF TypeOK, SequencePlaces
  <2>4. TripNotForgotten' BY <1>1, <2>2, Zenon
    DEF TypeOK, TripNotForgotten, Begin, Flags, SequencePlaces, hw_vars,
         life_vars
  <2>5. PerstKept' BY <1>1, <2>2, Zenon
    DEF TypeOK, PerstKept, ForcedTriggers, Begin, Flags, SequencePlaces,
         hw_vars, life_vars
  <2>6. ForcedTriggers' BY <1>1, <2>2, Zenon
    DEF TypeOK, ForcedTriggers, Begin, Flags, SequencePlaces, hw_vars,
         life_vars
  <2> QED BY <2>3, <2>4, <2>5, <2>6, Zenon
<1>2. CASE jtag_bootrom_reset_asic(TRUE)
  <2>2. data' = data BY <1>2, Zenon DEF jtag_bootrom_reset_asic, LifeEnds
  <2>3. TypeOK' BY <1>2, <2>2, Zenon
    DEF TypeOK, jtag_bootrom_reset_asic, LifeEnds, Flags, SequencePlaces,
         Messages, hw_vars, life_vars
  <2>4. TripNotForgotten' BY <1>2, <2>2, Zenon
    DEF TypeOK, TripNotForgotten, jtag_bootrom_reset_asic, LifeEnds, Flags,
         SequencePlaces, hw_vars, life_vars
  <2>5. PerstKept' BY <1>2, <2>2, Zenon
    DEF TypeOK, PerstKept, ForcedTriggers, jtag_bootrom_reset_asic, LifeEnds,
         Flags, SequencePlaces, hw_vars, life_vars
  <2>6. ForcedTriggers' BY <1>2, <2>2, Zenon
    DEF TypeOK, ForcedTriggers, jtag_bootrom_reset_asic, LifeEnds, Flags,
         SequencePlaces, hw_vars, life_vars
  <2> QED BY <2>3, <2>4, <2>5, <2>6, Zenon
<1>3. CASE jtag_bootrom_reset_asic(FALSE)
  <2>2. data' = data BY <1>3, Zenon DEF jtag_bootrom_reset_asic, LifeEnds
  <2>3. TypeOK' BY <1>3, <2>2, Zenon
    DEF TypeOK, jtag_bootrom_reset_asic, LifeEnds, Flags, SequencePlaces,
         Messages, hw_vars, life_vars
  <2>4. TripNotForgotten' BY <1>3, <2>2, Zenon
    DEF TypeOK, TripNotForgotten, jtag_bootrom_reset_asic, LifeEnds, Flags,
         SequencePlaces, hw_vars, life_vars
  <2>5. PerstKept' BY <1>3, <2>2, Zenon
    DEF TypeOK, PerstKept, ForcedTriggers, jtag_bootrom_reset_asic, LifeEnds,
         Flags, SequencePlaces, hw_vars, life_vars
  <2>6. ForcedTriggers' BY <1>3, <2>2, Zenon
    DEF TypeOK, ForcedTriggers, jtag_bootrom_reset_asic, LifeEnds, Flags,
         SequencePlaces, hw_vars, life_vars
  <2> QED BY <2>3, <2>4, <2>5, <2>6, Zenon
<1>4. CASE WaitForId
  <2>2. data' = data BY <1>4, Zenon DEF WaitForId
  <2>3. TypeOK' BY <1>4, <2>2, SMTT(30)
    DEF TypeOK, WaitForId, Flags, SequencePlaces, Messages, hw_vars, life_vars
  <2>4. TripNotForgotten' BY <1>4, <2>2, Zenon
    DEF TypeOK, TripNotForgotten, WaitForId, Flags, SequencePlaces, hw_vars,
         life_vars
  <2>5. PerstKept' BY <1>4, <2>2, Zenon
    DEF TypeOK, PerstKept, ForcedTriggers, WaitForId, Flags, SequencePlaces,
         hw_vars, life_vars
  <2>6. ForcedTriggers' BY <1>4, <2>2, Zenon
    DEF TypeOK, ForcedTriggers, WaitForId, Flags, SequencePlaces, hw_vars,
         life_vars
  <2> QED BY <2>3, <2>4, <2>5, <2>6, Zenon
<1>5. CASE jtag_bootrom_soft_reset_arc
  <2>2. data' = data BY <1>5, Zenon DEF jtag_bootrom_soft_reset_arc
  <2>3. TypeOK' BY <1>5, <2>2, Zenon
    DEF TypeOK, jtag_bootrom_soft_reset_arc, Flags, SequencePlaces, Messages,
         hw_vars, life_vars
  <2>4. TripNotForgotten' BY <1>5, <2>2, Zenon
    DEF TypeOK, TripNotForgotten, jtag_bootrom_soft_reset_arc, Flags,
         SequencePlaces, hw_vars, life_vars
  <2>5. PerstKept' BY <1>5, <2>2, Zenon
    DEF TypeOK, PerstKept, ForcedTriggers, jtag_bootrom_soft_reset_arc, Flags,
         SequencePlaces, hw_vars, life_vars
  <2>6. ForcedTriggers' BY <1>5, <2>2, Zenon
    DEF TypeOK, ForcedTriggers, jtag_bootrom_soft_reset_arc, Flags,
         SequencePlaces, hw_vars, life_vars
  <2> QED BY <2>3, <2>4, <2>5, <2>6, Zenon
<1>6. CASE ClearTrigger
  <2>1. Clear({"trigger_reset"}) BY <1>6, Zenon DEF ClearTrigger
  <2>2. /\ data' \in [Flags -> BOOLEAN]
        /\ \A f \in Flags : data[f]' <=> f \notin {"trigger_reset"} /\ data[f]
    BY <2>1, ClearFlags, Zenon DEF TypeOK, Flags
  <2>3. TypeOK' BY <1>6, <2>2, SMTT(30)
    DEF TypeOK, ClearTrigger, Flags, SequencePlaces, Messages, hw_vars,
         life_vars
  <2>4. TripNotForgotten' BY <1>6, <2>2, Zenon
    DEF TypeOK, TripNotForgotten, ClearTrigger, Flags, SequencePlaces, hw_vars,
         life_vars
  <2>5. PerstKept' BY <1>6, <2>2, Zenon
    DEF TypeOK, PerstKept, ForcedTriggers, ClearTrigger, Flags, SequencePlaces,
         hw_vars, life_vars
  <2>6. ForcedTriggers' BY <1>6, <2>2, Zenon
    DEF TypeOK, ForcedTriggers, ClearTrigger, Flags, SequencePlaces, hw_vars,
         life_vars
  <2> QED BY <2>3, <2>4, <2>5, <2>6, Zenon
<1>7. CASE Return
  <2>2. data' = data BY <1>7, Zenon DEF Return
  <2>3. TypeOK'
    <3>1. /\ pc' = "done" /\ caller' = caller
          /\ caller \in {"therm", "wdog", "perst", "rise", "request"}
      BY <1>7, <2>2, Zenon DEF TypeOK, Return, SequencePlaces
    <3>2. /\ timer' \in BOOLEAN /\ cancelled' \in BOOLEAN
          /\ pgood' \in BOOLEAN /\ asic_reset' \in BOOLEAN
      BY <1>7, <2>2, Zenon DEF TypeOK, Return, hw_vars
    <3>3. UNCHANGED <<smc, inited, hot, unserved>> /\ box' \subseteq box
      BY <1>7, <2>2, Zenon DEF Return, life_vars
    <3>4. data["performing_reset"]' <=> caller' \in {"therm", "wdog", "perst"}
      BY <1>7, <2>2, <3>1, Zenon DEF TypeOK, Flags
    <3> QED BY <1>7, <2>2, <3>1, <3>2, <3>3, <3>4, Zenon DEF TypeOK, SequencePlaces
  <2>4. TripNotForgotten' BY <1>7, <2>2, Zenon
    DEF TypeOK, TripNotForgotten, Return, Flags, SequencePlaces, hw_vars,
         life_vars
  <2>5. PerstKept' BY <1>7, <2>2, Zenon
    DEF TypeOK, PerstKept, ForcedTriggers, Return, Flags, SequencePlaces,
         hw_vars, life_vars
  <2>6. ForcedTriggers' BY <1>7, <2>2, Zenon
    DEF TypeOK, ForcedTriggers, Return, Flags, SequencePlaces, hw_vars,
         life_vars
  <2> QED BY <2>3, <2>4, <2>5, <2>6, Zenon
<1>8. CASE Done /\ caller = "rise"
  <2>1. Clear({"pgood_rise_triggered"}) BY <1>8, Zenon DEF Done, After
  <2>2. /\ data' \in [Flags -> BOOLEAN]
        /\ \A f \in Flags : data[f]' <=> f \notin {"pgood_rise_triggered"} /\ data[f]
    BY <2>1, ClearFlags, Zenon DEF TypeOK, Flags
  <2>3. TypeOK' BY <1>8, <2>2, SMTT(30)
    DEF TypeOK, Done, After, Flags, SequencePlaces, Messages, hw_vars,
         life_vars
  <2>4. TripNotForgotten' BY <1>8, <2>2, Zenon
    DEF TypeOK, TripNotForgotten, Done, After, Flags, SequencePlaces, hw_vars,
         life_vars
  <2>5. PerstKept' BY <1>8, <2>2, Zenon
    DEF TypeOK, PerstKept, ForcedTriggers, Done, After, Flags, SequencePlaces,
         hw_vars, life_vars
  <2>6. ForcedTriggers' BY <1>8, <2>2, Zenon
    DEF TypeOK, ForcedTriggers, Done, After, Flags, SequencePlaces, hw_vars,
         life_vars
  <2> QED BY <2>3, <2>4, <2>5, <2>6, Zenon
<1>9. CASE Done /\ caller = "request"
  <2>1. Clear({}) BY <1>9, Zenon DEF Done, After
  <2>2. /\ data' \in [Flags -> BOOLEAN]
        /\ \A f \in Flags : data[f]' <=> f \notin {} /\ data[f]
    BY <2>1, ClearFlags, Zenon DEF TypeOK, Flags
  <2>3. TypeOK' BY <1>9, <2>2, SMTT(30)
    DEF TypeOK, Done, After, Flags, SequencePlaces, Messages, hw_vars,
         life_vars
  <2>4. TripNotForgotten' BY <1>9, <2>2, Zenon
    DEF TypeOK, TripNotForgotten, Done, After, Flags, SequencePlaces, hw_vars,
         life_vars
  <2>5. PerstKept' BY <1>9, <2>2, Zenon
    DEF TypeOK, PerstKept, ForcedTriggers, Done, After, Flags, SequencePlaces,
         hw_vars, life_vars
  <2>6. ForcedTriggers' BY <1>9, <2>2, Zenon
    DEF TypeOK, ForcedTriggers, Done, After, Flags, SequencePlaces, hw_vars,
         life_vars
  <2> QED BY <2>3, <2>4, <2>5, <2>6, Zenon
<1>10. CASE Done /\ caller \notin {"rise", "request"}
  <2>1. Clear({"performing_reset"}) BY <1>10, Zenon DEF Done, After
  <2>2. /\ data' \in [Flags -> BOOLEAN]
        /\ \A f \in Flags : data[f]' <=> f \notin {"performing_reset"} /\ data[f]
    BY <2>1, ClearFlags, Zenon DEF TypeOK, Flags
  <2>3. TypeOK' BY <1>10, <2>2, SMTT(30)
    DEF TypeOK, Done, After, Flags, SequencePlaces, Messages, hw_vars,
         life_vars
  <2>4. TripNotForgotten' BY <1>10, <2>2, Zenon
    DEF TypeOK, TripNotForgotten, Done, After, Flags, SequencePlaces, hw_vars,
         life_vars
  <2>5. PerstKept' BY <1>10, <2>2, Zenon
    DEF TypeOK, PerstKept, ForcedTriggers, Done, After, Flags, SequencePlaces,
         hw_vars, life_vars
  <2>6. ForcedTriggers' BY <1>10, <2>2, Zenon
    DEF TypeOK, ForcedTriggers, Done, After, Flags, SequencePlaces, hw_vars,
         life_vars
  <2> QED BY <2>3, <2>4, <2>5, <2>6, Zenon
<1> QED BY <1>1, <1>2, <1>3, <1>4, <1>5, <1>6, <1>7, <1>8, <1>9, <1>10, Zenon DEF Sequence

(* The handlers of the main loop.                                            *)
LEMMA HandlersKeep ==
  ASSUME Inv, Wake \/ handle_therm_trip \/ handle_watchdog_reset \/ handle_perst
              \/ handle_pgood_fall \/ handle_pgood_fell \/ handle_pgood_rise
  PROVE  Inv'
<1> USE DEF Inv
<1>1. CASE Wake
  <2>2. data' = data BY <1>1, Zenon DEF Wake
  <2>3. TypeOK' BY <1>1, <2>2, SMTT(30)
    DEF TypeOK, Wake, Flags, SequencePlaces, Messages, hw_vars, life_vars
  <2>4. TripNotForgotten' BY <1>1, <2>2, Zenon
    DEF TypeOK, TripNotForgotten, Wake, Flags, SequencePlaces, hw_vars,
         life_vars
  <2>5. PerstKept' BY <1>1, <2>2, Zenon
    DEF TypeOK, PerstKept, ForcedTriggers, Wake, Flags, SequencePlaces,
         hw_vars, life_vars
  <2>6. ForcedTriggers' BY <1>1, <2>2, Zenon
    DEF TypeOK, ForcedTriggers, Wake, Flags, SequencePlaces, hw_vars, life_vars
  <2> QED BY <2>3, <2>4, <2>5, <2>6, Zenon
<1>2. CASE handle_therm_trip /\ ~data["therm_trip_triggered"]
  <2>2. data' = data BY <1>2, Zenon DEF handle_therm_trip, Skip, Take
  <2>3. TypeOK' BY <1>2, <2>2, ZenonT(60)
    DEF TypeOK, handle_therm_trip, Skip, Take, Flags, SequencePlaces, Messages,
         hw_vars, life_vars
  <2>4. TripNotForgotten' BY <1>2, <2>2, Zenon
    DEF TypeOK, TripNotForgotten, handle_therm_trip, Skip, Take, Flags,
         SequencePlaces, hw_vars, life_vars
  <2>5. PerstKept' BY <1>2, <2>2, SMTT(30)
    DEF TypeOK, PerstKept, ForcedTriggers, handle_therm_trip, Skip, Take,
         Flags, SequencePlaces, hw_vars, life_vars
  <2>6. ForcedTriggers' BY <1>2, <2>2, Zenon
    DEF TypeOK, ForcedTriggers, handle_therm_trip, Skip, Take, Flags,
         SequencePlaces, hw_vars, life_vars
  <2> QED BY <2>3, <2>4, <2>5, <2>6, Zenon
<1>3. CASE handle_therm_trip /\ data["therm_trip_triggered"] /\ data["trigger_reset"]
  <2>1. Clear({"therm_trip_triggered"}) BY <1>3, Zenon DEF handle_therm_trip, Skip, Take
  <2>2. /\ data' \in [Flags -> BOOLEAN]
        /\ \A f \in Flags : data[f]' <=> f \notin {"therm_trip_triggered"} /\ data[f]
    BY <2>1, ClearFlags, Zenon DEF TypeOK, Flags
  <2>3. TypeOK' BY <1>3, <2>2, ZenonT(60)
    DEF TypeOK, handle_therm_trip, Skip, Take, Flags, SequencePlaces, Messages,
         hw_vars, life_vars
  <2>4. TripNotForgotten' BY <1>3, <2>2, Zenon
    DEF TypeOK, TripNotForgotten, handle_therm_trip, Skip, Take, Flags,
         SequencePlaces, hw_vars, life_vars
  <2>5. PerstKept' BY <1>3, <2>2, Zenon
    DEF TypeOK, PerstKept, ForcedTriggers, handle_therm_trip, Skip, Take,
         Flags, SequencePlaces, hw_vars, life_vars
  <2>6. ForcedTriggers' BY <1>3, <2>2, Zenon
    DEF TypeOK, ForcedTriggers, handle_therm_trip, Skip, Take, Flags,
         SequencePlaces, hw_vars, life_vars
  <2> QED BY <2>3, <2>4, <2>5, <2>6, Zenon
<1>4. CASE handle_therm_trip /\ data["therm_trip_triggered"] /\ ~data["trigger_reset"]
  <2>1. Take("therm_trip_triggered", "begin", "therm")
    BY <1>4, Zenon DEF handle_therm_trip, Skip
  <2>2. /\ data' \in [Flags -> BOOLEAN]
        /\ data["performing_reset"]'
        /\ ~data["trigger_reset"]'
    BY <1>4, <2>1, Zenon DEF TypeOK, Take, Flags
  <2>3. TypeOK' BY <1>4, <2>2, ZenonT(40)
    DEF TypeOK, handle_therm_trip, Skip, Take, Flags, SequencePlaces, Messages,
         hw_vars, life_vars
  <2>4. TripNotForgotten' BY <1>4, <2>2, Zenon
    DEF TypeOK, TripNotForgotten, handle_therm_trip, Skip, Take, Flags,
         SequencePlaces, hw_vars, life_vars
  <2>5. PerstKept' BY <1>4, <2>2, SMTT(30)
    DEF TypeOK, PerstKept, ForcedTriggers, handle_therm_trip, Skip, Take,
         Flags, SequencePlaces, hw_vars, life_vars
  <2>6. ForcedTriggers' BY <1>4, <2>2, Zenon
    DEF TypeOK, ForcedTriggers, handle_therm_trip, Skip, Take, Flags,
         SequencePlaces, hw_vars, life_vars
  <2> QED BY <2>3, <2>4, <2>5, <2>6, Zenon
<1>5. CASE handle_watchdog_reset /\ ~data["arc_wdog_triggered"]
  <2>2. data' = data BY <1>5, Zenon DEF handle_watchdog_reset, Skip
  <2>3. TypeOK' BY <1>5, <2>2, ZenonT(60)
    DEF TypeOK, handle_watchdog_reset, Skip, Flags, SequencePlaces, Messages,
         hw_vars, life_vars
  <2>4. TripNotForgotten' BY <1>5, <2>2, Zenon
    DEF TypeOK, TripNotForgotten, handle_watchdog_reset, Skip, Flags,
         SequencePlaces, hw_vars, life_vars
  <2>5. PerstKept' BY <1>5, <2>2, SMTT(30)
    DEF TypeOK, PerstKept, ForcedTriggers, handle_watchdog_reset, Skip, Flags,
         SequencePlaces, hw_vars, life_vars
  <2>6. ForcedTriggers' BY <1>5, <2>2, Zenon
    DEF TypeOK, ForcedTriggers, handle_watchdog_reset, Skip, Flags,
         SequencePlaces, hw_vars, life_vars
  <2> QED BY <2>3, <2>4, <2>5, <2>6, Zenon
<1>6. CASE handle_watchdog_reset /\ data["arc_wdog_triggered"]
  <2>1. data' = [data EXCEPT !["arc_wdog_triggered"] = FALSE,
                             !["auto_reset_timeout"] = FALSE,
                             !["performing_reset"] = TRUE]
    BY <1>6, Zenon DEF handle_watchdog_reset, Skip
  <2>2. /\ data' \in [Flags -> BOOLEAN]
        /\ data["performing_reset"]'
        /\ data["therm_trip_triggered"]' = data["therm_trip_triggered"]
        /\ data["trigger_reset"]' = data["trigger_reset"]
    BY <2>1, Zenon DEF TypeOK, Flags
  <2>3. TypeOK' BY <1>6, <2>2, ZenonT(40)
    DEF TypeOK, handle_watchdog_reset, Skip, Flags, SequencePlaces, Messages,
         hw_vars, life_vars
  <2>4. TripNotForgotten' BY <1>6, <2>2, Zenon
    DEF TypeOK, TripNotForgotten, handle_watchdog_reset, Skip, Flags,
         SequencePlaces, hw_vars, life_vars
  <2>5. PerstKept' BY <1>6, <2>2, SMTT(30)
    DEF TypeOK, PerstKept, ForcedTriggers, handle_watchdog_reset, Skip, Flags,
         SequencePlaces, hw_vars, life_vars
  <2>6. ForcedTriggers' BY <1>6, <2>2, Zenon
    DEF TypeOK, ForcedTriggers, handle_watchdog_reset, Skip, Flags,
         SequencePlaces, hw_vars, life_vars
  <2> QED BY <2>3, <2>4, <2>5, <2>6, Zenon
<1>7. CASE handle_perst /\ ~data["trigger_reset"]
  <2>2. data' = data BY <1>7, Zenon DEF handle_perst, Skip, Take
  <2>3. TypeOK' BY <1>7, <2>2, ZenonT(60)
    DEF TypeOK, handle_perst, Skip, Take, Flags, SequencePlaces, Messages,
         hw_vars, life_vars
  <2>4. TripNotForgotten' BY <1>7, <2>2, Zenon
    DEF TypeOK, TripNotForgotten, handle_perst, Skip, Take, Flags,
         SequencePlaces, hw_vars, life_vars
  <2>5. PerstKept' BY <1>7, <2>2, SMTT(30)
    DEF TypeOK, PerstKept, ForcedTriggers, handle_perst, Skip, Take, Flags,
         SequencePlaces, hw_vars, life_vars
  <2>6. ForcedTriggers' BY <1>7, <2>2, Zenon
    DEF TypeOK, ForcedTriggers, handle_perst, Skip, Take, Flags,
         SequencePlaces, hw_vars, life_vars
  <2> QED BY <2>3, <2>4, <2>5, <2>6, Zenon
<1>8. CASE handle_perst /\ data["trigger_reset"]
  <2>1. Take("trigger_reset", "power", "perst") BY <1>8, Zenon DEF handle_perst, Skip
  <2>2. /\ data' \in [Flags -> BOOLEAN]
        /\ data["performing_reset"]'
        /\ data["therm_trip_triggered"]' = data["therm_trip_triggered"]
    BY <2>1, Zenon DEF TypeOK, Take, Flags
  <2>3. TypeOK' BY <1>8, <2>2, ZenonT(60)
    DEF TypeOK, handle_perst, Skip, Take, Flags, SequencePlaces, Messages,
         hw_vars, life_vars
  <2>4. TripNotForgotten' BY <1>8, <2>2, Zenon
    DEF TypeOK, TripNotForgotten, handle_perst, Skip, Take, Flags,
         SequencePlaces, hw_vars, life_vars
  <2>5. PerstKept' BY <1>8, <2>2, Zenon
    DEF TypeOK, PerstKept, ForcedTriggers, handle_perst, Skip, Take, Flags,
         SequencePlaces, hw_vars, life_vars
  <2>6. ForcedTriggers' BY <1>8, <2>2, Zenon
    DEF TypeOK, ForcedTriggers, handle_perst, Skip, Take, Flags,
         SequencePlaces, hw_vars, life_vars
  <2> QED BY <2>3, <2>4, <2>5, <2>6, Zenon
<1>9. CASE handle_pgood_fall
  <2>2. /\ data' \in [Flags -> BOOLEAN]
        /\ data["performing_reset"]' = data["performing_reset"]
        /\ data["therm_trip_triggered"]' = data["therm_trip_triggered"]
        /\ data["trigger_reset"]' = data["trigger_reset"]
    BY <1>9, ZenonT(60) DEF TypeOK, handle_pgood_fall, LifeEnds, Flags
  <2>3. TypeOK' BY <1>9, <2>2, ZenonT(60)
    DEF TypeOK, handle_pgood_fall, LifeEnds, Flags, SequencePlaces, Messages,
         hw_vars, life_vars
  <2>4. TripNotForgotten' BY <1>9, <2>2, Zenon
    DEF TypeOK, TripNotForgotten, handle_pgood_fall, LifeEnds, Flags,
         SequencePlaces, hw_vars, life_vars
  <2>5. PerstKept' BY <1>9, <2>2, Zenon
    DEF TypeOK, PerstKept, ForcedTriggers, handle_pgood_fall, LifeEnds, Flags,
         SequencePlaces, hw_vars, life_vars
  <2>6. ForcedTriggers' BY <1>9, <2>2, Zenon
    DEF TypeOK, ForcedTriggers, handle_pgood_fall, LifeEnds, Flags,
         SequencePlaces, hw_vars, life_vars
  <2> QED BY <2>3, <2>4, <2>5, <2>6, Zenon
<1>10. CASE handle_pgood_fell
  <2>1. Clear({"pgood_fall_triggered"}) BY <1>10, Zenon DEF handle_pgood_fell
  <2>2. /\ data' \in [Flags -> BOOLEAN]
        /\ \A f \in Flags : data[f]' <=> f \notin {"pgood_fall_triggered"} /\ data[f]
    BY <2>1, ClearFlags, Zenon DEF TypeOK, Flags
  <2>3. TypeOK' BY <1>10, <2>2, SMTT(30)
    DEF TypeOK, handle_pgood_fell, Flags, SequencePlaces, Messages, hw_vars,
         life_vars
  <2>4. TripNotForgotten' BY <1>10, <2>2, Zenon
    DEF TypeOK, TripNotForgotten, handle_pgood_fell, Flags, SequencePlaces,
         hw_vars, life_vars
  <2>5. PerstKept' BY <1>10, <2>2, Zenon
    DEF TypeOK, PerstKept, ForcedTriggers, handle_pgood_fell, Flags,
         SequencePlaces, hw_vars, life_vars
  <2>6. ForcedTriggers' BY <1>10, <2>2, Zenon
    DEF TypeOK, ForcedTriggers, handle_pgood_fell, Flags, SequencePlaces,
         hw_vars, life_vars
  <2> QED BY <2>3, <2>4, <2>5, <2>6, Zenon
<1>11. CASE handle_pgood_rise
  <2>2. data' = data BY <1>11, Zenon DEF handle_pgood_rise
  <2>3. TypeOK' BY <1>11, <2>2, SMTT(30)
    DEF TypeOK, handle_pgood_rise, Flags, SequencePlaces, Messages, hw_vars,
         life_vars
  <2>4. TripNotForgotten' BY <1>11, <2>2, Zenon
    DEF TypeOK, TripNotForgotten, handle_pgood_rise, Flags, SequencePlaces,
         hw_vars, life_vars
  <2>5. PerstKept' BY <1>11, <2>2, Zenon
    DEF TypeOK, PerstKept, ForcedTriggers, handle_pgood_rise, Flags,
         SequencePlaces, hw_vars, life_vars
  <2>6. ForcedTriggers' BY <1>11, <2>2, Zenon
    DEF TypeOK, ForcedTriggers, handle_pgood_rise, Flags, SequencePlaces,
         hw_vars, life_vars
  <2> QED BY <2>3, <2>4, <2>5, <2>6, Zenon
<1> QED BY <1>1, <1>2, <1>3, <1>4, <1>5, <1>6, <1>7, <1>8, <1>9, <1>10, <1>11, Zenon DEF TypeOK, Flags

(* The transfers of the main loop.                                           *)
LEMMA TransfersKeep ==
  ASSUME Inv, \/ \E ok \in BOOLEAN : send_init_data(ok)
              \/ \E recover \in BOOLEAN : PollFails(recover)
              \/ PollEmpty \/ \E m \in Messages : process_cm2dm_message(m)
  PROVE  Inv'
<1> USE DEF Inv
<1>1. CASE send_init_data(TRUE)
  <2>1. Clear({"arc_needs_init_msg"}) BY <1>1, Zenon DEF send_init_data
  <2>2. /\ data' \in [Flags -> BOOLEAN]
        /\ \A f \in Flags : data[f]' <=> f \notin {"arc_needs_init_msg"} /\ data[f]
    BY <2>1, ClearFlags, Zenon DEF TypeOK, Flags
  <2>3. TypeOK' BY <1>1, <2>2, SMTT(30)
    DEF TypeOK, send_init_data, Flags, SequencePlaces, Messages, hw_vars,
         life_vars
  <2>4. TripNotForgotten' BY <1>1, <2>2, Zenon
    DEF TypeOK, TripNotForgotten, send_init_data, Flags, SequencePlaces,
         hw_vars, life_vars
  <2>5. PerstKept' BY <1>1, <2>2, Zenon
    DEF TypeOK, PerstKept, ForcedTriggers, send_init_data, Flags,
         SequencePlaces, hw_vars, life_vars
  <2>6. ForcedTriggers' BY <1>1, <2>2, Zenon
    DEF TypeOK, ForcedTriggers, send_init_data, Flags, SequencePlaces, hw_vars,
         life_vars
  <2> QED BY <2>3, <2>4, <2>5, <2>6, Zenon
<1>2. CASE send_init_data(FALSE)
  <2>2. data' = data BY <1>2, Zenon DEF send_init_data
  <2>3. TypeOK' BY <1>2, <2>2, SMTT(30)
    DEF TypeOK, send_init_data, Flags, SequencePlaces, Messages, hw_vars,
         life_vars
  <2>4. TripNotForgotten' BY <1>2, <2>2, Zenon
    DEF TypeOK, TripNotForgotten, send_init_data, Flags, SequencePlaces,
         hw_vars, life_vars
  <2>5. PerstKept' BY <1>2, <2>2, Zenon
    DEF TypeOK, PerstKept, ForcedTriggers, send_init_data, Flags,
         SequencePlaces, hw_vars, life_vars
  <2>6. ForcedTriggers' BY <1>2, <2>2, Zenon
    DEF TypeOK, ForcedTriggers, send_init_data, Flags, SequencePlaces, hw_vars,
         life_vars
  <2> QED BY <2>3, <2>4, <2>5, <2>6, Zenon
<1>3. CASE \E recover \in BOOLEAN : PollFails(recover)
  <2>2. data' = data BY <1>3, Zenon DEF PollFails
  <2>3. TypeOK' BY <1>3, <2>2, SMTT(30)
    DEF TypeOK, PollFails, Flags, SequencePlaces, Messages, hw_vars, life_vars
  <2>4. TripNotForgotten' BY <1>3, <2>2, SMTT(30)
    DEF TypeOK, TripNotForgotten, PollFails, Flags, SequencePlaces, hw_vars,
         life_vars
  <2>5. PerstKept' BY <1>3, <2>2, SMTT(30)
    DEF TypeOK, PerstKept, ForcedTriggers, PollFails, Flags, SequencePlaces,
         hw_vars, life_vars
  <2>6. ForcedTriggers' BY <1>3, <2>2, Zenon
    DEF TypeOK, ForcedTriggers, PollFails, Flags, SequencePlaces, hw_vars,
         life_vars
  <2> QED BY <2>3, <2>4, <2>5, <2>6, Zenon
<1>4. CASE PollEmpty
  <2>2. data' = data BY <1>4, Zenon DEF PollEmpty
  <2>3. TypeOK' BY <1>4, <2>2, SMTT(30)
    DEF TypeOK, PollEmpty, Flags, SequencePlaces, Messages, hw_vars, life_vars
  <2>4. TripNotForgotten' BY <1>4, <2>2, Zenon
    DEF TypeOK, TripNotForgotten, PollEmpty, Flags, SequencePlaces, hw_vars,
         life_vars
  <2>5. PerstKept' BY <1>4, <2>2, Zenon
    DEF TypeOK, PerstKept, ForcedTriggers, PollEmpty, Flags, SequencePlaces,
         hw_vars, life_vars
  <2>6. ForcedTriggers' BY <1>4, <2>2, Zenon
    DEF TypeOK, ForcedTriggers, PollEmpty, Flags, SequencePlaces, hw_vars,
         life_vars
  <2> QED BY <2>3, <2>4, <2>5, <2>6, Zenon
<1>5. CASE \E m \in Messages : process_cm2dm_message(m)
  <2>1. PICK m \in Messages : process_cm2dm_message(m) BY <1>5, Zenon
  <2>2. /\ data' \in [Flags -> BOOLEAN]
        /\ data["performing_reset"]' = data["performing_reset"]
        /\ data["therm_trip_triggered"]' = data["therm_trip_triggered"]
        /\ data["trigger_reset"]' = data["trigger_reset"]
    BY <2>1, Zenon DEF TypeOK, process_cm2dm_message, Flags
  <2>3. TypeOK'
    <3>1. /\ caller = "none"
          /\ \/ pc' = "begin" /\ caller' = "request"
             \/ pc' = "wait" /\ caller' = "none"
      BY <2>1, <2>2, Zenon DEF TypeOK, process_cm2dm_message, SequencePlaces
    <3>2. /\ timer' \in BOOLEAN /\ cancelled' \in BOOLEAN
          /\ pgood' \in BOOLEAN /\ asic_reset' \in BOOLEAN
      BY <2>1, <2>2, Zenon DEF TypeOK, process_cm2dm_message, hw_vars
    <3>3. UNCHANGED <<smc, inited, hot, unserved>> /\ box' \subseteq box
      BY <2>1, <2>2, Zenon DEF process_cm2dm_message, life_vars
    <3>4. data["performing_reset"]' <=> caller' \in {"therm", "wdog", "perst"}
      BY <2>1, <2>2, <3>1, Zenon DEF TypeOK, Flags
    <3> QED BY <2>1, <2>2, <3>1, <3>2, <3>3, <3>4, Zenon DEF TypeOK, SequencePlaces
  <2>4. TripNotForgotten' BY <2>1, <2>2, Zenon
    DEF TypeOK, TripNotForgotten, process_cm2dm_message, Flags, SequencePlaces,
         hw_vars, life_vars
  <2>5. PerstKept' BY <2>1, <2>2, Zenon
    DEF TypeOK, PerstKept, ForcedTriggers, process_cm2dm_message, Flags,
         SequencePlaces, hw_vars, life_vars
  <2>6. ForcedTriggers' BY <2>1, <2>2, Zenon
    DEF TypeOK, ForcedTriggers, process_cm2dm_message, Flags, SequencePlaces,
         hw_vars, life_vars
  <2> QED BY <2>3, <2>4, <2>5, <2>6, Zenon
<1> QED BY <1>1, <1>2, <1>3, <1>4, <1>5, Zenon DEF TypeOK

(* The invariant holds initially and is kept by every step.                  *)
LEMMA InitInv == Init => Inv
BY Zenon DEF Init, Inv, TypeOK, TripNotForgotten, PerstKept, ForcedTriggers, Flags,
     SequencePlaces, Messages

(* Every step keeps the invariant, by the lemma of its group of actions.     *)
LEMMA StepInv == Inv /\ [Next]_vars => Inv'
<1> SUFFICES ASSUME Inv, [Next]_vars PROVE Inv' BY Zenon
<1>1. CASE UNCHANGED vars
  BY <1>1, SMTT(30) DEF vars, hw_vars, life_vars, Inv, TypeOK, TripNotForgotten,
       PerstKept,
     ForcedTriggers
<1>2. CASE Next
  BY <1>2, InterruptKeeps, SmcKeeps, SequenceKeeps, HandlersKeep, TransfersKeep, Zenon
  DEF Next, Loop
<1> QED BY <1>1, <1>2, Zenon

(* So it holds in every reachable state.                                     *)
LEMMA InvAlways == Spec => []Inv
BY InitInv, StepInv, PTL DEF Spec

(* The variables keep their types, and performing_reset is set exactly while *)
(* one of the handlers that set it runs the sequence (main.c:449, 495, 510), *)
(* for every set of disturbances.                                            *)
THEOREM DmcResetTypeCorrect == Spec => []TypeOK
<1>1. Inv => TypeOK BY Zenon DEF Inv
<1> QED BY <1>1, InvAlways, PTL

(* A thermal trip is answered by a reset of the ASIC: no order of further    *)
(* trips, PERSTs, watchdog expiries and power changes makes the main loop    *)
(* drop it (main.c:425).  And a PERST that arrives outside a forced reset    *)
(* sequence is kept until the ARC has been reset for it (main.c:505).        *)
THEOREM TriggersNeverLost == Spec => []TriggersKept
<1>1. Inv => TriggersKept BY Zenon DEF Inv, TriggersKept
<1> QED BY <1>1, InvAlways, PTL

-----------------------------------------------------------------------------
(* Of two whole banks gddr_cal_read adopts the newer, of one that one: a     *)
(* torn bank with a newer header only costs a try.                           *)
LEMMA PickIs ==
  ASSUME GcTypeOK
  PROVE  GcPick({}) = IF gddr_cal_bank_crc(0) /\ gddr_cal_bank_crc(1)
                      THEN IF gddr_cal_seq_is_newer(gc_bank[1].seq, gc_bank[0].seq) THEN 1 ELSE 0
                      ELSE IF gddr_cal_bank_crc(0) THEN 0
                      ELSE IF gddr_cal_bank_crc(1) THEN 1 ELSE 2
<1> DEFINE newer == gddr_cal_seq_is_newer(gc_bank[1].seq, gc_bank[0].seq)
           ok == {b \in Banks : gddr_cal_hdr_is_plausible(b)}
<1>1. Banks \ {} = Banks
  BY Zenon
<1>2. GcOrder({}) = CASE ok = Banks -> IF newer THEN <<1, 0>> ELSE <<0, 1>>
                      [] ok = {0}   -> <<0>>
                      [] ok = {1}   -> <<1>>
                      [] OTHER      -> <<>>
  BY <1>1, Zenon DEF GcOrder
<1>3. \A b \in Banks : gddr_cal_bank_crc(b) => gddr_cal_hdr_is_plausible(b)
  BY Zenon DEF gddr_cal_bank_crc, gddr_cal_hdr_is_plausible
<1> DEFINE o == GcOrder({})
<1>4. CASE gddr_cal_hdr_is_plausible(0) /\ gddr_cal_hdr_is_plausible(1)
  <2>1. \A b \in Banks : gddr_cal_hdr_is_plausible(b)
    BY <1>4, Zenon DEF Banks, gddr_cal_hdr_is_plausible
  <2>2. ok \subseteq Banks /\ Banks \subseteq ok
    BY <2>1, Zenon
  <2>3. ok = Banks /\ ok # {0} /\ ok # {1}
    BY <2>2, SMTT(30) DEF Banks
  <2>4. o = IF newer THEN <<1, 0>> ELSE <<0, 1>>
    BY <1>2, <2>3, Zenon
  <2>5. Len(o) = 2 /\ o[1] = (IF newer THEN 1 ELSE 0) /\ o[2] = (IF newer THEN 0 ELSE 1)
    BY <2>4, SMTT(30)
  <2> HIDE DEF o, newer
  <2> QED
    BY <2>5, SMTT(30) DEF GcPick, o, newer
<1>5. CASE gddr_cal_hdr_is_plausible(0) /\ ~gddr_cal_hdr_is_plausible(1)
  <2>1. ok = {0} /\ ok # Banks /\ ok # {1} /\ ~gddr_cal_bank_crc(1)
    BY <1>3, <1>5, Zenon DEF Banks
  <2>2. o = <<0>>
    BY <1>2, <2>1, Zenon
  <2> QED
    BY <2>1, <2>2, SMTT(30) DEF GcPick
<1>6. CASE ~gddr_cal_hdr_is_plausible(0) /\ gddr_cal_hdr_is_plausible(1)
  <2>1. ok = {1} /\ ok # Banks /\ ok # {0} /\ ~gddr_cal_bank_crc(0)
    BY <1>3, <1>6, Zenon DEF Banks
  <2>2. o = <<1>>
    BY <1>2, <2>1, Zenon
  <2> QED
    BY <2>1, <2>2, SMTT(30) DEF GcPick
<1>7. CASE ~gddr_cal_hdr_is_plausible(0) /\ ~gddr_cal_hdr_is_plausible(1)
  <2>1. ok = {} /\ ok # Banks /\ ok # {0} /\ ok # {1} /\ ~gddr_cal_bank_crc(0) /\ ~gddr_cal_bank_crc(1)
    BY <1>3, <1>7, Zenon DEF Banks
  <2>2. o = <<>>
    BY <1>2, <2>1, Zenon
  <2> QED
    BY <2>1, <2>2, SMTT(30) DEF GcPick
<1> QED
  BY <1>4, <1>5, <1>6, <1>7, Zenon

(* A step of the writer on the sequence numbers: the next one is newer than  *)
(* the one it follows, over the skipped value as well, and never the other   *)
(* way round.                                                                *)
LEMMA NextIsNewer ==
  ASSUME NEW q \in GcSeqs
  PROVE  /\ GcNextSeq(q) \in GcSeqs
         /\ gddr_cal_seq_is_newer(GcNextSeq(q), q)
         /\ ~gddr_cal_seq_is_newer(q, GcNextSeq(q))
  BY GcAssumption, SMTT(30) DEF GcSeqs, GcNextSeq, GDDR_CAL_SEQ_ERASED, gddr_cal_seq_is_newer

(* While a boot has not yet written: the bank adopted at boot is whole and   *)
(* is the one another boot would adopt; without one, no bank is whole.       *)
GcHeld ==
  IF gc_active.have
  THEN /\ gc_bank[gc_active.bank].st = "whole"
       /\ gc_bank[gc_active.bank].seq = gc_active.seq
       /\ gc_bank[gc_active.bank].table = gc_good
       /\ GcPick({}) = gc_active.bank
  ELSE /\ \A b \in Banks : gc_bank[b].st # "whole"
       /\ gc_good = GcNone

GcIInv ==
  /\ GcTypeOK /\ GcLiveKept
  /\ gc_pc \in {"idle", "erase", "body", "head"} => GcHeld
  /\ gc_pc = "verify" => GcValue = gc_table

(* What a read finds when only one bank of the two is whole, or both are and *)
(* the second is the newer.                                                  *)
LEMMA ValueIs ==
  ASSUME GcTypeOK, NEW b \in Banks, gc_bank[b].st = "whole",
         \/ gc_bank[1 - b].st # "whole"
         \/ /\ gddr_cal_seq_is_newer(gc_bank[b].seq, gc_bank[1 - b].seq)
            /\ ~gddr_cal_seq_is_newer(gc_bank[1 - b].seq, gc_bank[b].seq)
  PROVE  GcPick({}) = b /\ GcValue = gc_bank[b].table
<1>1. b = 0 \/ b = 1
  BY Zenon DEF Banks
<1>2. GcPick({}) = b
  BY <1>1, PickIs, SMTT(30) DEF gddr_cal_bank_crc
<1> QED
  BY <1>1, <1>2, SMTT(30) DEF GcValue

(* No whole bank, no table.                                                  *)
LEMMA ValueNone ==
  ASSUME GcTypeOK, \A b \in Banks : gc_bank[b].st # "whole"
  PROVE  GcPick({}) = 2 /\ GcValue = GcNone
  BY PickIs, Zenon DEF gddr_cal_bank_crc, Banks, GcValue

(* Both as a fact of the state, to be used of the next one as well.          *)
GcPickShape ==
  /\ \A b \in Banks :
       /\ gc_bank[b].st = "whole"
       /\ \/ gc_bank[1 - b].st # "whole"
          \/ /\ gddr_cal_seq_is_newer(gc_bank[b].seq, gc_bank[1 - b].seq)
             /\ ~gddr_cal_seq_is_newer(gc_bank[1 - b].seq, gc_bank[b].seq)
       => GcPick({}) = b /\ GcValue = gc_bank[b].table
  /\ (\A b \in Banks : gc_bank[b].st # "whole") => GcPick({}) = 2 /\ GcValue = GcNone
  /\ GcPick({}) = 2 => \A b \in Banks : gc_bank[b].st # "whole"
  /\ GcPick({}) # 2 => /\ GcPick({}) \in Banks /\ gc_bank[GcPick({})].st = "whole"
                       /\ GcValue = gc_bank[GcPick({})].table

(* The bank that gddr_cal_read picks has that shape: a whole bank and its    *)
(* table, or none when no bank is whole.                                     *)
LEMMA PickShaped == GcTypeOK => GcPickShape
<1> SUFFICES ASSUME GcTypeOK PROVE GcPickShape
  BY Zenon
<1>1. /\ GcPick({}) = 2 => \A b \in Banks : gc_bank[b].st # "whole"
      /\ GcPick({}) # 2 => GcPick({}) \in Banks /\ gc_bank[GcPick({})].st = "whole"
  BY PickIs, SMTT(30) DEF gddr_cal_bank_crc, Banks
<1>2. GcPick({}) # 2 => GcValue = gc_bank[GcPick({})].table
  BY Zenon DEF GcValue
<1> QED
  BY <1>1, <1>2, ValueIs, ValueNone, Zenon DEF GcPickShape

(* A step that only touches the target bank, and leaves it as it was or not  *)
(* whole, keeps what a boot would find.                                      *)
LEMMA TargetIsFree ==
  ASSUME GcTypeOK, GcTypeOK', GcHeld, GcLiveKept, gc_good' = gc_good, NEW x,
         gc_bank' = [gc_bank EXCEPT ![GcTarget] = x], x = gc_bank[GcTarget] \/ x.st # "whole"
  PROVE  /\ GcValue' = gc_good
         /\ gc_active' = gc_active => GcHeld'
<1>1. GcPickShape /\ GcPickShape'
  BY PickShaped, PTL
<1>2. GcTarget \in Banks /\ gc_bank' \in [Banks -> [st : {"erased", "torn", "whole"},
                        seq : GcSeqs \cup {GDDR_CAL_SEQ_ERASED}, table : GcTables \cup {GcNone}]]
      /\ \A b \in Banks : b # GcTarget => gc_bank'[b] = gc_bank[b]
      /\ gc_bank'[GcTarget] = x
  BY SMTT(30) DEF GcTypeOK, GcTarget, Banks
<1>3. CASE gc_active.have
  <2> DEFINE a == gc_active.bank
  <2>1. a \in Banks /\ GcTarget = 1 - a /\ 1 - a \in Banks /\ a # 1 - a
    BY <1>3, SMTT(30) DEF GcTypeOK, GcTarget, Banks
  <2>2. gc_bank[a].st = "whole" /\ gc_bank[a].table = gc_good /\ gc_bank[a].seq = gc_active.seq /\ GcPick({}) = a
    BY <1>3, Zenon DEF GcHeld
  <2>3. gc_bank'[a] = gc_bank[a]
    BY <1>2, <2>1, Zenon
  <2>4. GcPick({})' = a /\ GcValue' = gc_good
    <3>1. CASE x.st # "whole"
      BY <1>1, <1>2, <2>1, <2>2, <2>3, <3>1, ZenonT(60) DEF GcPickShape
    <3>2. CASE x = gc_bank[GcTarget]
      <4>1. gc_bank' = gc_bank
        BY <1>2, <3>2, Zenon DEF GcTypeOK
      <4>2. GcPick({})' = GcPick({})
        BY <4>1, ZenonT(40) DEF GcPick, GcOrder, gddr_cal_hdr_is_plausible, gddr_cal_bank_crc
      <4> QED
        BY <1>1, <2>1, <2>2, <2>3, <4>2, SMTT(30) DEF GcPickShape, Banks
    <3> QED
      BY <3>1, <3>2, Zenon
  <2> QED
    BY <1>3, <2>2, <2>3, <2>4, Zenon DEF GcHeld
<1>4. CASE ~gc_active.have
  <2>1. \A b \in Banks : gc_bank[b].st # "whole"
    BY <1>4, Zenon DEF GcHeld
  <2>2. \A b \in Banks : gc_bank'[b].st # "whole"
    BY <1>2, <2>1, Zenon
  <2>3. gc_good = GcNone
    BY <1>4, Zenon DEF GcHeld
  <2>4. GcValue' = GcNone
    BY <1>1, <2>2, Zenon DEF GcPickShape
  <2> QED
    BY <1>4, <2>2, <2>3, <2>4, Zenon DEF GcHeld
<1> QED
  BY <1>3, <1>4, Zenon

(* The header written last makes the new table the one a boot would find.    *)
LEMMA HeadAdopts ==
  ASSUME GcTypeOK, GcTypeOK', GcHeld, gc_bank' = [gc_bank EXCEPT ![GcTarget] = GcNewBank]
  PROVE  GcValue' = gc_table
<1>1. GcPickShape'
  BY PickShaped, PTL
<1>2. PICK t, q : t = GcTarget /\ q = GcSeq
  BY Zenon
<1>3. t \in Banks /\ 1 - t \in Banks /\ 1 - t # t
  BY <1>2, SMTT(30) DEF GcTypeOK, GcTarget, Banks
<1>4. gc_bank'[1 - t] = gc_bank[1 - t]
  BY <1>2, <1>3, Zenon DEF GcTypeOK
<1>5. gc_bank'[t].st = "whole" /\ gc_bank'[t].seq = q /\ gc_bank'[t].table = gc_table
  BY <1>2, <1>3, Zenon DEF GcTypeOK, GcNewBank
<1>6. CASE gc_active.have
  <2>1. PICK s \in GcSeqs : s = gc_active.seq
    BY Zenon DEF GcTypeOK
  <2>2. gc_active.bank = 1 - t /\ q = GcNextSeq(s)
    BY <1>2, <1>6, <2>1, SMTT(30) DEF GcTypeOK, GcTarget, GcSeq, Banks
  <2>3. gc_bank'[1 - t].seq = s
    BY <1>4, <1>6, <2>1, <2>2, Zenon DEF GcHeld
  <2>4. gddr_cal_seq_is_newer(q, s) /\ ~gddr_cal_seq_is_newer(s, q)
    BY <2>2, NextIsNewer, Zenon DEF gddr_cal_seq_is_newer
  <2>5. /\ gddr_cal_seq_is_newer(gc_bank'[t].seq, gc_bank'[1 - t].seq)
        /\ ~gddr_cal_seq_is_newer(gc_bank'[1 - t].seq, gc_bank'[t].seq)
    BY <1>5, <2>3, <2>4, Zenon
  <2> QED
    BY <1>1, <1>3, <1>5, <2>5, Zenon DEF GcPickShape
<1>7. CASE ~gc_active.have
  <2>1. gc_bank'[1 - t].st # "whole"
    BY <1>3, <1>4, <1>7, Zenon DEF GcHeld
  <2> QED
    BY <1>1, <1>3, <1>5, <2>1, Zenon DEF GcPickShape
<1> QED
  BY <1>6, <1>7, Zenon

GcBankType == [st : {"erased", "torn", "whole"}, seq : GcSeqs \cup {GDDR_CAL_SEQ_ERASED},
               table : GcTables \cup {GcNone}]
GcBankOK(x) == x \in GcBankType /\ (x.st # "erased" => x.seq \in GcSeqs /\ x.table \in GcTables)

(* What the writer puts into the target bank, and what it leaves there when  *)
(* a step fails or the power goes: well formed, and whole only if it is what *)
(* was there.                                                                *)
LEMMA WritesTyped ==
  ASSUME GcTypeOK
  PROVE  /\ GcTarget \in Banks /\ GcBankOK(GcErased) /\ GcErased.st # "whole"
         /\ gc_pc = "head" => GcBankOK(GcNewBank)
         /\ \A x \in GcPartial : GcBankOK(x) /\ (x = gc_bank[GcTarget] \/ x.st # "whole")
<1>1. GcTarget \in Banks
  BY SMTT(30) DEF GcTypeOK, GcTarget, Banks
<1>2. GcBankOK(GcErased) /\ GcErased.st # "whole"
  BY Zenon DEF GcBankOK, GcBankType, GcErased
<1>3. GcSeq \in GcSeqs
  <2>1. 0 \in GcSeqs
    BY GcAssumption, SMTT(30) DEF GcSeqs
  <2> QED
    BY <2>1, NextIsNewer, Zenon DEF GcSeq, GcTypeOK
<1>4. ASSUME gc_pc = "head" PROVE GcBankOK(GcNewBank)
  BY <1>3, <1>4, Zenon DEF GcBankOK, GcBankType, GcNewBank, GcTypeOK
<1>5. GcBankOK(gc_bank[GcTarget])
  BY <1>1, Zenon DEF GcBankOK, GcBankType, GcTypeOK
<1>6. \A x : GcBankOK(x) => GcBankOK(GcTorn(x)) /\ GcTorn(x).st # "whole"
  <2> SUFFICES ASSUME NEW x, GcBankOK(x) PROVE GcBankOK(GcTorn(x)) /\ GcTorn(x).st # "whole"
    BY Zenon
  <2>1. x \in GcBankType
    BY Zenon DEF GcBankOK
  <2>2. /\ GcTorn(x) = [st |-> IF x.st = "erased" THEN "erased" ELSE "torn", seq |-> x.seq, table |-> x.table]
    BY <2>1, SMTT(30) DEF GcTorn, GcBankType
  <2> QED
    BY <2>2, SMTT(30) DEF GcBankOK, GcBankType
<1>7. ASSUME NEW x \in GcPartial PROVE GcBankOK(x) /\ (x = gc_bank[GcTarget] \/ x.st # "whole")
  <2>1. CASE gc_pc = "erase"
    BY <1>2, <1>5, <1>6, <1>7, <2>1, Zenon DEF GcPartial
  <2>2. CASE gc_pc = "body"
    BY <1>2, <1>7, <2>2, Zenon DEF GcPartial
  <2>3. CASE gc_pc = "head"
    BY <1>2, <1>4, <1>6, <1>7, <2>3, Zenon DEF GcPartial
  <2>4. CASE gc_pc \notin {"erase", "body", "head"}
    BY <1>5, <1>7, <2>4, Zenon DEF GcPartial
  <2> QED
    BY <2>1, <2>2, <2>3, <2>4, Zenon
<1> QED
  BY <1>1, <1>2, <1>4, <1>7, Zenon

(* Types through a step that puts x into the target bank.                    *)
LEMMA BankTyped ==
  ASSUME GcTypeOK, NEW x, GcBankOK(x), gc_bank' = [gc_bank EXCEPT ![GcTarget] = x]
  PROVE  /\ gc_bank' \in [Banks -> GcBankType]
         /\ \A b \in Banks : gc_bank'[b].st # "erased" => gc_bank'[b].seq \in GcSeqs /\ gc_bank'[b].table \in GcTables
<1>1. gc_bank \in [Banks -> GcBankType] /\ GcTarget \in Banks
  BY SMTT(30) DEF GcTypeOK, GcBankType, GcTarget, Banks
<1> QED
  BY <1>1, Zenon DEF GcBankOK, GcTypeOK

(* The erased flash satisfies the invariant (gddr_cal.c before the first     *)
(* boot).                                                                    *)
LEMMA GcInitInv == GcInit => GcIInv
<1> SUFFICES ASSUME GcInit PROVE GcIInv
  BY Zenon
<1>1. GcTypeOK
  <2>1. GDDR_CAL_SEQ_ERASED \in Nat /\ 0 \in GcSeqs
    BY GcAssumption, SMTT(30) DEF GDDR_CAL_SEQ_ERASED, GcSeqs
  <2>2. /\ gc_bank \in [Banks -> GcBankType]
        /\ \A b \in Banks : gc_bank[b].st # "erased" => gc_bank[b].seq \in GcSeqs /\ gc_bank[b].table \in GcTables
    BY SMTT(30) DEF GcInit, GcBankType, GcErased
  <2>3. gc_active \in [have : BOOLEAN, bank : Banks, seq : GcSeqs]
    BY <2>1, Zenon DEF GcInit, Banks
  <2>4. GcValue \in GcTables \cup {GcNone}
    <3>1. GcPick({}) \in Banks \cup {2}
      <4> DEFINE o == GcOrder({})
      <4>1. o \in {<<1, 0>>, <<0, 1>>, <<0>>, <<1>>, <<>>}
        BY Zenon DEF GcOrder
      <4> QED
        BY <4>1, SMTT(30) DEF GcPick, Banks
    <3> QED
      BY <2>2, <3>1, Zenon DEF GcValue, GcBankType
  <2> QED
    BY <2>2, <2>3, <2>4, Zenon DEF GcInit, GcTypeOK, GcBankType
<1> QED
  BY <1>1, Zenon DEF GcIInv, GcInit, GcLiveKept

(* A step of the writer, completed with `done' or cut short.                 *)
LEMMA WriterStep ==
  ASSUME GcIInv, NEW at \in {"erase", "body", "head"}, NEW next \in {"body", "head", "verify"},
         NEW done, GcBankOK(done),
         GcStep(at, next, done, GcPartial),
         IF next = "verify" THEN at = "head" /\ done = GcNewBank ELSE done.st # "whole"
  PROVE  GcIInv'
<1> USE DEF GcStep
<1>1. GcTypeOK /\ GcHeld /\ GcLiveKept /\ gc_pc = at
  BY Zenon DEF GcIInv
<1>2. UNCHANGED <<gc_active, gc_table, gc_good>> /\ gc_table \in GcTables
  BY <1>1, Zenon DEF GcTypeOK
<1>3. CASE gc_pc' = next /\ gc_bank' = [gc_bank EXCEPT ![GcTarget] = done]
  <2>1. GcTypeOK'
    BY <1>1, <1>2, <1>3, BankTyped, Zenon DEF GcTypeOK, GcBankType
  <2>2. CASE next = "verify"
    <3>1. GcValue' = gc_table
      BY <1>1, <1>3, <2>1, <2>2, HeadAdopts, Zenon
    <3> QED
      BY <1>2, <1>3, <2>1, <2>2, <3>1, Zenon DEF GcIInv, GcLiveKept
  <2>3. CASE next # "verify"
    <3>1. GcValue' = gc_good /\ GcHeld'
      BY <1>1, <1>2, <1>3, <2>1, <2>3, TargetIsFree, Zenon
    <3> QED
      BY <1>2, <1>3, <2>1, <2>3, <3>1, Zenon DEF GcIInv, GcLiveKept
  <2> QED
    BY <2>2, <2>3, Zenon
<1>4. CASE gc_pc' = "done" /\ \E x \in GcPartial : gc_bank' = [gc_bank EXCEPT ![GcTarget] = x]
  <2>1. PICK x \in GcPartial : gc_bank' = [gc_bank EXCEPT ![GcTarget] = x]
    BY <1>4, Zenon
  <2>2. GcBankOK(x) /\ (x = gc_bank[GcTarget] \/ x.st # "whole")
    BY <1>1, WritesTyped, Zenon
  <2>3. GcTypeOK'
    BY <1>1, <1>2, <1>4, <2>1, <2>2, BankTyped, Zenon DEF GcTypeOK, GcBankType
  <2>4. GcValue' = gc_good
    BY <1>1, <1>2, <2>1, <2>2, <2>3, TargetIsFree, Zenon
  <2> QED
    BY <1>2, <1>4, <2>3, <2>4, Zenon DEF GcIInv, GcLiveKept
<1> QED
  BY <1>3, <1>4, Zenon

(* Every step of gddr_cal_read and gddr_cal_write, a power loss included,    *)
(* keeps the invariant when the reads of a boot succeed.                     *)
LEMMA GcStepInv == GcReadFaults = FALSE /\ GcIInv /\ [GcNext]_gc_vars => GcIInv'
<1> SUFFICES ASSUME GcReadFaults = FALSE, GcIInv, [GcNext]_gc_vars PROVE GcIInv'
  BY Zenon
<1>1. GcTypeOK /\ GcLiveKept
  BY Zenon DEF GcIInv
<1>2. CASE \E bad \in IF GcReadFaults THEN SUBSET Banks ELSE {{}} : gddr_cal_read(bad)
  <2>1. gddr_cal_read({})
    BY <1>2, Zenon
  <2>2. gc_bank' = gc_bank /\ gc_pc' = "idle" /\ gc_good' = GcValue /\ gc_table' = GcNone
    BY <2>1, Zenon DEF gddr_cal_read
  <2>3. GcPickShape
    BY <1>1, PickShaped, Zenon
  <2>4. GcPick({})' = GcPick({}) /\ GcValue' = GcValue
    <3>1. gc_bank' = gc_bank
      BY <2>2, Zenon
    <3> QED
      BY <3>1, SMTT(30) DEF GcPick, GcValue, GcOrder, gddr_cal_hdr_is_plausible, gddr_cal_bank_crc
  <2>5. CASE GcPick({}) = 2
    <3>1. gc_active' = [gc_active EXCEPT !.have = FALSE]
      BY <2>1, <2>5, Zenon DEF gddr_cal_read
    <3>2. gc_active' \in [have : BOOLEAN, bank : Banks, seq : GcSeqs] /\ gc_active'.have = FALSE
      BY <1>1, <3>1, Zenon DEF GcTypeOK
    <3>3. GcValue = GcNone /\ \A b \in Banks : gc_bank[b].st # "whole"
      BY <2>3, <2>5, Zenon DEF GcPickShape
    <3> QED
      BY <1>1, <2>2, <2>4, <3>2, <3>3, Zenon DEF GcIInv, GcTypeOK, GcLiveKept, GcHeld
  <2>6. CASE GcPick({}) # 2
    <3>1. PICK b \in Banks : b = GcPick({})
      BY <2>3, <2>6, Zenon DEF GcPickShape
    <3>2. gc_active' = [have |-> TRUE, bank |-> b, seq |-> gc_bank[b].seq]
      BY <2>1, <2>6, <3>1, Zenon DEF gddr_cal_read
    <3>3. gc_bank[b].st = "whole" /\ GcValue = gc_bank[b].table
      BY <2>3, <2>6, <3>1, Zenon DEF GcPickShape
    <3>4. gc_bank[b].seq \in GcSeqs /\ GcValue \in GcTables
      BY <1>1, <3>3, Zenon DEF GcTypeOK
    <3>5. GcTypeOK'
      BY <1>1, <2>2, <3>2, <3>4, Zenon DEF GcTypeOK
    <3>6. GcHeld'
      BY <2>2, <2>4, <3>1, <3>2, <3>3, Zenon DEF GcHeld
    <3> QED
      BY <2>2, <2>4, <3>5, <3>6, Zenon DEF GcIInv, GcLiveKept
  <2> QED
    BY <2>5, <2>6, Zenon
<1>3. CASE \E t \in GcTables : gddr_cal_write(t)
  <2>1. PICK t \in GcTables : gddr_cal_write(t)
    BY <1>3, Zenon
  <2>2. /\ gc_pc = "idle" /\ gc_pc' = "erase" /\ gc_table' = t
        /\ UNCHANGED <<gc_bank, gc_active, gc_good>>
    BY <2>1, Zenon DEF gddr_cal_write
  <2>3. GcHeld /\ GcPickShape
    BY <1>1, <2>2, PickShaped, Zenon DEF GcIInv
  <2>4. GcPick({})' = GcPick({}) /\ GcValue' = GcValue
    BY <2>2, SMTT(30) DEF GcPick, GcValue, GcOrder, gddr_cal_hdr_is_plausible, gddr_cal_bank_crc
  <2>5. GcValue = gc_good
    BY <1>1, <2>3, SMTT(30) DEF GcHeld, GcPickShape, GcTypeOK, Banks
  <2>6. GcTypeOK'
    BY <1>1, <2>2, Zenon DEF GcTypeOK
  <2>7. GcHeld'
    BY <2>2, <2>3, <2>4, Zenon DEF GcHeld
  <2> QED
    BY <2>2, <2>4, <2>5, <2>6, <2>7, Zenon DEF GcIInv, GcLiveKept
<1>4. CASE GcErase
  <2>1. GcBankOK(GcErased) /\ GcErased.st # "whole"
    BY <1>1, WritesTyped, Zenon
  <2>2. GcStep("erase", "body", GcErased, GcPartial)
    BY <1>4, Zenon DEF GcErase
  <2> QED
    BY <2>1, <2>2, WriterStep, Zenon
<1>5. CASE GcBody
  <2>1. GcBankOK(GcErased) /\ GcErased.st # "whole"
    BY <1>1, WritesTyped, Zenon
  <2>2. GcStep("body", "head", GcErased, GcPartial)
    BY <1>5, Zenon DEF GcBody
  <2> QED
    BY <2>1, <2>2, WriterStep, Zenon
<1>6. CASE GcHead
  <2>1. GcStep("head", "verify", GcNewBank, GcPartial)
    BY <1>6, Zenon DEF GcHead
  <2>2. GcBankOK(GcNewBank)
    BY <1>1, <2>1, WritesTyped, Zenon DEF GcStep
  <2> QED
    BY <2>1, <2>2, WriterStep, Zenon
<1>7. CASE GcVerify
  <2>1. GcValue' = GcValue /\ GcValue = gc_table /\ gc_table' = gc_table /\ gc_pc' = "done"
    BY <1>7, Zenon DEF GcVerify, GcIInv, GcPick, GcValue, GcOrder, gddr_cal_hdr_is_plausible, gddr_cal_bank_crc
  <2>2. GcTarget \in Banks /\ GcSeq \in GcSeqs
    <3>1. 0 \in GcSeqs
      BY GcAssumption, SMTT(30) DEF GcSeqs
    <3> QED
      BY <1>1, <3>1, NextIsNewer, SMTT(30) DEF GcSeq, GcTypeOK, GcTarget, Banks
  <2>3. gc_active' \in [have : BOOLEAN, bank : Banks, seq : GcSeqs] /\ gc_good' \in GcTables \cup {GcNone}
    <3>1. CASE gc_active' = [have |-> TRUE, bank |-> GcTarget, seq |-> GcSeq] /\ gc_good' = gc_table
      <4>1. gc_table \in GcTables \cup {GcNone}
        BY <1>1, Zenon DEF GcTypeOK
      <4> QED
        BY <2>2, <3>1, <4>1, Zenon
    <3>2. CASE UNCHANGED <<gc_active, gc_good>>
      BY <1>1, <3>2, Zenon DEF GcTypeOK
    <3> QED
      BY <1>7, <3>1, <3>2, Zenon DEF GcVerify
  <2>4. GcTypeOK'
    BY <1>1, <1>7, <2>1, <2>3, Zenon DEF GcVerify, GcTypeOK
  <2> QED
    BY <2>1, <2>4, Zenon DEF GcIInv, GcLiveKept
<1>8. CASE GcCrash
  <2>1. PICK x \in GcPartial : gc_bank' = [gc_bank EXCEPT ![GcTarget] = x]
    BY <1>8, Zenon DEF GcCrash
  <2>2. GcBankOK(x) /\ (x = gc_bank[GcTarget] \/ x.st # "whole")
    BY <1>1, WritesTyped, Zenon
  <2>3. /\ gc_pc' = "off" /\ UNCHANGED <<gc_table, gc_good>>
        /\ gc_active' = [have |-> FALSE, bank |-> 0, seq |-> 0] /\ 0 \in GcSeqs
    BY <1>8, GcAssumption, SMTT(30) DEF GcCrash, GcSeqs
  <2>4. GcTypeOK'
    BY <1>1, <2>1, <2>2, <2>3, BankTyped, Zenon DEF GcTypeOK, GcBankType, Banks
  <2>5. CASE gc_pc \in {"idle", "erase", "body", "head"}
    <3>1. GcHeld
      BY <2>5, Zenon DEF GcIInv
    <3>2. GcValue' = gc_good
      BY <1>1, <2>1, <2>2, <2>3, <2>4, <3>1, TargetIsFree, Zenon
    <3> QED
      BY <2>3, <2>4, <3>2, Zenon DEF GcIInv, GcLiveKept
  <2>6. CASE gc_pc \notin {"idle", "erase", "body", "head"}
    <3>1. x = gc_bank[GcTarget]
      BY <2>1, <2>6, Zenon DEF GcPartial
    <3>2. gc_bank' = gc_bank
      BY <1>1, <2>1, <3>1, Zenon DEF GcTypeOK, GcTarget, Banks
    <3>3. GcValue' = GcValue
      BY <3>2, SMTT(30) DEF GcPick, GcValue, GcOrder, gddr_cal_hdr_is_plausible, gddr_cal_bank_crc
    <3> QED
      BY <1>1, <2>3, <2>4, <3>3, Zenon DEF GcIInv, GcLiveKept
  <2> QED
    BY <2>5, <2>6, Zenon
<1>9. CASE UNCHANGED gc_vars
  <2>1. GcPick({})' = GcPick({}) /\ GcValue' = GcValue
    BY <1>9, SMTT(30) DEF gc_vars, GcPick, GcValue, GcOrder, gddr_cal_hdr_is_plausible, gddr_cal_bank_crc
  <2> QED
    BY <1>9, <2>1, Zenon DEF gc_vars, GcIInv, GcTypeOK, GcLiveKept, GcHeld
<1> QED
  BY <1>2, <1>3, <1>4, <1>5, <1>6, <1>7, <1>8, <1>9, Zenon DEF GcNext

(* The live calibration table survives: at every moment, a power loss in the *)
(* middle of any flash operation of gddr_cal_write included, a boot finds    *)
(* the last good table or the one just written, for any width of the         *)
(* sequence number and however often it has wrapped.  Reads at boot must     *)
(* succeed: a bank hidden by a failed read may be overwritten next.          *)
THEOREM CalibrationKept == GcReadFaults = FALSE /\ GcSpec => []GcLiveKept
<1> SUFFICES ASSUME GcReadFaults = FALSE PROVE GcSpec => []GcLiveKept
  BY Zenon
<1>1. GcIInv => GcLiveKept
  BY Zenon DEF GcIInv
<1>2. GcIInv /\ [GcNext]_gc_vars => GcIInv'
  BY GcStepInv, Zenon
<1> QED
  BY GcInitInv, <1>1, <1>2, PTL DEF GcSpec

-----------------------------------------------------------------------------
(* A load that fails at a tile leaves the earlier ones whole and none of the *)
(* tiles that run worse off; one that does not fail leaves all whole.        *)
LEMMA BootLoads ==
  ASSUME EtRunsLoaded, NEW f \in EtFailures(et_cfg.en), et_cfg' = et_cfg,
         load_eth_fw_parts(et_cfg.en, f.bad, f.part),
         IF f.bad = MAX_ETH_INSTANCES THEN ReleaseEthReset(et_cfg.en) ELSE UNCHANGED <<et_soft, et_saved>>
  PROVE  EtRunsLoaded'
<1> SUFFICES ASSUME NEW i \in EthInst, i \notin et_soft'
             PROVE  i \in et_cfg.en /\ et_loaded'[i] = EtPieces
  BY Zenon DEF EtRunsLoaded
<1>1. et_loaded'[i] = CASE i \in et_cfg.en /\ i < f.bad -> EtPieces
                        [] i \in et_cfg.en /\ i = f.bad -> et_loaded[i] \cup f.part
                        [] OTHER -> et_loaded[i]
  BY Zenon DEF load_eth_fw_parts
<1>2. CASE i \notin et_soft
  <2>1. i \in et_cfg.en /\ et_loaded[i] = EtPieces
    BY <1>2, Zenon DEF EtRunsLoaded
  <2>2. f.part \subseteq EtPieces
    BY SMTT(30) DEF EtFailures, EtPieces
  <2>3. et_loaded[i] \cup f.part = EtPieces
    BY <2>1, <2>2, Zenon
  <2>4. CASE i = f.bad
    BY <1>1, <2>1, <2>3, <2>4, Zenon DEF EthInst
  <2>5. CASE i # f.bad
    BY <1>1, <2>1, <2>5, Zenon
  <2> QED
    BY <2>1, <2>4, <2>5, Zenon
<1>3. CASE i \in et_soft
  <2>1. f.bad = MAX_ETH_INSTANCES /\ i \in et_cfg.en
    BY <1>3, Zenon DEF ReleaseEthReset
  <2> QED
    BY <1>1, <2>1, SMTT(30) DEF EthInst, MAX_ETH_INSTANCES
<1> QED
  BY <1>2, <1>3, Zenon

(* No boot, reset message or release starts an ERISC that was not loaded     *)
(* (eth_init, the reset handlers of eth.c).                                  *)
LEMMA EtStepInv == EtRunsLoaded /\ [EtNext]_et_vars => EtRunsLoaded'
<1> SUFFICES ASSUME EtRunsLoaded, [EtNext]_et_vars PROVE EtRunsLoaded'
  BY Zenon
<1>1. ASSUME NEW fail \in EtBootFails, eth_init(fail) PROVE EtRunsLoaded'
  <2>1. CASE UNCHANGED <<et_loaded, et_soft>>
    BY <1>1, <2>1, Zenon DEF eth_init, EtRunsLoaded
  <2>2. CASE \E f \in EtFailures(et_cfg.en) :
                /\ load_eth_fw_parts(et_cfg.en, f.bad, f.part)
                /\ IF f.bad = MAX_ETH_INSTANCES THEN ReleaseEthReset(et_cfg.en)
                   ELSE UNCHANGED <<et_soft, et_saved>>
    BY <1>1, <2>2, BootLoads, Zenon DEF eth_init
  <2> QED
    BY <1>1, <2>1, <2>2, Zenon DEF eth_init
<1>2. ASSUME NEW m \in SUBSET EtTouch, NEW reload \in BOOLEAN, NEW lookup \in BOOLEAN,
             toggle_eth_reset_handler(m, reload, lookup)
      PROVE  EtRunsLoaded'
  <2> DEFINE mask == m \cap et_cfg.en
  <2> SUFFICES ASSUME NEW i \in EthInst, i \notin et_soft'
               PROVE  i \in et_cfg.en /\ et_loaded'[i] = EtPieces
    BY <1>2, Zenon DEF EtRunsLoaded, toggle_eth_reset_handler
  <2>1. CASE ~reload
    <3>1. et_soft' = et_soft \cup mask /\ et_loaded'[i] = IF i \in mask THEN {} ELSE et_loaded[i]
      BY <1>2, <2>1, Zenon DEF toggle_eth_reset_handler
    <3> QED
      BY <3>1, SMTT(30) DEF EtRunsLoaded
  <2>2. CASE reload
    <3>1. PICK f \in EtFailures(mask) :
             /\ et_loaded'[i] = CASE i \in mask /\ i < f.bad -> EtPieces
                                  [] i \in mask /\ i = f.bad -> f.part
                                  [] i \in mask /\ i > f.bad -> {}
                                  [] OTHER -> et_loaded[i]
             /\ IF f.bad = MAX_ETH_INSTANCES THEN ReleaseEthReset(mask)
                ELSE et_soft' = et_soft \cup mask /\ UNCHANGED <<et_saved>>
      BY <1>2, <2>2, Zenon DEF toggle_eth_reset_handler
    <3>2. CASE i \in mask
      <4>1. f.bad = MAX_ETH_INSTANCES
        BY <3>1, <3>2, Zenon
      <4> QED
        BY <3>1, <3>2, <4>1, SMTT(30) DEF EthInst, MAX_ETH_INSTANCES
    <3>3. CASE i \notin mask
      <4>1. i \notin et_soft
        BY <3>1, <3>3, Zenon DEF ReleaseEthReset
      <4> QED
        BY <3>1, <3>3, <4>1, Zenon DEF EtRunsLoaded
    <3> QED
      BY <3>2, <3>3, Zenon
  <2> QED
    BY <2>1, <2>2, Zenon
<1>3. CASE GetEthHeartbeatStatus
  BY <1>3, Zenon DEF GetEthHeartbeatStatus, EtRunsLoaded
<1>4. CASE \E i \in EtTouch : EtBeat(i)
  BY <1>4, Zenon DEF EtBeat, EtRunsLoaded
<1>5. CASE UNCHANGED et_vars
  BY <1>5, Zenon DEF et_vars, EtRunsLoaded
<1> QED
  BY <1>1, <1>2, <1>3, <1>4, <1>5, Zenon DEF EtNext

(* An Ethernet core the firmware has started is one of an enabled tile that  *)
(* holds its firmware, its SerDes table and its parameters, whichever load   *)
(* failed at boot or in a host's reset of several tiles, on any part.        *)
THEOREM EriscsRunLoaded == EtSpec => []EtRunsLoaded
<1>1. EtInit => EtRunsLoaded
  BY Zenon DEF EtInit, EtRunsLoaded
<1> QED
  BY <1>1, EtStepInv, PTL DEF EtSpec

-----------------------------------------------------------------------------
GdMriscType ==
  [st : {"reset", "training", "trained", "failed"}, ca : GdSettings,
   report : {"same", "changed", "wild"}, msg : {"none", "memtest", "wake", "down"},
   awake : BOOLEAN, tested : BOOLEAN]
GdSafe == GdGood \cup {GdUnset}
GdKinds ==
  /\ gd_cfg \in GdCfgs /\ gd_mr \in [GdInst -> GdMriscType]
  /\ gd_table \in [GdInst -> GdSettings] /\ gd_flash \in [GdInst -> GdSafe]

(* A seed is safe; a report of changed settings comes from a trained MRISC   *)
(* of an image that has the memory test; and an entry of the cached row that *)
(* may not hold data is what a controller that will be tested still applies. *)
GdIInv ==
  /\ GdKinds /\ gd_next \subseteq gd_cfg.mask
  /\ \A c \in GdInst :
       /\ gd_mr[c].st = "training" => gd_mr[c].ca \in GdSafe
       /\ gd_pc # "run" /\ gd_mr[c].report # "same" => gd_cfg.test /\ gd_mr[c].st = "trained"
       /\ gd_pc = "training" /\ gd_table[c] \notin GdSafe =>
             /\ c \in gd_cfg.mask /\ gd_cfg.test
             /\ gd_mr[c].st = "trained" /\ gd_mr[c].ca = gd_table[c]

(* A message to all MRISCs changes neither what they trained nor how.        *)
LEMMA MessageKeeps ==
  ASSUME NEW mr \in [GdInst -> GdMriscType], NEW op \in {"wake", "down"}, NEW late
  PROVE  /\ mrisc_message(mr, op, late).mr \in [GdInst -> GdMriscType]
         /\ \A c \in GdInst : /\ mrisc_message(mr, op, late).mr[c].st = mr[c].st
                              /\ mrisc_message(mr, op, late).mr[c].ca = mr[c].ca
<1> DEFINE told == {c \in gd_cfg.mask : \A b \in gd_cfg.mask : mr[b].msg # "none" => c < b}
           all == told = gd_cfg.mask
           new == [c \in GdInst |-> IF c \notin told THEN mr[c]
                              ELSE IF c \in late \/ ~all THEN [mr[c] EXCEPT !.msg = op]
                              ELSE [mr[c] EXCEPT !.awake = (op = "wake")]]
<1>1. mrisc_message(mr, op, late).mr = new
  BY Zenon DEF mrisc_message
<1>2. ASSUME NEW c \in GdInst
      PROVE  new[c] \in GdMriscType /\ new[c].st = mr[c].st /\ new[c].ca = mr[c].ca
  <2> HIDE DEF told, all
  <2>1. mr[c] \in GdMriscType
    BY Zenon
  <2>2. new[c] \in {mr[c], [mr[c] EXCEPT !.msg = op], [mr[c] EXCEPT !.awake = (op = "wake")]}
    BY Zenon
  <2> QED
    BY <2>1, <2>2, ZenonT(60) DEF GdMriscType
<1> HIDE DEF told, all
<1> QED
  BY <1>1, <1>2, Zenon

(* Held controllers and an empty table satisfy the invariant (InitMrisc has  *)
(* not run).                                                                 *)
LEMMA GdInitInv == GdInit => GdIInv
<1> SUFFICES ASSUME GdInit PROVE GdIInv
  BY Zenon
<1>1. GdHeld \in GdMriscType /\ GdHeld.st = "reset" /\ GdHeld.report = "same"
  BY Zenon DEF GdHeld, GdMriscType, GdSettings
<1>2. GdEmpty \in [GdInst -> GdSettings] /\ GdEmpty \in [GdInst -> GdSafe]
  BY Zenon DEF GdEmpty, GdSettings, GdSafe
<1> QED
  BY <1>1, <1>2, GdAssumption, Zenon DEF GdInit, GdIInv, GdKinds

(* The end of the training: what reaches the flash has passed the test.      *)
LEMMA TestedReachesFlash ==
  ASSUME GdIInv, NEW late, CheckGddrHwTest(late)
  PROVE  GdIInv'
<1>1. GdKinds /\ gd_next' \subseteq gd_cfg'.mask /\ gd_cfg' = gd_cfg /\ gd_pc' = "run" /\ gd_pc = "training" /\ gd_table' = GdEmpty
  BY Zenon DEF GdIInv, CheckGddrHwTest
<1>2. gd_table' \in [GdInst -> GdSettings]
  BY <1>1, Zenon DEF GdEmpty, GdSettings
<1>3. CASE gd_failed
  <2>1. UNCHANGED <<gd_mr, gd_flash>>
    BY <1>3, Zenon DEF CheckGddrHwTest
  <2> QED
    BY <1>1, <1>2, <2>1, Zenon DEF GdIInv, GdKinds
<1>4. CASE ~gd_failed
  <2> DEFINE S == gd_cfg.mask
             new(c) == IF c \notin S \/ ~gd_cfg.test THEN gd_mr[c]
                       ELSE StartHwMemtest(gd_mr[c], c \notin late, gd_mr[c].ca \in GdGood)
  <2>1. gd_mr' = [c \in GdInst |-> new(c)]
    BY <1>4, Zenon DEF CheckGddrHwTest
  <2>2. ASSUME NEW c \in GdInst
        PROVE  /\ new(c) \in GdMriscType
               /\ new(c).st = "training" => new(c).ca \in GdSafe
               /\ c \in S /\ gd_cfg.test /\ new(c).tested => gd_mr[c].ca \in GdGood
    <3>1. gd_mr[c] \in GdMriscType
      BY <1>1, Zenon DEF GdKinds
    <3>2. CASE c \notin S \/ ~gd_cfg.test
      BY <3>1, <3>2, Zenon DEF GdIInv
    <3>3. CASE c \in S /\ gd_cfg.test
      <4>1. new(c) = [gd_mr[c] EXCEPT !.msg = IF c \notin late THEN "none" ELSE "memtest",
                                      !.tested = c \notin late /\ gd_mr[c].ca \in GdGood, !.ca = GdUnset]
        BY <3>3, Zenon DEF StartHwMemtest
      <4> HIDE DEF new
      <4> QED
        BY <3>1, <4>1, Zenon DEF GdMriscType, GdSafe, GdSettings
    <3> QED
      BY <3>2, <3>3, Zenon
  <2>3. gd_mr' \in [GdInst -> GdMriscType] /\ \A c \in GdInst : gd_mr'[c].st = "training" => gd_mr'[c].ca \in GdSafe
    <3> HIDE DEF new
    <3> QED
      BY <2>1, <2>2, Zenon
  <2>4. gd_flash' \in [GdInst -> GdSafe]
    <3>1. CASE gd_flash' = gd_flash
      BY <1>1, <3>1, Zenon DEF GdKinds
    <3>2. CASE gd_flash' = gd_table /\ ~gd_failed'
      <4>1. ASSUME NEW c \in GdInst PROVE gd_table[c] \in GdSafe
        <5>1. SUFFICES ASSUME gd_table[c] \notin GdSafe PROVE FALSE
          BY Zenon
        <5>2. c \in S /\ gd_cfg.test /\ gd_mr[c].ca = gd_table[c]
          BY <1>1, <5>1, Zenon DEF GdIInv
        <5>3. gd_bist'.failed = {d \in S : ~gd_mr'[d].tested}
          BY <1>4, <5>2, SMTT(30) DEF CheckGddrHwTest
        <5>4. gd_bist'.failed = {}
          BY <1>4, <3>2, Zenon DEF CheckGddrHwTest
        <5>5. gd_mr'[c].tested
          BY <5>2, <5>3, <5>4, Zenon
        <5>6. gd_mr'[c] = new(c)
          BY <2>1, Zenon
        <5>7. gd_mr[c].ca \in GdGood
          <6> HIDE DEF new
          <6> QED
            BY <2>2, <5>2, <5>5, <5>6, Zenon
        <5> QED
          BY <5>1, <5>2, <5>7, Zenon DEF GdSafe
      <4> QED
        BY <1>1, <3>2, <4>1, Zenon DEF GdKinds
    <3>3. gd_flash' = gd_flash \/ (gd_flash' = gd_table /\ ~gd_failed')
      BY <1>4, Zenon DEF CheckGddrHwTest
    <3> QED
      BY <3>1, <3>2, <3>3, Zenon
  <2> QED
    BY <1>1, <1>2, <2>3, <2>4, Zenon DEF GdIInv, GdKinds
<1> QED
  BY <1>3, <1>4, Zenon

(* Boot up to the memory test.                                               *)
LEMMA TrainingKeeps ==
  ASSUME GdIInv, NEW c \in GdInst,
         \/ \E fault \in BOOLEAN, ok \in SUBSET GdInst : InitMrisc(fault, ok)
         \/ GdTrain(c) \/ GdLate(c)
         \/ \E v \in BOOLEAN : CheckGddrTraining(c, v)
  PROVE  GdIInv'
<1>1. /\ GdKinds /\ gd_mr[c] \in GdMriscType
      /\ gd_cfg' = gd_cfg /\ gd_flash' = gd_flash /\ gd_next' \subseteq gd_cfg'.mask
  BY Zenon DEF GdIInv, GdKinds, InitMrisc, GdTrain, GdLate, CheckGddrTraining, gd_soc
<1>2. ASSUME NEW fault \in BOOLEAN, NEW ok \in SUBSET GdInst, InitMrisc(fault, ok) PROVE GdIInv'
  <2>1. CASE fault
    BY <1>1, <1>2, <2>1, Zenon DEF InitMrisc, GdIInv, GdKinds
  <2>2. CASE ~fault
    <3> DEFINE table == IF gd_cfg.row THEN gd_flash ELSE GdEmpty
    <3>1. /\ gd_table' = table /\ gd_pc = "off" /\ gd_pc' = "training"
          /\ gd_mr' = [d \in GdInst |-> IF d \in ok THEN LoadMriscFwCfg(table, d) ELSE gd_mr[d]]
      BY <1>2, <2>2, Zenon DEF InitMrisc
    <3>2. table \in [GdInst -> GdSafe] /\ table \in [GdInst -> GdSettings]
      BY <1>1, Zenon DEF GdKinds, GdEmpty, GdSafe, GdSettings
    <3> HIDE DEF table
    <3>3. ASSUME NEW d \in GdInst
          PROVE  /\ LoadMriscFwCfg(table, d) \in GdMriscType
                 /\ LoadMriscFwCfg(table, d).ca \in GdSafe /\ LoadMriscFwCfg(table, d).report = "same"
      BY <3>2, Zenon DEF LoadMriscFwCfg, GdHeld, GdMriscType
    <3>4. gd_mr' \in [GdInst -> GdMriscType]
      BY <1>1, <3>1, <3>3, Zenon DEF GdKinds
    <3>5. \A d \in GdInst : /\ gd_mr'[d].st = "training" => gd_mr'[d].ca \in GdSafe
                            /\ gd_mr'[d].report # "same" => gd_cfg.test /\ gd_mr'[d].st = "trained"
      BY <3>1, <3>3, Zenon DEF GdIInv
    <3> QED
      BY <1>1, <3>1, <3>2, <3>4, <3>5, Zenon DEF GdIInv, GdKinds
  <2> QED
    BY <2>1, <2>2, Zenon
<1>3. CASE GdTrain(c)
  <2>1. gd_pc' = gd_pc /\ gd_table' = gd_table /\ gd_mr[c].st = "training"
    BY <1>3, Zenon DEF GdTrain, gd_soc
  <2>2. PICK x \in GdMriscType :
          /\ gd_mr' = [gd_mr EXCEPT ![c] = x] /\ x.st # "training"
          /\ x.report # "same" => (x.st = "trained" /\ gd_cfg.test) \/ gd_mr[c].report # "same"
    <3>1. CASE gd_mr' = [gd_mr EXCEPT ![c].st = "failed"]
      <4>1. [gd_mr[c] EXCEPT !.st = "failed"] \in GdMriscType
        BY <1>1, Zenon DEF GdMriscType
      <4>2. /\ gd_mr' = [gd_mr EXCEPT ![c] = [gd_mr[c] EXCEPT !.st = "failed"]]
            /\ [gd_mr[c] EXCEPT !.st = "failed"].st = "failed"
            /\ [gd_mr[c] EXCEPT !.st = "failed"].report = gd_mr[c].report
        BY <1>1, <3>1, Zenon DEF GdMriscType, GdKinds
      <4> QED
        BY <4>1, <4>2, Zenon
    <3>2. CASE \E v \in GdGood \cup GdWeak, r \in {"changed", "wild"} :
             gd_mr' = [gd_mr EXCEPT ![c].st = "trained", ![c].ca = v,
                                    ![c].report = IF v = gd_mr[c].ca \/ ~gd_cfg.test THEN "same" ELSE r]
      <4>1. PICK v \in GdGood \cup GdWeak, r \in {"changed", "wild"} :
             gd_mr' = [gd_mr EXCEPT ![c].st = "trained", ![c].ca = v,
                                    ![c].report = IF v = gd_mr[c].ca \/ ~gd_cfg.test THEN "same" ELSE r]
        BY <3>2, Zenon
      <4>2. PICK rep \in {"same", "changed", "wild"} :
              rep = (IF v = gd_mr[c].ca \/ ~gd_cfg.test THEN "same" ELSE r)
        BY Zenon
      <4> DEFINE x == [gd_mr[c] EXCEPT !.st = "trained", !.ca = v, !.report = rep]
      <4>3. gd_mr' = [gd_mr EXCEPT ![c] = x]
        BY <1>1, <4>1, <4>2, Zenon DEF GdKinds
      <4>4. x \in GdMriscType /\ x.st = "trained" /\ x.report = rep
        BY <1>1, Zenon DEF GdMriscType, GdSettings
      <4>5. rep # "same" => gd_cfg.test
        BY <1>1, <4>2, Zenon DEF GdKinds, GdCfgs
      <4> HIDE DEF x
      <4> QED
        BY <4>3, <4>4, <4>5, Zenon
    <3> QED
      BY <1>3, <3>1, <3>2, Zenon DEF GdTrain
  <2>3. gd_mr' \in [GdInst -> GdMriscType] /\ \A d \in GdInst : gd_mr'[d] = IF d = c THEN x ELSE gd_mr[d]
    BY <1>1, <2>2, Zenon DEF GdKinds
  <2> QED
    BY <1>1, <2>1, <2>2, <2>3, Zenon DEF GdIInv, GdKinds
<1>4. CASE GdLate(c)
  <2>1. gd_pc' = gd_pc /\ gd_table' = gd_table
    BY <1>4, Zenon DEF GdLate, gd_soc
  <2>2. PICK w \in BOOLEAN : gd_mr' = [gd_mr EXCEPT ![c].msg = "none", ![c].awake = w]
    <3>1. (IF gd_mr[c].msg = "memtest" THEN gd_mr[c].awake ELSE gd_mr[c].msg = "wake") \in BOOLEAN
      BY <1>1, Zenon DEF GdMriscType
    <3> QED
      BY <1>1, <1>4, <3>1, Zenon DEF GdLate, GdKinds
  <2>3. PICK x : x = [gd_mr[c] EXCEPT !.msg = "none", !.awake = w]
    BY Zenon
  <2>4. /\ x \in GdMriscType /\ x.st = gd_mr[c].st /\ x.ca = gd_mr[c].ca /\ x.report = gd_mr[c].report
    BY <1>1, <2>3, Zenon DEF GdMriscType
  <2>5. gd_mr' \in [GdInst -> GdMriscType] /\ \A d \in GdInst : gd_mr'[d] = IF d = c THEN x ELSE gd_mr[d]
    <3>1. gd_mr \in [GdInst -> GdMriscType]
      BY <1>1, Zenon DEF GdKinds
    <3>2. gd_mr' = [gd_mr EXCEPT ![c] = x]
      BY <2>2, <2>3, Zenon
    <3> QED
      BY <2>4, <3>1, <3>2, Zenon
  <2>6. \A d \in GdInst : /\ gd_mr'[d].st = gd_mr[d].st /\ gd_mr'[d].ca = gd_mr[d].ca
                          /\ gd_mr'[d].report = gd_mr[d].report
    BY <2>4, <2>5, Zenon
  <2>7. GdKinds'
    BY <1>1, <2>1, <2>5, Zenon DEF GdKinds
  <2> QED
    BY <1>1, <2>1, <2>6, <2>7, ZenonT(40) DEF GdIInv
<1>5. ASSUME NEW v \in BOOLEAN, CheckGddrTraining(c, v) PROVE GdIInv'
  <2>1. gd_pc' = "training" /\ gd_pc = "training" /\ gd_mr' = [gd_mr EXCEPT ![c].report = "same"]
    BY <1>5, Zenon DEF CheckGddrTraining
  <2>2. PICK x : x = [gd_mr[c] EXCEPT !.report = "same"]
    BY Zenon
  <2>3. /\ x \in GdMriscType /\ x.st = gd_mr[c].st /\ x.ca = gd_mr[c].ca /\ x.report = "same"
    BY <1>1, <2>2, Zenon DEF GdMriscType
  <2>4. gd_mr' \in [GdInst -> GdMriscType] /\ \A d \in GdInst : gd_mr'[d] = IF d = c THEN x ELSE gd_mr[d]
    BY <1>1, <2>1, <2>2, <2>3, Zenon DEF GdKinds
  <2>5. CASE gd_table' = gd_table
    BY <1>1, <2>1, <2>3, <2>4, <2>5, SMTT(30) DEF GdIInv, GdKinds
  <2>6. CASE gd_table' # gd_table
    <3>1. /\ gd_mr[c].st = "trained" /\ gd_mr[c].report = "changed" /\ c \in gd_next
          /\ gd_table' = [gd_table EXCEPT ![c] = gd_mr[c].ca]
      BY <1>5, <2>6, Zenon DEF CheckGddrTraining, LatchGddrCaSettings
    <3>2. gd_cfg.test /\ gd_mr[c].ca \in GdSettings
      BY <1>1, <2>1, <3>1, Zenon DEF GdIInv, GdMriscType
    <3>3. c \in gd_cfg.mask
      BY <3>1, Zenon DEF GdIInv
    <3>4. gd_table' \in [GdInst -> GdSettings] /\ \A d \in GdInst : gd_table'[d] = IF d = c THEN gd_mr[c].ca ELSE gd_table[d]
      BY <1>1, <3>1, <3>2, Zenon DEF GdKinds
    <3> QED
      BY <1>1, <2>1, <2>3, <2>4, <3>1, <3>2, <3>3, <3>4, SMTT(30) DEF GdIInv, GdKinds
  <2> QED
    BY <2>5, <2>6, Zenon
<1> QED
  BY <1>2, <1>3, <1>4, <1>5, Zenon

(* While the chip runs only the MRISCs matter, and of them those that still  *)
(* train: new is as good as old if it trains nothing old did not.            *)
GdNoWorse(new, old) ==
  /\ new \in [GdInst -> GdMriscType]
  /\ \A d \in GdInst : new[d].st = "training" => old[d].st = "training" /\ new[d].ca = old[d].ca

(* After training nothing the invariant speaks of gets worse, as long as no  *)
(* controller begins to train (bh_power.c, gddr.c).                          *)
LEMMA RunKeeps ==
  ASSUME GdIInv, gd_pc = "run", gd_pc' = "run", gd_cfg' = gd_cfg, UNCHANGED gd_soc, GdNoWorse(gd_mr', gd_mr)
  PROVE  GdIInv'
  BY Zenon DEF GdIInv, GdKinds, gd_soc, GdNoWorse

(* A power message to an MRISC, answered or late, starts no training         *)
(* (mrisc_message).                                                          *)
LEMMA MessageNoWorse ==
  ASSUME NEW mr, NEW old, GdNoWorse(mr, old), NEW op \in {"wake", "down"}, NEW late
  PROVE  GdNoWorse(mrisc_message(mr, op, late).mr, old)
<1>1. mr \in [GdInst -> GdMriscType]
  BY Zenon DEF GdNoWorse
<1>2. PICK new : new = mrisc_message(mr, op, late).mr
  BY Zenon
<1>3. new \in [GdInst -> GdMriscType] /\ \A c \in GdInst : new[c].st = mr[c].st /\ new[c].ca = mr[c].ca
  BY <1>1, <1>2, MessageKeeps, SMTT(30)
<1> QED
  BY <1>2, <1>3, Zenon DEF GdNoWorse

(* A reset of one controller by the host, whichever of its steps fails.      *)
LEMMA ToggleKeeps ==
  ASSUME GdIInv, NEW c \in GdInst, NEW fail \in {"wake", "train", "put", "none"},
         NEW late, NEW holds \in BOOLEAN, toggle_gddr_reset(c, fail, late, holds)
  PROVE  GdIInv'
<1> DEFINE wake == IF gd_power THEN [mr |-> gd_mr, ok |-> TRUE]
                   ELSE mrisc_message(gd_mr, "wake", IF fail = "wake" THEN late ELSE {})
           fresh == [wake.mr[c] EXCEPT !.st = IF fail = "train" THEN "failed" ELSE "trained", !.awake = TRUE,
                                       !.ca = GdUnset, !.tested = FALSE]
           mute == ~gd_cfg.test \/ fresh.msg # "none"
           test == StartHwMemtest(fresh, c \notin late, holds)
           trained == [wake.mr EXCEPT ![c] = IF fail = "train" \/ mute THEN fresh ELSE test]
           put == IF gd_power \/ ~test.tested THEN trained
                  ELSE mrisc_message(trained, "down", IF fail = "put" THEN late ELSE {}).mr
<1>1. gd_pc = "run" /\ gd_pc' = "run" /\ gd_cfg' = gd_cfg /\ UNCHANGED gd_soc
  BY Zenon DEF toggle_gddr_reset
<1>2. gd_mr' \in {wake.mr, trained, put}
  BY Zenon DEF toggle_gddr_reset
<1>3. GdNoWorse(gd_mr, gd_mr)
  BY Zenon DEF GdNoWorse, GdIInv, GdKinds
<1>4. GdNoWorse(wake.mr, gd_mr)
  <2>1. CASE gd_power
    BY <1>3, <2>1, Zenon
  <2>2. CASE ~gd_power
    BY <1>3, <2>2, MessageNoWorse, Zenon
  <2> QED
    BY <2>1, <2>2, Zenon
<1> HIDE DEF wake
<1>5. fresh \in GdMriscType /\ fresh.st # "training"
  <2>1. wake.mr[c] \in GdMriscType
    BY <1>4, Zenon DEF GdNoWorse
  <2> QED
    BY <2>1, Zenon DEF GdMriscType, GdSettings
<1> HIDE DEF fresh
<1>6. test \in GdMriscType /\ test.st # "training"
  <2>1. (c \notin late /\ holds) \in BOOLEAN /\ (IF c \notin late THEN "none" ELSE "memtest") \in {"none", "memtest"}
    BY Zenon
  <2> QED
    BY <1>5, <2>1, Zenon DEF StartHwMemtest, GdMriscType, GdSettings
<1> HIDE DEF test, mute
<1>7. GdNoWorse(trained, gd_mr)
  <2>1. PICK x \in GdMriscType : x.st # "training" /\ trained = [wake.mr EXCEPT ![c] = x]
    BY <1>5, <1>6, Zenon
  <2> HIDE DEF trained
  <2> QED
    BY <1>4, <2>1, Zenon DEF GdNoWorse
<1> HIDE DEF trained
<1>8. GdNoWorse(put, gd_mr)
  <2>1. CASE gd_power \/ ~test.tested
    BY <1>7, <2>1, Zenon
  <2>2. CASE ~(gd_power \/ ~test.tested)
    BY <1>7, <2>2, MessageNoWorse, Zenon
  <2> QED
    BY <2>1, <2>2, Zenon
<1> HIDE DEF put
<1>9. GdNoWorse(gd_mr', gd_mr)
  BY <1>2, <1>4, <1>7, <1>8, Zenon
<1> QED
  BY <1>1, <1>9, RunKeeps, Zenon

(* Every step of load, training, memory test, persisting and power keeps the *)
(* invariant (gddr.c, bh_power.c).                                           *)
LEMMA GdStepInv == GdIInv /\ [GdNext]_gd_vars => GdIInv'
<1> SUFFICES ASSUME GdIInv, [GdNext]_gd_vars PROVE GdIInv'
  BY Zenon
<1>1. CASE \E fault \in BOOLEAN, ok \in SUBSET GdInst : InitMrisc(fault, ok)
  <2>1. CASE GdInst = {}
    BY <1>1, <2>1, Zenon DEF InitMrisc, GdIInv, GdKinds, GdEmpty, LoadMriscFwCfg
  <2>2. CASE GdInst # {}
    BY <1>1, <2>2, TrainingKeeps, Zenon
  <2> QED
    BY <2>1, <2>2, Zenon
<1>2. CASE \E c \in GdInst : GdTrain(c) \/ GdLate(c)
  BY <1>2, TrainingKeeps, Zenon
<1>3. CASE \E c \in GdInst, v \in BOOLEAN : CheckGddrTraining(c, v)
  BY <1>3, TrainingKeeps, Zenon
<1>4. CASE \E late \in GdLates : CheckGddrHwTest(late)
  BY <1>4, TestedReachesFlash, Zenon
<1>5. CASE \E on \in BOOLEAN, late \in GdLates : GdPowerSettings(on, late)
  <2>1. PICK on \in BOOLEAN, late \in GdLates : GdPowerSettings(on, late)
    BY <1>5, Zenon
  <2>2. PICK op \in {"wake", "down"} : gd_mr' = mrisc_message(gd_mr, op, late).mr
    BY <2>1, Zenon DEF GdPowerSettings
  <2>3. GdNoWorse(gd_mr, gd_mr)
    BY Zenon DEF GdNoWorse, GdIInv, GdKinds
  <2>4. GdNoWorse(gd_mr', gd_mr)
    BY <2>2, <2>3, MessageNoWorse, Zenon
  <2>5. gd_pc = "run" /\ gd_pc' = "run" /\ gd_cfg' = gd_cfg /\ UNCHANGED gd_soc
    BY <2>1, Zenon DEF GdPowerSettings
  <2> QED
    BY <2>4, <2>5, RunKeeps, Zenon
<1>6. CASE \E c \in GdInst, fail \in {"wake", "train", "put", "none"}, late \in GdLates, holds \in BOOLEAN :
             toggle_gddr_reset(c, fail, late, holds)
  BY <1>6, ToggleKeeps, Zenon
<1>7. CASE GdReset
  <2>1. GdHeld \in GdMriscType /\ GdHeld.st = "reset" /\ GdHeld.report = "same"
    BY Zenon DEF GdHeld, GdMriscType, GdSettings
  <2>2. GdEmpty \in [GdInst -> GdSettings]
    BY Zenon DEF GdEmpty, GdSettings
  <2> QED
    BY <1>7, <2>1, <2>2, Zenon DEF GdReset, GdColdStart, GdIInv, GdKinds
<1>8. CASE UNCHANGED gd_vars
  BY <1>8, Zenon DEF gd_vars, gd_soc, GdIInv, GdKinds
<1> QED
  BY <1>1, <1>2, <1>3, <1>4, <1>5, <1>6, <1>7, <1>8, Zenon DEF GdNext

(* Over any number of boots, failed trainings, late answers, resets of       *)
(* single controllers and power losses, the settings in flash, and so the    *)
(* seeds of every training, are ones that passed the memory test.            *)
THEOREM SettingsTested == GdSpec => []GdPersistsTested
<1>1. GdIInv => GdPersistsTested
  BY Zenon DEF GdIInv, GdKinds, GdSafe, GdPersistsTested
<1> QED
  BY <1>1, GdInitInv, GdStepInv, PTL DEF GdSpec

-----------------------------------------------------------------------------
(* The registers passed are as configured unless a failure was recorded.     *)
RgRegisters ==
  /\ rg_pc \in Nat /\ rg_pc >= 1 /\ Len(RgTable) \in Nat
  /\ DOMAIN rg_regs = RgSteps
  /\ ~rg_failed => \A i \in RgSteps : i < rg_pc => rg_regs[i]

(* Each AVS command has taken its own answers.                               *)
RgAnswered == rg_avs = <<>> /\ rg_cmd.used = rg_cmd.sent /\ rg_cmd.sent \in Nat

(* Without a fault the core regulator follows, from the first step on.       *)
RgFollows ==
  /\ rg_faults \in Nat /\ rg_source \in {"VoutCommand", "AVSVoutCommand"}
  /\ rg_faults = 0 =>
       /\ rg_op = [source |-> rg_source, on |-> TRUE]
       /\ rg_volt.lost = FALSE
       /\ rg_rsp.msg = "core" => rg_volt.core = rg_rsp.arg
RgVoltType == [core : RgVolts \cup {"default"}, corem : RgVolts \cup {"default"}, lost : BOOLEAN]

RgIInv == RgRegisters /\ RgAnswered /\ RgFollows /\ rg_volt \in RgVoltType

(* Every board's table of registers is a sequence (regulator_config.c).      *)
LEMMA RgTables == \A b : Len(regulators_config(b)) \in Nat
<1> DEFINE A == {"VCORE", "VCOREM", "VDDL", "VDD", "VDDH", "GDDRIO_WEST", "GDDRIO_EAST"}
           D == {"b0", "cb", "d3", "ca", "38", "39", "e7", "29", "21", "d2"}
           S == A \X D
<1>2. /\ vcore_data \in Seq(D) /\ vcorem_data \in Seq(D) /\ ubb_vcorem_data \in Seq(D)
      /\ ubb_gddrio_data \in Seq(D) /\ serdes_vr_data \in Seq(D)
  BY SMTT(30) DEF vcore_data, vcorem_data, ubb_vcorem_data, ubb_gddrio_data, serdes_vr_data
<1>5. /\ "VCORE" \in A /\ "VCOREM" \in A /\ "VDDL" \in A /\ "VDD" \in A /\ "VDDH" \in A
      /\ "GDDRIO_WEST" \in A /\ "GDDRIO_EAST" \in A
  BY Zenon
<1> HIDE DEF A, D
<1>4. \A a \in A : \A cmds \in Seq(D) : Rail(a, cmds) \in Seq(S)
  <2> SUFFICES ASSUME NEW a \in A, NEW cmds \in Seq(D) PROVE Rail(a, cmds) \in Seq(S)
    BY Zenon
  <2>1. Len(cmds) \in Nat /\ \A i \in 1 .. Len(cmds) : <<a, cmds[i]>> \in S
    BY SMTT(30)
  <2> HIDE DEF S
  <2> QED BY <2>1, SMTT(30) DEF Rail
<1> HIDE DEF S
<1>3. \A s, t \in Seq(S) : s \o t \in Seq(S)
  BY SMTT(30)
<1>6. p150_config \in Seq(S)
  BY <1>2, <1>3, <1>4, <1>5, Zenon DEF p150_config
<1>7. p300_left_config \in Seq(S)
  BY <1>2, <1>3, <1>4, <1>5, Zenon DEF p300_left_config
<1>8. ubb_config \in Seq(S)
  BY <1>2, <1>3, <1>4, <1>5, Zenon DEF ubb_config
<1>9. <<>> \in Seq(S) /\ \A s \in Seq(S) : Len(s) \in Nat
  BY SMTT(30)
<1>10. \A b : regulators_config(b) \in Seq(S)
  BY <1>6, <1>7, <1>8, <1>9, Zenon DEF regulators_config, p300_right_config
<1> QED BY <1>9, <1>10, Zenon

(* The regulators come up on PMBus, and no register is done.                 *)
LEMMA RgInitInv == RgInit => RgIInv
<1> SUFFICES ASSUME RgInit PROVE RgIInv
  BY Zenon
<1>1. RgRegisters
  BY RgTables, SMTT(30) DEF RgInit, RgRegisters, RgTable, RgSteps
<1>2. RgAnswered
  BY Zenon DEF RgInit, RgAnswered
<1>3. RgFollows
  BY Zenon DEF RgInit, RgFollows
<1>4. rg_volt \in RgVoltType
  BY Zenon DEF RgInit, RgVoltType
<1> QED BY <1>1, <1>2, <1>3, <1>4, Zenon DEF RgIInv

(* One register of the boot, set and verified or failed.                     *)
LEMMA RgBootInv == ASSUME RgIInv, RegulatorInit PROVE RgIInv'
<1>1. PICK result \in I2CRMWV(rg_regs[rg_pc]) :
         /\ rg_regs' = [rg_regs EXCEPT ![rg_pc] = result.reg]
         /\ IF result.ok
            THEN rg_pc' = rg_pc + 1 /\ rg_try' = 1 /\ UNCHANGED <<rg_failed, rg_faults>>
            ELSE /\ rg_faults < RgFaultMax /\ rg_faults' = rg_faults + 1
                 /\ IF rg_try = 1
                    THEN rg_try' = 2 /\ UNCHANGED <<rg_pc, rg_failed>>
                    ELSE rg_pc' = rg_pc + 1 /\ rg_try' = 1 /\ rg_failed' = TRUE
  BY Zenon DEF RegulatorInit
<1>2. /\ UNCHANGED <<rg_board, rg_source, rg_op, rg_volt, rg_avs, rg_cmd, rg_rsp>>
      /\ rg_pc \in RgSteps
  BY Zenon DEF RegulatorInit, RgRest
<1>3. result.ok => result.reg = TRUE
  BY <1>1, Zenon DEF I2CRMWV
<1>4. /\ RgTable' = RgTable /\ RgSteps' = RgSteps /\ Len(RgTable) \in Nat /\ rg_pc \in Nat /\ rg_pc >= 1
  BY <1>2, RgTables, Zenon DEF RgIInv, RgRegisters, RgTable, RgSteps
<1>5. RgRegisters'
  <2>1. /\ DOMAIN rg_regs' = RgSteps /\ rg_regs'[rg_pc] = result.reg
        /\ \A i \in RgSteps : i # rg_pc => rg_regs'[i] = rg_regs[i]
    BY <1>1, <1>2, Zenon DEF RgIInv, RgRegisters
  <2>2. ~rg_failed => \A i \in RgSteps : i < rg_pc => rg_regs[i]
    BY Zenon DEF RgIInv, RgRegisters
  <2>3. (rg_pc' = rg_pc /\ rg_failed' = rg_failed) \/ (rg_pc' = rg_pc + 1 /\ (rg_failed' = TRUE \/ (rg_failed' = rg_failed /\ result.ok)))
    BY <1>1, Zenon
  <2>4. rg_pc' \in Nat /\ rg_pc' >= 1
    BY <1>4, <2>3, SMTT(30)
  <2>5. ~rg_failed' => \A i \in RgSteps : i < rg_pc' => rg_regs'[i]
    <3> SUFFICES ASSUME ~rg_failed', NEW i \in RgSteps, i < rg_pc' PROVE rg_regs'[i]
      BY Zenon
    <3>1. i \in Nat
      BY <1>4, SMTT(30) DEF RgSteps
    <3>2. CASE rg_pc' = rg_pc /\ rg_failed' = rg_failed
      BY <1>4, <2>1, <2>2, <3>1, <3>2, SMTT(30)
    <3>3. CASE rg_pc' = rg_pc + 1 /\ rg_failed' = rg_failed /\ result.ok
      <4>1. i = rg_pc \/ (i # rg_pc /\ i < rg_pc)
        BY <1>4, <3>1, <3>3, SMTT(30)
      <4> QED BY <1>3, <2>1, <2>2, <3>3, <4>1, Zenon
    <3> QED BY <2>3, <3>2, <3>3, Zenon
  <2> QED BY <1>4, <2>1, <2>4, <2>5, Zenon DEF RgRegisters
<1>6. RgFollows'
  <2>1. rg_faults' = rg_faults \/ rg_faults' = rg_faults + 1
    BY <1>1, Zenon
  <2> QED BY <1>2, <2>1, SMTT(30) DEF RgIInv, RgFollows
<1>7. RgAnswered' /\ rg_volt' \in RgVoltType
  BY <1>2, Zenon DEF RgIInv, RgAnswered
<1> QED BY <1>5, <1>6, <1>7, Zenon DEF RgIInv

(* The source is switched: without a fault the register follows the record.  *)
LEMMA RgSwitchInv ==
  ASSUME RgIInv, NEW source \in {"VoutCommand", "AVSVoutCommand"}, SwitchVoutControl(source),
         rg_pc' = rg_pc \/ rg_pc' = rg_pc + 1, rg_pc \notin RgSteps,
         rg_rsp' = rg_rsp \/ rg_rsp'.msg = "switch",
         UNCHANGED <<rg_board, rg_regs, rg_failed, rg_volt, rg_avs, rg_cmd>>
  PROVE  RgIInv'
<1>1. PICK read \in BOOLEAN, write \in BOOLEAN, on \in BOOLEAN :
      /\ read => on = rg_op.on
      /\ rg_faults' = rg_faults + (IF read THEN 0 ELSE 1) + (IF write THEN 0 ELSE 1)
      /\ rg_op' = IF write THEN [source |-> source, on |-> on] ELSE rg_op
      /\ rg_source' = source
  BY Zenon DEF SwitchVoutControl
<1>2. RgFollows'
  <2>0. rg_faults \in Nat /\ rg_faults' \in Nat
    BY <1>1, SMTT(30) DEF RgIInv, RgFollows
  <2>1. rg_faults' = 0 => rg_faults = 0 /\ read /\ write
    BY <1>1, <2>0, SMTT(30)
  <2>2. rg_faults' = 0 => rg_op.on = TRUE /\ rg_volt.lost = FALSE /\ (rg_rsp.msg = "core" => rg_volt.core = rg_rsp.arg)
    BY <2>1, SMTT(30) DEF RgIInv, RgFollows
  <2>3. rg_faults' = 0 => rg_op' = [source |-> rg_source', on |-> TRUE]
    BY <1>1, <2>1, <2>2, Zenon
  <2> QED BY <1>1, <2>0, <2>2, <2>3, Zenon DEF RgFollows
<1>3. RgRegisters'
  <2>1. RgTable' = RgTable /\ RgSteps' = RgSteps
    BY Zenon DEF RgTable, RgSteps
  <2>2. \A i \in RgSteps : i < rg_pc
    BY SMTT(30) DEF RgIInv, RgRegisters, RgSteps
  <2>3. rg_pc' \in Nat /\ rg_pc' >= 1
    BY SMTT(30) DEF RgIInv, RgRegisters
  <2> QED BY <2>1, <2>2, <2>3, Zenon DEF RgIInv, RgRegisters
<1> QED BY <1>2, <1>3, Zenon DEF RgIInv, RgAnswered

(* The voltages' record after a command.                                     *)
LEMMA RgVoltSet == \A r \in RgVoltType : \A v \in RgVolts :
  /\ [r EXCEPT !.core = v, !.lost = FALSE] \in RgVoltType
  /\ [r EXCEPT !.core = v, !.lost = FALSE].core = v /\ [r EXCEPT !.core = v, !.lost = FALSE].lost = FALSE
  /\ [r EXCEPT !.lost = TRUE] \in RgVoltType
  /\ [r EXCEPT !.corem = v] \in RgVoltType /\ [r EXCEPT !.corem = v].lost = r.lost
  BY Zenon DEF RgVoltType

(* ReadRxFifo, called with the answers of one command, takes all of them:    *)
(* the last is the good one, or the last of max_retries + 1 refusals.        *)
LEMMA RgTakesAll ==
  ASSUME NEW n \in Nat, NEW refused \in 0 .. (RgRetries + 1)
  PROVE  LET fifo == <<>> \o RgAnswers(n, refused)
         IN  /\ SubSeq(fifo, ReadRxFifo(fifo) + 1, Len(fifo)) = <<>>
             /\ fifo[ReadRxFifo(fifo)].cmd = n
<1> DEFINE A == [cmd : Nat, ok : BOOLEAN]
           bad == [i \in 1 .. refused |-> [cmd |-> n, ok |-> FALSE]]
           good == [cmd |-> n, ok |-> TRUE]
           last == IF refused <= RgRetries THEN <<good>> ELSE <<>>
           fifo == <<>> \o RgAnswers(n, refused)
<1>0. RgRetries \in Nat /\ refused \in Nat /\ refused <= RgRetries + 1
  BY RgAssumption, SMTT(30)
<1>1. /\ bad \in Seq(A) /\ Len(bad) = refused /\ last \in Seq(A) /\ good \in A
      /\ \A i \in 1 .. refused : bad[i].cmd = n /\ bad[i].ok = FALSE
  <2> DEFINE no == [cmd |-> n, ok |-> FALSE]
  <2>1. no \in A /\ good \in A /\ no.cmd = n /\ no.ok = FALSE
    BY Zenon
  <2> HIDE DEF no, good, A
  <2>2. [i \in 1 .. refused |-> no] \in Seq(A) /\ Len([i \in 1 .. refused |-> no]) = refused
    BY <1>0, <2>1, SMTT(30)
  <2>3. last \in Seq(A)
    BY <2>1, SMTT(30)
  <2> QED BY <2>1, <2>2, <2>3, Zenon DEF no
<1>2. fifo = bad \o last
  <2>1. \A s, t \in Seq(A) : <<>> \o (s \o t) = s \o t
    BY SMTT(30)
  <2>2. RgAnswers(n, refused) = bad \o last
    BY Zenon DEF RgAnswers
  <2> HIDE DEF bad, last, A
  <2> QED BY <1>1, <2>1, <2>2, Zenon
<1>3. CASE refused <= RgRetries
  <2>1. last = <<good>>
    BY <1>3, Zenon
  <2>2. good.ok = TRUE /\ good.cmd = n
    BY Zenon
  <2> HIDE DEF bad, good, last, A, fifo
  <2>3. /\ fifo \in Seq(A) /\ Len(fifo) = refused + 1 /\ fifo[refused + 1] = good
        /\ \A i \in 1 .. refused : fifo[i] = bad[i]
    BY <1>0, <1>1, <1>2, <2>1, SMTT(30)
  <2>4. \A m \in 1 .. Len(fifo) : 
          ((fifo[m].ok \/ m = RgRetries + 1) /\ \A i \in 1 .. (m - 1) : ~fifo[i].ok) <=> m = refused + 1
    BY <1>0, <1>1, <1>3, <2>2, <2>3, SMTT(30)
  <2>5. ReadRxFifo(fifo) = refused + 1
    BY <1>0, <2>3, <2>4, SMTT(30) DEF ReadRxFifo
  <2> QED BY <1>0, <2>2, <2>3, <2>5, SMTT(30) DEF fifo
<1>4. CASE ~(refused <= RgRetries)
  <2>1. last = <<>> /\ refused = RgRetries + 1
    BY <1>0, <1>4, SMTT(30)
  <2> HIDE DEF bad, good, last, A, fifo
  <2>3. /\ fifo \in Seq(A) /\ Len(fifo) = refused /\ \A i \in 1 .. refused : fifo[i] = bad[i]
    BY <1>0, <1>1, <1>2, <2>1, SMTT(30)
  <2>4. \A m \in 1 .. Len(fifo) : 
          ((fifo[m].ok \/ m = RgRetries + 1) /\ \A i \in 1 .. (m - 1) : ~fifo[i].ok) <=> m = refused
    BY <1>0, <1>1, <2>1, <2>3, SMTT(30)
  <2>5. ReadRxFifo(fifo) = refused
    BY <1>0, <2>1, <2>3, <2>4, SMTT(30) DEF ReadRxFifo
  <2> QED BY <1>0, <1>1, <2>1, <2>3, <2>5, SMTT(30) DEF fifo
<1> QED BY <1>3, <1>4, Zenon

(* A voltage over the AVS bus: the command takes all its answers, and without*)
(* a refusal it reaches a regulator that listens to this bus.                *)
LEMMA RgAvsIs ==
  ASSUME RgIInv, NEW volt \in RgVolts, AVSWriteVoltage(volt)
  PROVE  /\ RgAnswered' /\ rg_volt' \in RgVoltType /\ rg_faults' \in Nat
         /\ rg_faults' = 0 =>
              /\ rg_faults = 0
              /\ rg_op.source = "AVSVoutCommand" => rg_volt'.core = volt /\ rg_volt'.lost = FALSE
<1> DEFINE fifo(refused) == <<>> \o RgAnswers(rg_cmd.sent + 1, refused)
<1>0. rg_avs = <<>> /\ rg_cmd.sent \in Nat /\ rg_faults \in Nat /\ rg_volt \in RgVoltType
  BY Zenon DEF RgIInv, RgAnswered, RgFollows
<1>1. PICK refused \in 0 .. (RgRetries + 1) :
        /\ rg_faults' = rg_faults + refused
        /\ rg_avs' = SubSeq(fifo(refused), ReadRxFifo(fifo(refused)) + 1, Len(fifo(refused)))
        /\ rg_cmd' = [sent |-> (rg_cmd.sent + 1) % 3, used |-> fifo(refused)[ReadRxFifo(fifo(refused))].cmd % 3]
        /\ rg_volt' = IF refused <= RgRetries /\ rg_op.source = "AVSVoutCommand"
                      THEN [rg_volt EXCEPT !.core = volt, !.lost = FALSE]
                      ELSE [rg_volt EXCEPT !.lost = TRUE]
  BY <1>0, Zenon DEF AVSWriteVoltage
<1>2. /\ SubSeq(fifo(refused), ReadRxFifo(fifo(refused)) + 1, Len(fifo(refused))) = <<>>
      /\ fifo(refused)[ReadRxFifo(fifo(refused))].cmd = rg_cmd.sent + 1
  <2>1. rg_cmd.sent + 1 \in Nat
    BY <1>0, SMTT(30)
  <2> QED BY <2>1, RgTakesAll, Zenon
<1> HIDE DEF fifo
<1>3. RgAnswered'
  <2>1. (rg_cmd.sent + 1) % 3 \in Nat
    BY <1>0, SMTT(30)
  <2> QED BY <1>1, <1>2, <2>1, Zenon DEF RgAnswered
<1>4. rg_volt' \in RgVoltType /\ (refused <= RgRetries /\ rg_op.source = "AVSVoutCommand" =>
                                    rg_volt'.core = volt /\ rg_volt'.lost = FALSE)
  <2>1. CASE refused <= RgRetries /\ rg_op.source = "AVSVoutCommand"
    BY <1>0, <1>1, <2>1, RgVoltSet, Zenon
  <2>2. CASE ~(refused <= RgRetries /\ rg_op.source = "AVSVoutCommand")
    BY <1>0, <1>1, <2>2, RgVoltSet, Zenon
  <2> QED BY <2>1, <2>2, Zenon
<1>5. refused \in Nat /\ RgRetries \in Nat
  BY RgAssumption, SMTT(30)
<1>6. rg_faults' \in Nat /\ (rg_faults' = 0 => rg_faults = 0 /\ refused <= RgRetries)
  BY <1>0, <1>1, <1>5, SMTT(30)
<1> QED BY <1>3, <1>4, <1>6, Zenon

(* A voltage over PMBus: one write, whose failure is a fault.                *)
LEMMA RgPmbusIs ==
  ASSUME RgIInv, NEW rail \in {"core", "corem"}, NEW volt \in RgVolts, i2c_set_max20816(rail, volt)
  PROVE  /\ RgAnswered' /\ rg_volt' \in RgVoltType /\ rg_faults' \in Nat
         /\ rg_faults' = 0 =>
              /\ rg_faults = 0
              /\ rail = "corem" => rg_volt'.lost = rg_volt.lost
              /\ rail = "core" /\ rg_op.source = "VoutCommand" => rg_volt'.core = volt /\ rg_volt'.lost = FALSE
<1>0. rg_faults \in Nat /\ rg_volt \in RgVoltType
  BY Zenon DEF RgIInv, RgFollows
<1>1. PICK ok \in BOOLEAN :
      /\ rg_faults' = IF ok THEN rg_faults ELSE rg_faults + 1
      /\ rg_volt' = IF rail = "corem" THEN IF ok THEN [rg_volt EXCEPT !.corem = volt] ELSE rg_volt
                    ELSE IF ok /\ rg_op.source = "VoutCommand"
                         THEN [rg_volt EXCEPT !.core = volt, !.lost = FALSE]
                         ELSE [rg_volt EXCEPT !.lost = TRUE]
      /\ UNCHANGED <<rg_avs, rg_cmd>>
  BY Zenon DEF i2c_set_max20816
<1>2. rg_faults' \in Nat /\ (rg_faults' = 0 => rg_faults = 0 /\ ok)
  BY <1>0, <1>1, SMTT(30)
<1>3. /\ rg_volt' \in RgVoltType
      /\ rail = "corem" => rg_volt'.lost = rg_volt.lost
      /\ (rail = "core" /\ ok /\ rg_op.source = "VoutCommand") => rg_volt'.core = volt /\ rg_volt'.lost = FALSE
  <2>1. CASE rail = "corem"
    <3>1. rail # "core"
      BY <2>1, Zenon
    <3>2. rg_volt' = [rg_volt EXCEPT !.corem = volt] \/ rg_volt' = rg_volt
      BY <1>1, <2>1, Zenon
    <3>3. rg_volt' \in RgVoltType /\ rg_volt'.lost = rg_volt.lost
      <4>1. CASE rg_volt' = [rg_volt EXCEPT !.corem = volt]
        BY <1>0, <4>1, RgVoltSet, Zenon
      <4>2. CASE rg_volt' = rg_volt
        BY <1>0, <4>2, Zenon
      <4> QED BY <3>2, <4>1, <4>2, Zenon
    <3> QED BY <3>1, <3>3, Zenon
  <2>2. CASE rail = "core"
    <3>1. rail # "corem"
      BY <2>2, Zenon
    <3>2. rg_volt' = IF ok /\ rg_op.source = "VoutCommand"
                     THEN [rg_volt EXCEPT !.core = volt, !.lost = FALSE]
                     ELSE [rg_volt EXCEPT !.lost = TRUE]
      BY <1>1, <3>1, Zenon
    <3>3. CASE ok /\ rg_op.source = "VoutCommand"
      BY <1>0, <3>1, <3>2, <3>3, RgVoltSet, Zenon
    <3>4. CASE ~(ok /\ rg_op.source = "VoutCommand")
      BY <1>0, <3>1, <3>2, <3>4, RgVoltSet, Zenon
    <3> QED BY <3>3, <3>4, Zenon
  <2> QED BY <2>1, <2>2, Zenon
<1>4. RgAnswered'
  BY <1>1, Zenon DEF RgIInv, RgAnswered
<1> QED BY <1>2, <1>3, <1>4, Zenon

(* TT_SMC_MSG_SET_VOLTAGE commands the bus the firmware believes in, which   *)
(* without a fault is the one the regulator listens to.                      *)
LEMMA RgVoltageInv ==
  ASSUME RgIInv, NEW rail \in {"core", "corem", "other"}, NEW volt \in RgVolts, set_voltage_handler(rail, volt)
  PROVE  RgIInv'
<1>1. /\ UNCHANGED <<rg_board, rg_pc, rg_regs, rg_failed, rg_source, rg_op>>
      /\ rg_rsp' = [msg |-> rail, ret |-> IF rail = "other" THEN 1 ELSE 0, arg |-> volt]
      /\ \/ rail = "core" /\ set_vcore(volt)
         \/ rail = "corem" /\ i2c_set_max20816("corem", volt)
         \/ rail = "other" /\ UNCHANGED <<rg_volt, rg_avs, rg_cmd, rg_faults>>
  BY Zenon DEF set_voltage_handler
<1>2. rg_rsp'.msg = rail /\ rg_rsp'.arg = volt
  BY <1>1, Zenon
<1>3. RgRegisters'
  BY <1>1, Zenon DEF RgIInv, RgRegisters, RgTable, RgSteps
<1>4. RgAnswered' /\ rg_volt' \in RgVoltType /\ rg_faults' \in Nat
      /\ (rg_faults' = 0 => rg_faults = 0 /\ rg_volt'.lost = FALSE /\ (rail = "core" => rg_volt'.core = volt))
  <2>0. /\ rg_faults = 0 => rg_op.source = rg_source /\ rg_volt.lost = FALSE
        /\ rg_source = "AVSVoutCommand" \/ (rg_source = "VoutCommand" /\ rg_source # "AVSVoutCommand")
    BY SMTT(30) DEF RgIInv, RgFollows
  <2>1. CASE rail = "core" /\ set_vcore(volt)
    <3>1. CASE rg_source = "AVSVoutCommand"
      <4>1. AVSWriteVoltage(volt)
        BY <2>1, <3>1, Zenon DEF set_vcore
      <4> QED BY <2>0, <3>1, <4>1, RgAvsIs, Zenon
    <3>2. CASE rg_source # "AVSVoutCommand"
      <4>1. i2c_set_max20816("core", volt)
        BY <2>1, <3>2, Zenon DEF set_vcore
      <4> QED BY <2>0, <3>2, <4>1, RgPmbusIs, Zenon
    <3> QED BY <3>1, <3>2, Zenon
  <2>2. CASE rail = "corem" /\ i2c_set_max20816("corem", volt)
    BY <2>0, <2>2, RgPmbusIs, Zenon
  <2>3. CASE rail = "other" /\ UNCHANGED <<rg_volt, rg_avs, rg_cmd, rg_faults>>
    BY <2>0, <2>3, Zenon DEF RgIInv, RgAnswered, RgFollows
  <2> QED BY <1>1, <2>1, <2>2, <2>3, Zenon
<1>5. RgFollows'
  BY <1>1, <1>2, <1>4, Zenon DEF RgIInv, RgFollows
<1> QED BY <1>3, <1>4, <1>5, Zenon DEF RgIInv

(* Every step of the boot and of the host's messages keeps the invariant.    *)
LEMMA RgStepInv == ASSUME RgIInv, [RgNext]_rg_vars PROVE RgIInv'
<1>1. CASE RegulatorInit
  BY <1>1, RgBootInv, Zenon
<1>2. CASE avs_init
  <2>1. /\ SwitchVoutControl("AVSVoutCommand") /\ rg_pc' = rg_pc + 1 /\ rg_pc = Len(RgTable) + 1
        /\ UNCHANGED <<rg_board, rg_regs, rg_failed, rg_volt, rg_avs, rg_cmd, rg_rsp>>
    BY <1>2, Zenon DEF avs_init, AtAvs
  <2>2. rg_pc \notin RgSteps
    BY <2>1, SMTT(30) DEF RgIInv, RgRegisters, RgSteps
  <2> QED BY <2>1, <2>2, RgSwitchInv, Zenon
<1>3. ASSUME NEW source \in {"VoutCommand", "AVSVoutCommand"}, switch_vout_control_handler(source) PROVE RgIInv'
  <2>1. /\ SwitchVoutControl(source) /\ rg_pc' = rg_pc /\ rg_pc = Len(RgTable) + 2
        /\ rg_rsp' = [msg |-> "switch", ret |-> 0, arg |-> source]
        /\ UNCHANGED <<rg_board, rg_regs, rg_failed, rg_volt, rg_avs, rg_cmd>>
    BY <1>3, Zenon DEF switch_vout_control_handler, Running
  <2>2. rg_pc \notin RgSteps /\ rg_rsp'.msg = "switch"
    BY <2>1, SMTT(30) DEF RgIInv, RgRegisters, RgSteps
  <2> QED BY <2>1, <2>2, RgSwitchInv, Zenon
<1>4. ASSUME NEW rail \in {"core", "corem", "other"}, NEW volt \in RgVolts, set_voltage_handler(rail, volt)
      PROVE  RgIInv'
  BY <1>4, RgVoltageInv, Zenon
<1>5. CASE UNCHANGED rg_vars
  BY <1>5, Zenon DEF rg_vars, RgIInv, RgRegisters, RgTable, RgSteps, RgAnswered, RgFollows
<1> QED BY <1>1, <1>2, <1>3, <1>4, <1>5, Zenon DEF RgNext

(* What the firmware believes of the regulators is so (RgCommanded), for any *)
(* boards, faults, retries of the AVS controller and voltages: registers as  *)
(* configured unless RegulatorInit recorded a failure, answers matched to    *)
(* their commands by ReadRxFifo, and without a fault the voltage asked for.  *)
THEOREM RegulatorsObey == RgSpec => []RgCommanded
<1>1. RgIInv => RgCommanded
  <2> SUFFICES ASSUME RgIInv PROVE RgCommanded
    BY Zenon
  <2>1. ((AtAvs \/ Running) /\ ~rg_failed) => \A i \in RgSteps : rg_regs[i]
    BY SMTT(30) DEF RgIInv, RgRegisters, AtAvs, Running, RgSteps
  <2> QED BY <2>1, Zenon DEF RgIInv, RgAnswered, RgFollows, RgCommanded
<1> QED BY <1>1, RgInitInv, RgStepInv, PTL DEF RgSpec
=============================================================================
