--------------------------------- MODULE Pvt ---------------------------------
(***************************************************************************)
(* The process, voltage and temperature sensors of the SMC:                *)
(* drivers/sensor/tenstorrent/pvt (start-up, sampling on the RTIO work     *)
(* queue, decoding), the host messages that read one sensor (bh_arc/pvt.c) *)
(* and the shared cache that telemetry, DVFS and the fan loop read the     *)
(* average temperature from (bh_arc/telemetry_internal.c).                 *)
(* Messages and readers all run on the system work queue, so one request  *)
(* is sampled at a time, while time passes and the sensors run on.         *)
(* A process detector's sample is the delay chain it was taken with; the   *)
(* float conversions are exact fractions, in the units named beside them.  *)
(***************************************************************************)
EXTENDS Integers, Sequences, FiniteSets

CONSTANTS
    PvCount,     \* sensors of each kind
    PvChains,    \* delay chains a host asks for, as oscillator_select has them: five bits
    PvRaws,      \* raw samples of the thermal and voltage sensors
    PvFuses,     \* 25 degree calibration codes that may be fused
    PvJunk,      \* what an uninitialised sample may hold
    PvStale,     \* max_staleness values of the cache's readers
    PvEnd,       \* milliseconds that pass
    PvReads      \* host messages that arrive

ASSUME PvAssumption ==
    /\ PvCount \in Nat \ {0} /\ PvEnd \in Nat /\ PvReads \in Nat
    /\ PvChains \subseteq 0..31
    /\ PvRaws \subseteq Nat /\ PvFuses \subseteq Nat /\ PvJunk \subseteq Nat /\ PvStale \subseteq Nat

VARIABLES
    pv_up,       \* start-up is done
    pv_delta,    \* therm_cali_delta
    pv_osc,      \* the delay chain each detector's latched sample was taken with
    pv_sel,      \* selected_pd_delay_chain
    pv_new,      \* new_delay_chain
    pv_req,      \* the sensor_read in progress: [kind, id, chain, stale, at]
    pv_job,      \* its sampling on the RTIO work queue: [pc, buf]
    pv_answer,   \* the last response to a message
    pv_now,      \* uptime in milliseconds
    pv_last,     \* last_update_time
    pv_cache,    \* internal_data.asic_temperature, and when its first sample was read
    pv_read,     \* the last result of ReadTelemetryInternal
    pv_left      \* host messages still to come

pv_vars == <<pv_up, pv_delta, pv_osc, pv_sel, pv_new, pv_req, pv_job, pv_answer, pv_now, pv_last,
             pv_cache, pv_read, pv_left>>

PvIds == 0..(PvCount - 1)
PvNoReq == [kind |-> "none", id |-> 0, chain |-> 0, stale |-> 0, at |-> 0]
PvNoJob == [pc |-> "idle", buf |-> <<>>]
PvNone == [kind |-> "none"]
PvUnset == 255
-----------------------------------------------------------------------------
(* Conversions: temperature in 1/409600 degree, voltage in sixths of a     *)
(* count, frequency in 1/255 MHz.  Division by 2^16 wraps a uint16_t.      *)

PvU16(x) == x % 65536
PvClamp(x) == IF x < 0 THEN 0 ELSE IF x > 65535 THEN 65535 ELSE x

\* Adding 0.5 and dropping the fraction.
PvRound(n, d) == (2 * n + d) \div (2 * d)

pvt_tt_bh_raw_to_temp(raw) == 8309 * 4096 + 26250 * (raw - 2048)
pvt_tt_bh_temp_to_raw(t) == PvClamp(PvRound(t - 8309 * 4096 + 26250 * 2048, 26250))
PvCelsius(c) == c * 409600

\* 3 / 256 is an integer division here, and a float division below.
pvt_tt_bh_raw_to_volt(raw) == 6 * raw - 16384 * (3 \div 256 + 1)
pvt_tt_bh_volt_to_raw(v) == PvClamp(PvRound(v + 16384 + (16384 * 3) \div 256, 6))

pvt_tt_bh_raw_to_freq(raw) == 20 * raw
pvt_tt_bh_freq_to_raw(f) == PvClamp(PvRound(f, 20))
-----------------------------------------------------------------------------
(* Start-up.                                                               *)

PvInit ==
    /\ pv_up = FALSE /\ pv_delta = [i \in PvIds |-> 0]
    /\ pv_osc = [i \in PvIds |-> PvUnset] /\ pv_sel = PvUnset /\ pv_new = 1
    /\ pv_req = PvNoReq /\ pv_job = PvNoJob /\ pv_answer = PvNone
    /\ pv_now = 0 /\ pv_last = 0
    /\ pv_cache = [temp |-> 0, ok |-> FALSE, at |-> 0] /\ pv_read = PvNone
    /\ pv_left = PvReads

\* A fuse within three degrees of 25 gives the sensor's delta.
PvDelta(fuse) ==
    LET t == pvt_tt_bh_raw_to_temp(fuse)
    IN IF PvCelsius(22) <= t /\ t <= PvCelsius(28)
       THEN fuse - pvt_tt_bh_temp_to_raw(PvCelsius(25)) ELSE 0

\* The identifier and the scratch register read 0, and every walking 1 reads back.
pvt_tt_bh_is_alive(zeros, walks) == zeros /\ walks

\* The check, then the alarms, the clocks, the SDIF set-up of each kind and the calibration.  A device
\* that fails the check keeps deltas of 0; its readers do not ask whether it is ready.
pvt_tt_bh_init(zeros, walks, fuse) ==
    /\ ~pv_up /\ pv_up' = TRUE
    /\ pv_delta' = IF pvt_tt_bh_is_alive(zeros, walks) THEN [i \in PvIds |-> PvDelta(fuse[i])] ELSE pv_delta
    /\ UNCHANGED <<pv_osc, pv_sel, pv_new, pv_req, pv_job, pv_answer, pv_now, pv_last, pv_cache, pv_read,
                   pv_left>>
-----------------------------------------------------------------------------
(* The callers of sensor_read.                                             *)

PvIdle == pv_up /\ pv_req = PvNoReq

\* A request for every sensor of a kind goes to the RTIO work queue.
pvt_tt_bh_submit(req) ==
    /\ pv_req' = req
    /\ pv_job' = [pc |-> IF req.kind = "PD" THEN "chain" ELSE "sample", buf |-> <<>>]

\* read_ts_handler, read_pd_handler and read_vm_handler up to their sensor_read.
PvMessage(kind, id, chain) ==
    /\ PvIdle /\ pv_left > 0 /\ pv_left' = pv_left - 1
    /\ pv_new' = IF kind = "PD" THEN chain ELSE pv_new
    /\ pvt_tt_bh_submit([kind |-> kind, id |-> id, chain |-> chain, stale |-> 0, at |-> pv_now])
    /\ pv_answer' = PvNone /\ pv_read' = PvNone
    /\ UNCHANGED <<pv_up, pv_delta, pv_osc, pv_sel, pv_now, pv_last, pv_cache>>

PvReading(cache, s, at) == [kind |-> "AVG", temp |-> cache.temp, ok |-> cache.ok, age |-> at - cache.at,
                            stale |-> s]

\* The cache when it is young enough, a new average otherwise.
ReadTelemetryInternal(s) ==
    /\ PvIdle
    /\ IF pv_now - pv_last < s
       THEN pv_read' = PvReading(pv_cache, s, pv_now) /\ UNCHANGED <<pv_req, pv_job>>
       ELSE /\ pvt_tt_bh_submit([kind |-> "AVG", id |-> 0, chain |-> 0, stale |-> s, at |-> pv_now])
            /\ pv_read' = PvNone
    /\ pv_answer' = PvNone
    /\ UNCHANGED <<pv_up, pv_delta, pv_osc, pv_sel, pv_new, pv_now, pv_last, pv_cache, pv_left>>
-----------------------------------------------------------------------------
(* Sampling on the RTIO work queue, one sensor a step.                     *)

select_delay_chain_and_start_pd_conv_noSleep ==
    /\ pv_job.pc = "chain" /\ pv_job' = [pv_job EXCEPT !.pc = "sample"]
    /\ pv_sel' = pv_new
    /\ UNCHANGED <<pv_up, pv_delta, pv_osc, pv_new, pv_req, pv_answer, pv_now, pv_last, pv_cache, pv_read,
                   pv_left>>

\* When the chain changes, two SDIF writes and a sleep in which every detector latches a new sample.
select_delay_chain_and_start_pd_conv ==
    /\ pv_job.pc = "chain" /\ pv_job' = [pv_job EXCEPT !.pc = "sample"]
    /\ pv_sel' = pv_new
    /\ pv_osc' = IF pv_new = pv_sel THEN pv_osc ELSE [i \in PvIds |-> pv_new]
    /\ UNCHANGED <<pv_up, pv_delta, pv_new, pv_req, pv_answer, pv_now, pv_last, pv_cache, pv_read, pv_left>>

\* How read_pvt_auto_mode and read_vm report a register: a manual read has no timeout.
PvStatuses(kind) ==
    {"ReadOk", "SampleFault", "IncorrectSampleType"} \cup (IF kind = "VM" THEN {} ELSE {"SdifTimeout"})

PvPut(value, ok) ==
    LET n == Len(pv_job.buf) + 1
    IN pv_job' = [pc |-> IF n < PvCount THEN "sample" ELSE "done",
                  buf |-> Append(pv_job.buf, [raw |-> value, ok |-> ok, at |-> pv_now])]

read_ts(i, raw) == PvU16(raw - pv_delta[i])
read_pd(i) == pv_osc[i]

PvSampled(i, raw) ==
    IF pv_req.kind = "PD" THEN read_pd(i) ELSE IF pv_req.kind = "VM" THEN raw ELSE read_ts(i, raw)

\* The first sensor that fails ends the request.
pvt_tt_bh_submit_sample(raw, status) ==
    LET i == Len(pv_job.buf)
    IN /\ pv_job.pc = "sample" /\ pv_req.kind # "AVG"
       /\ IF status # "ReadOk" THEN pv_job' = [pv_job EXCEPT !.pc = "error"]
          ELSE PvPut(PvSampled(i, raw), TRUE)
       /\ UNCHANGED <<pv_up, pv_delta, pv_osc, pv_sel, pv_new, pv_req, pv_answer, pv_now, pv_last,
                      pv_cache, pv_read, pv_left>>

\* The average drops the status of each read; a read that fails leaves the sample uninitialised.
read_ts_avg(raw, status) ==
    LET i == Len(pv_job.buf)
    IN /\ pv_job.pc = "sample" /\ pv_req.kind = "AVG"
       /\ raw \in IF status = "ReadOk" THEN PvRaws ELSE PvJunk
       /\ PvPut(read_ts(i, raw), status = "ReadOk")
       /\ UNCHANGED <<pv_up, pv_delta, pv_osc, pv_sel, pv_new, pv_req, pv_answer, pv_now, pv_last,
                      pv_cache, pv_read, pv_left>>

\* The uint16_t sum of the samples, and its quotient.
PvSum(buf) == LET sum[k \in 0..Len(buf)] == IF k = 0 THEN 0 ELSE PvU16(sum[k - 1] + buf[k].raw)
              IN sum[Len(buf)]
PvAverage(buf) == PvSum(buf) \div PvCount
-----------------------------------------------------------------------------
(* The caller wakes up and decodes.                                        *)

\* The raw value a message reports: the sample converted to its unit and back.
PvTold(kind, raw) ==
    IF kind = "TS" THEN pvt_tt_bh_temp_to_raw(pvt_tt_bh_raw_to_temp(raw))
    ELSE IF kind = "PD" THEN pvt_tt_bh_freq_to_raw(pvt_tt_bh_raw_to_freq(raw))
    ELSE pvt_tt_bh_volt_to_raw(pvt_tt_bh_raw_to_volt(raw))

PvGood == \A k \in DOMAIN pv_job.buf : pv_job.buf[k].ok

\* pvt_tt_bh_decode_sample finds the entry of the sensor asked for; for an id that no entry has, the
\* handler reports an uninitialised float.
PvRespond(junk) ==
    LET has == pv_req.id \in PvIds
        sample == IF has THEN pv_job.buf[pv_req.id + 1].raw ELSE junk
    IN /\ pv_req.kind \in {"TS", "PD", "VM"} /\ pv_job.pc \in {"done", "error"}
       /\ pv_answer' = IF pv_job.pc = "error" THEN [kind |-> pv_req.kind, cc |-> "error"]
                       ELSE [kind |-> pv_req.kind, cc |-> "ok", known |-> has, chain |-> pv_req.chain,
                             raw |-> IF has THEN PvTold(pv_req.kind, sample) ELSE junk,
                             sample |-> sample, ok |-> PvGood]
       /\ pv_req' = PvNoReq /\ pv_job' = PvNoJob
       /\ UNCHANGED <<pv_up, pv_delta, pv_osc, pv_sel, pv_new, pv_now, pv_last, pv_cache, pv_read, pv_left>>

\* ReadTelemetryInternal after its sensor_read: the time it records is that of the call, which
\* k_uptime_delta stored in reftime before the sensors were sampled.
PvUpdate ==
    LET fresh == [temp |-> pvt_tt_bh_raw_to_temp(PvAverage(pv_job.buf)), ok |-> PvGood,
                  at |-> pv_job.buf[1].at]
    IN /\ pv_req.kind = "AVG" /\ pv_job.pc = "done"
       /\ pv_cache' = fresh /\ pv_last' = pv_req.at
       /\ pv_read' = PvReading(fresh, pv_req.stale, pv_req.at)
       /\ pv_req' = PvNoReq /\ pv_job' = PvNoJob
       /\ UNCHANGED <<pv_up, pv_delta, pv_osc, pv_sel, pv_new, pv_answer, pv_now, pv_left>>

PvTick ==
    /\ pv_now < PvEnd /\ pv_now' = pv_now + 1
    /\ UNCHANGED <<pv_up, pv_delta, pv_osc, pv_sel, pv_new, pv_req, pv_job, pv_answer, pv_last, pv_cache,
                   pv_read, pv_left>>

PvNext ==
    \/ \E zeros, walks \in BOOLEAN, fuse \in [PvIds -> PvFuses] : pvt_tt_bh_init(zeros, walks, fuse)
    \/ \E kind \in {"TS", "PD", "VM"}, id \in 0..PvCount, chain \in PvChains :
          PvMessage(kind, id, chain)
    \/ \E s \in PvStale : ReadTelemetryInternal(s)
    \/ select_delay_chain_and_start_pd_conv
    \/ \E raw \in PvRaws, status \in PvStatuses(pv_req.kind) : pvt_tt_bh_submit_sample(raw, status)
    \/ \E raw \in PvRaws \cup PvJunk, status \in PvStatuses("TS") : read_ts_avg(raw, status)
    \/ \E junk \in PvJunk : PvRespond(junk)
    \/ PvUpdate
    \/ PvTick

PvSpec == PvInit /\ [][PvNext]_pv_vars
-----------------------------------------------------------------------------
(* Properties.                                                             *)

\* Type invariant.
PvTypeOK ==
    /\ pv_up \in BOOLEAN /\ pv_delta \in [PvIds -> Int]
    /\ pv_osc \in [PvIds -> PvChains \cup {PvUnset}]
    /\ pv_sel \in PvChains \cup {PvUnset} /\ pv_new \in PvChains \cup {1}
    /\ pv_req.kind \in {"none", "TS", "PD", "VM", "AVG"}
    /\ pv_job.pc \in {"idle", "chain", "sample", "done", "error"}
    /\ (pv_job.pc = "idle") = (pv_req = PvNoReq)
    /\ Len(pv_job.buf) <= PvCount
    /\ (pv_job.pc = "done" => Len(pv_job.buf) = PvCount)
    /\ pv_now \in 0..PvEnd /\ pv_last \in 0..pv_now /\ pv_left \in 0..PvReads

\* What a READ_TS, READ_PD or READ_VM that succeeds answers with was read
\* without a fault (no failing read is covered up by a later one), and a READ_PD
\* is a count taken with the delay chain its message asked for, whatever chain
\* earlier messages left selected and whatever failed then
\* (pvt_tt_bh_submit_sample, select_delay_chain_and_start_pd_conv).
PvChainMeasured ==
    (pv_answer.kind # "none" /\ pv_answer.cc = "ok") =>
      /\ pv_answer.ok
      /\ (pv_answer.kind = "PD" /\ pv_answer.known) => pv_answer.raw = pv_answer.chain

=============================================================================
