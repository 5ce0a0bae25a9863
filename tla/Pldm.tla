-------------------------------- MODULE Pldm --------------------------------
(***************************************************************************)
(* The PLDM-over-MCTP responder of the DMC (drivers/pmci/pldm): the        *)
(* receive queue and its work item (pldm_mctp_responder.c), the base       *)
(* commands (pldm_base.c), the PDR repository with its multipart reads     *)
(* (pldm_pdr.c) and the platform commands (pldm_platform.c).  Sizes are    *)
(* the wire sizes of the code; a record's bytes are the pairs of its       *)
(* handle and an offset, so a chunk is the triple handle, offset, length.  *)
(* Requesters are external: each reads the repository record by record,    *)
(* may give up on an answer and ask again, and shares the one transfer     *)
(* state of the repository with the others.                                *)
(***************************************************************************)
EXTENDS Integers, Sequences, FiniteSets

CONSTANTS
    PmEids,      \* MCTP endpoints that read the repository
    PmSensors,   \* the numeric sensors of the devicetree: a sequence of [id, name length]
    PmCount,     \* the request count each endpoint uses
    PmDepth,     \* TT_PLDM_RX_QUEUE_DEPTH
    PmTids,      \* TIDs the requesters set
    PmMods,      \* unit modifiers a devicetree may give
    PmRaws,      \* q31 values a sensor may report
    PmShifts,    \* and their shifts
    PmBits,      \* 31, the fraction bits of a q31 value at shift 0
    PmMicro,     \* 1000000, the scale of a sensor_value
    PmS32        \* INT32_MAX

ASSUME PmAssumption ==
    /\ \A i \in DOMAIN PmSensors : PmSensors[i].id \in Nat /\ PmSensors[i].name \in Nat
    /\ PmCount \in [PmEids -> Nat \ {0}] /\ PmDepth \in Nat \ {0} /\ PmMicro % 2 = 0

VARIABLES
    pm_records,  \* pdr_records: [handle, length, sensor, kind]
    pm_size,     \* pdr_repo_size
    pm_transfer, \* the provider's transfer_* fields, or PmIdle
    pm_tid,      \* data->tid
    pm_queue,    \* rx_msgq: [eid, req]
    pm_put,      \* a message is in the queue and its submit is still to come
    pm_work,     \* rx_work is queued on rx_work_q
    pm_drain,    \* the handler is in its k_msgq_get loop
    pm_reader,   \* each requester: [at, next, got]
    pm_read      \* the whole record a requester took at the last response, or PmNothing

pm_vars == <<pm_records, pm_size, pm_transfer, pm_tid, pm_queue, pm_put, pm_work, pm_drain,
             pm_reader, pm_read>>

TT_PLDM_MAX_MESSAGE_LEN == 64
PLDM_GET_PDR_MAX_DATA_LEN == 48
PmHdr == 3
PmIdle == [handle |-> 0, index |-> 0, next |-> 0]
PmNothing == [handle |-> 0, got |-> <<>>]
-----------------------------------------------------------------------------
(* The repository, built once when the device is initialised.  A name of   *)
(* length 0 is no name.  PmNumericLen adds up the fields that              *)
(* pldm_pdr_encode_numeric_sensor_record appends.                          *)

PmNumericLen == (4 + 1 + 1 + 2 + 2) + 5 * 2 + 13 + 2 * 4 + 2 + 2 + 4 + 2 + 2 * 4 + 2 * 4 + 2 + 9 * 4

pldm_pdr_encode_utf16be_terminated(n, room) == IF 2 * (n + 1) > room THEN 0 ELSE 2 * (n + 1)

PmAuxLen(n) == 15 + 4 + 2 * (n + 1)

PmNamed(i) == PmSensors[i].name > 0

\* PLDM_PDR_REPO_CAPACITY and the record capacity, summed over the devicetree nodes.
PmSensorRoom[i \in 0..Len(PmSensors)] ==
    IF i = 0 THEN 19
    ELSE PmSensorRoom[i - 1] + PmNumericLen + IF PmNamed(i) THEN PmAuxLen(PmSensors[i].name) ELSE 0

PmCapacity == PmSensorRoom[Len(PmSensors)]

PmRecordCapacity == 1 + Len(PmSensors) + Cardinality({i \in DOMAIN PmSensors : PmNamed(i)})

\* A repository under construction is [recs, size, ok]; the first append that fails ends it.
pldm_pdr_append_record(repo, kind, sensor, length) ==
    IF ~repo.ok \/ Len(repo.recs) >= PmRecordCapacity \/ repo.size + length > PmCapacity
    THEN [repo EXCEPT !.ok = FALSE]
    ELSE [recs |-> Append(repo.recs, [handle |-> Len(repo.recs) + 1, kind |-> kind,
                                      sensor |-> sensor, length |-> length]),
          size |-> repo.size + length, ok |-> TRUE]

pldm_pdr_append_sensor_aux_name_record(repo, i) ==
    LET names == PmCapacity - repo.size - 15
        utf16 == pldm_pdr_encode_utf16be_terminated(PmSensors[i].name, names - 4)
    IN IF PmCapacity - repo.size < 16 \/ names < 4 \/ utf16 = 0
       THEN [repo EXCEPT !.ok = FALSE]
       ELSE pldm_pdr_append_record(repo, "aux", i, 15 + 4 + utf16)

pldm_pdr_provider_init ==
    LET built[i \in 0..Len(PmSensors)] ==
            IF i = 0
            THEN pldm_pdr_append_record([recs |-> <<>>, size |-> 0, ok |-> TRUE], "terminus", 0, 19)
            ELSE LET num == pldm_pdr_append_record(built[i - 1], "numeric", i, PmNumericLen)
                 IN IF PmNamed(i) THEN pldm_pdr_append_sensor_aux_name_record(num, i) ELSE num
    IN built[Len(PmSensors)]

\* Handles are issued in order, so a record's index is its place in the sequence.
pldm_pdr_find_record_index(handle) == {i \in DOMAIN pm_records : pm_records[i].handle = handle}

pldm_pdr_find_numeric_sensor_by_id(id) == {i \in DOMAIN PmSensors : PmSensors[i].id = id}

PmNextHandle(i) == IF i < Len(pm_records) THEN pm_records[i + 1].handle ELSE 0
-----------------------------------------------------------------------------
(* pldm_pdr_get_chunk and pldm_pdr_build_chunk.  A response is [cc, len,   *)
(* ...] with len the whole PLDM message; a chunk response also carries the *)
(* bytes, the next handles and whether it is the last of its record.       *)

PmMin(a, b) == IF a < b THEN a ELSE b

pldm_cc_only_response(cc) == [cc |-> cc, len |-> PmHdr + 1]

pldm_pdr_build_chunk(i, offset, count) ==
    LET n == PmMin(PmMin(count, pm_records[i].length - offset), PLDM_GET_PDR_MAX_DATA_LEN)
        last == offset + n >= pm_records[i].length
    IN [cc |-> "SUCCESS", len |-> PmHdr + 12 + n + (IF last THEN 1 ELSE 0),
        chunk |-> <<pm_records[i].handle, offset, n>>, last |-> last, index |-> i,
        next |-> IF last THEN 0 ELSE offset + n, nextRecord |-> PmNextHandle(i)]

pldm_pdr_get_chunk_anyOffset(req) ==
    IF req.op = "FIRSTPART"
    THEN LET found == IF req.handle = 0 THEN {1} ELSE pldm_pdr_find_record_index(req.handle)
         IN IF found = {} THEN pldm_cc_only_response("INVALID_RECORD_HANDLE")
            ELSE pldm_pdr_build_chunk(CHOOSE i \in found : TRUE, 0, req.count)
    ELSE IF pm_transfer = PmIdle \/ req.handle # pm_transfer.handle
         THEN pldm_cc_only_response("INVALID_DATA_TRANSFER_HANDLE")
         ELSE pldm_pdr_build_chunk(pm_transfer.index, pm_transfer.next, req.count)

pldm_pdr_get_chunk(req) ==
    IF req.op = "FIRSTPART"
    THEN LET found == IF req.handle = 0 THEN {1} ELSE pldm_pdr_find_record_index(req.handle)
         IN IF found = {} THEN pldm_cc_only_response("INVALID_RECORD_HANDLE")
            ELSE pldm_pdr_build_chunk(CHOOSE i \in found : TRUE, 0, req.count)
    ELSE IF pm_transfer = PmIdle \/ req.handle # pm_transfer.handle \/ req.dth # pm_transfer.next
         THEN pldm_cc_only_response("INVALID_DATA_TRANSFER_HANDLE")
         ELSE pldm_pdr_build_chunk(pm_transfer.index, req.dth, req.count)

PmTransferAfter(resp) ==
    IF resp.last THEN PmIdle
    ELSE [handle |-> pm_records[resp.index].handle, index |-> resp.index, next |-> resp.next]
-----------------------------------------------------------------------------
(* Sensor readings: q31 to micro-units, micro-units to a 32-bit count.     *)

\* C division truncates toward zero.
PmDiv(a, b) == IF a >= 0 THEN a \div b ELSE -((-a) \div b)

pldm_sensor_read_decode(raw, shift) == (raw * PmMicro) \div (2 ^ (PmBits - shift))

pldm_sensor_value_to_s32(micro, mod) ==
    LET scaled == IF mod <= 0 THEN micro * (10 ^ (-mod)) ELSE PmDiv(micro, 10 ^ mod)
        rounded == IF scaled >= 0 THEN PmDiv(scaled + PmMicro \div 2, PmMicro)
                                  ELSE PmDiv(scaled - PmMicro \div 2, PmMicro)
    IN IF rounded > PmS32 THEN PmS32 ELSE IF rounded < -PmS32 - 1 THEN -PmS32 - 1 ELSE rounded

\* GetSensorReading by id, with the outcome of the sensor read chosen by the bus.
pldm_handle_get_sensor_reading(id, fails) ==
    IF pldm_pdr_find_numeric_sensor_by_id(id) = {}
    THEN pldm_cc_only_response("INVALID_SENSOR_ID")
    ELSE IF fails THEN pldm_cc_only_response("ERROR")
    ELSE [cc |-> "SUCCESS", len |-> PmHdr + 8 - 1 + 4]
-----------------------------------------------------------------------------
(* The base commands; only SetTID changes state.  req.fit says that the     *)
(* payload has the length the command asks for, req.type names a PLDM type.*)

PmRefuse(cc) == pldm_cc_only_response(cc)
PmOk(n) == [cc |-> "SUCCESS", len |-> PmHdr + n]

pldm_handle_get_tid(req) == IF req.fit THEN PmOk(2) ELSE PmRefuse("INVALID_LENGTH")

pldm_handle_set_tid(req) == PmRefuse(IF req.tid \in {0, 255} THEN "INVALID_DATA" ELSE "SUCCESS")

pldm_handle_get_types(req) == IF req.fit THEN PmOk(1 + 8) ELSE PmRefuse("INVALID_LENGTH")

\* Every supported type answers with one version and its checksum.
pldm_handle_get_version(req) ==
    IF req.op # "FIRSTPART" THEN PmRefuse("INVALID_TRANSFER_OPERATION_FLAG")
    ELSE IF req.type \in {"BASE", "PLATFORM", "OEM"} THEN PmOk(1 + 4 + 1 + 8)
    ELSE PmRefuse("INVALID_PLDM_TYPE")

pldm_handle_get_commands(req) ==
    IF req.type \in {"BASE", "PLATFORM", "OEM"} THEN PmOk(1 + 32) ELSE PmRefuse("INVALID_PLDM_TYPE")

pldm_base_build_response(req) ==
    CASE req.cmd = "GetTID" -> pldm_handle_get_tid(req)
      [] req.cmd = "SetTID" -> pldm_handle_set_tid(req)
      [] req.cmd = "GetPLDMTypes" -> pldm_handle_get_types(req)
      [] req.cmd = "GetPLDMVersion" -> pldm_handle_get_version(req)
      [] req.cmd = "GetPLDMCommands" -> pldm_handle_get_commands(req)

PmBase == {"SetTID", "GetTID", "GetPLDMTypes", "GetPLDMVersion", "GetPLDMCommands"}

(* The platform commands.                                                  *)

pldm_handle_get_pdr_repository_info(req) == IF req.fit THEN PmOk(41) ELSE PmRefuse("INVALID_LENGTH")

\* The record change number is always 0.
pldm_handle_get_pdr(req) ==
    IF req.change # 0 THEN PmRefuse("INVALID_RECORD_CHANGE_NUMBER")
    ELSE IF req.count = 0 THEN PmRefuse("INVALID_DATA")
    ELSE IF req.op \notin {"FIRSTPART", "NEXTPART"} THEN PmRefuse("INVALID_TRANSFER_OPERATION_FLAG")
    ELSE pldm_pdr_get_chunk(req)

pldm_platform_build_response(req, fails) ==
    CASE req.cmd = "GetPDRRepositoryInfo" -> pldm_handle_get_pdr_repository_info(req)
      [] req.cmd = "GetPDR" -> pldm_handle_get_pdr(req)
      [] req.cmd = "GetSensorReading" -> pldm_handle_get_sensor_reading(req.id, fails)
      [] OTHER -> PmRefuse("UNSUPPORTED_PLDM_CMD")

tt_pldm_build_response(req, fails) ==
    IF req.cmd \in PmBase THEN pldm_base_build_response(req)
    ELSE pldm_platform_build_response(req, fails)
-----------------------------------------------------------------------------
(* The receive path.  The MCTP callback puts the message and then submits  *)
(* the work item; the work queue's thread may run between the two.         *)

PmReaderInit == [at |-> 0, next |-> 0, got |-> <<>>]

\* tt_pldm_mctp_responder_init runs after the repository is built: a failed build keeps the device
\* out of service.
PmInit ==
    /\ pm_records = pldm_pdr_provider_init.recs
    /\ pm_size = pldm_pdr_provider_init.size
    /\ pm_transfer = PmIdle /\ pm_tid = 1
    /\ pm_queue = <<>> /\ pm_put = FALSE /\ pm_work = FALSE /\ pm_drain = FALSE
    /\ pm_reader = [e \in PmEids |-> PmReaderInit]
    /\ pm_read = PmNothing

\* tt_pldm_mctp_rx_message up to k_msgq_put: a full queue drops the message.
PmPut(msg) ==
    /\ ~pm_put
    /\ IF Len(pm_queue) < PmDepth
       THEN pm_queue' = Append(pm_queue, msg) /\ pm_put' = TRUE
       ELSE UNCHANGED <<pm_queue, pm_put>>

\* ... and its k_work_submit_to_queue.
tt_pldm_mctp_rx_message ==
    /\ pm_put /\ pm_put' = FALSE /\ pm_work' = TRUE
    /\ UNCHANGED <<pm_records, pm_size, pm_transfer, pm_tid, pm_queue, pm_drain, pm_reader, pm_read>>

\* The work queue takes the item and enters the handler.
PmEnter ==
    /\ pm_work /\ ~pm_drain /\ pm_work' = FALSE /\ pm_drain' = TRUE
    /\ UNCHANGED <<pm_records, pm_size, pm_transfer, pm_tid, pm_queue, pm_put, pm_reader, pm_read>>

\* What the requester does with a response to the request it is waiting for.  It restarts the record
\* when the transfer was refused.
PmTake(e, resp) ==
    LET r == pm_reader[e]
        got == Append(r.got, resp.chunk)
    IN CASE resp.cc # "SUCCESS" ->
              /\ pm_reader' = [pm_reader EXCEPT ![e] = [r EXCEPT !.next = 0, !.got = <<>>]]
              /\ pm_read' = PmNothing
         [] resp.cc = "SUCCESS" /\ resp.last ->
              /\ pm_reader' = [pm_reader EXCEPT ![e] = [r EXCEPT !.at = resp.nextRecord, !.next = 0,
                                                                 !.got = <<>>]]
              /\ pm_read' = [handle |-> got[1][1], got |-> got]
         [] OTHER ->
              /\ pm_reader' = [pm_reader EXCEPT ![e] = [r EXCEPT !.at = resp.chunk[1], !.next = resp.next,
                                                                 !.got = got]]
              /\ pm_read' = PmNothing

\* tt_pldm_mctp_process_rx_message: the response is built, and sent or lost.
tt_pldm_mctp_process_rx_message(fails, sent) ==
    LET msg == Head(pm_queue)
        resp == tt_pldm_build_response(msg.req, fails)
        chunk == msg.req.cmd = "GetPDR" /\ resp.cc = "SUCCESS"
    IN /\ pm_drain /\ pm_queue # <<>>
       /\ pm_queue' = Tail(pm_queue)
       /\ pm_transfer' = IF chunk THEN PmTransferAfter(resp) ELSE pm_transfer
       /\ pm_tid' = IF msg.req.cmd = "SetTID" /\ resp.cc = "SUCCESS" THEN msg.req.tid ELSE pm_tid
       /\ IF sent /\ resp.len <= TT_PLDM_MAX_MESSAGE_LEN /\ msg.req.cmd = "GetPDR"
             /\ msg.eid \in PmEids
          THEN PmTake(msg.eid, resp)
          ELSE pm_read' = PmNothing /\ UNCHANGED pm_reader
       /\ UNCHANGED <<pm_records, pm_size, pm_put, pm_work, pm_drain>>

\* k_msgq_get fails: the handler returns.
tt_pldm_mctp_rx_work_handler ==
    /\ pm_drain /\ pm_queue = <<>> /\ pm_drain' = FALSE
    /\ UNCHANGED <<pm_records, pm_size, pm_transfer, pm_tid, pm_queue, pm_put, pm_work, pm_reader,
                   pm_read>>
-----------------------------------------------------------------------------
(* The requesters.                                                         *)

PmAsk(e) ==
    LET r == pm_reader[e]
    IN [cmd |-> "GetPDR", op |-> IF r.next = 0 THEN "FIRSTPART" ELSE "NEXTPART",
        handle |-> r.at, dth |-> r.next, count |-> PmCount[e], change |-> 0]

\* A requester asks for its next part, or again for the part whose request or answer was lost: it
\* waits much longer than a message stays in the queue.
PmGetPDR(e) ==
    /\ \A i \in DOMAIN pm_queue : pm_queue[i].eid # e
    /\ PmPut([eid |-> e, req |-> PmAsk(e)])
    /\ UNCHANGED <<pm_records, pm_size, pm_transfer, pm_tid, pm_work, pm_drain, pm_reader, pm_read>>

PmOthers ==
    {[cmd |-> c, fit |-> f] : c \in {"GetTID", "GetPLDMTypes", "GetPDRRepositoryInfo"}, f \in BOOLEAN}
    \cup {[cmd |-> "GetPLDMVersion", op |-> o, type |-> "OEM"] : o \in {"FIRSTPART", "NEXTPART"}}
    \cup {[cmd |-> "GetPLDMCommands", type |-> t] : t \in {"PLATFORM", "BIOS"}}
    \cup {[cmd |-> "SetTID", tid |-> t] : t \in PmTids}
    \cup {[cmd |-> "GetSensorReading", id |-> n] : n \in {1, 99}}
    \cup {[cmd |-> "GetPDR", op |-> x[1], handle |-> 99, dth |-> 0, count |-> x[2], change |-> x[3]] :
           x \in {<<"FIRSTPART", 1, 0>>, <<"FIRSTPART", 0, 0>>, <<"FIRSTPART", 1, 1>>, <<"OTHER", 1, 0>>}}
    \cup {[cmd |-> "SetEventReceiver"]}

\* Any other request, from an endpoint that reads no records; it is sent while no message is
\* queued, which keeps the queue's contents few.
PmOther(req) ==
    /\ pm_queue = <<>>
    /\ PmPut([eid |-> "other", req |-> req])
    /\ UNCHANGED <<pm_records, pm_size, pm_transfer, pm_tid, pm_work, pm_drain, pm_reader, pm_read>>

PmNext ==
    \/ \E e \in PmEids : PmGetPDR(e)
    \/ \E req \in PmOthers : PmOther(req)
    \/ tt_pldm_mctp_rx_message
    \/ PmEnter
    \/ \E fails, sent \in BOOLEAN : tt_pldm_mctp_process_rx_message(fails, sent)
    \/ tt_pldm_mctp_rx_work_handler

\* The MCTP callback runs to its end and the work queue's thread is scheduled.
PmFair ==
    /\ WF_pm_vars(tt_pldm_mctp_rx_message) /\ WF_pm_vars(PmEnter)
    /\ WF_pm_vars(\E fails, sent \in BOOLEAN : tt_pldm_mctp_process_rx_message(fails, sent))
    /\ WF_pm_vars(tt_pldm_mctp_rx_work_handler)

PmSpec == PmInit /\ [][PmNext]_pm_vars /\ PmFair
-----------------------------------------------------------------------------
(* Types of the responder's state: at most one transfer, a queue within    *)
(* its depth.                                                              *)
PmTypeOK ==
    /\ pm_tid \in Nat /\ pm_size \in Nat
    /\ pm_put \in BOOLEAN /\ pm_work \in BOOLEAN /\ pm_drain \in BOOLEAN
    /\ Len(pm_queue) <= PmDepth
    /\ pm_transfer \in [handle : Nat, index : 0..Len(pm_records), next : Nat]

(* Whatever the interleaving of requesters, repeats and lost answers over  *)
(* the single transfer state, what a requester takes for a whole record at *)
(* the final part is that record: its parts are of one handle, contiguous  *)
(* from offset 0, and end at the record's length.                          *)
PmReadWhole ==
    pm_read # PmNothing =>
        LET got == pm_read.got
            ends(k) == got[k][2] + got[k][3]
        IN /\ \A k \in DOMAIN got : got[k][1] = pm_read.handle
           /\ got[1][2] = 0
           /\ \A k \in 2..Len(got) : got[k][2] = ends(k - 1)
           /\ ends(Len(got)) = pm_records[pm_read.handle].length

(* The reading a GetSensorReading at the head of the queue is answered     *)
(* with is the sensor's value to the nearest count of its unit, ties away  *)
(* from zero, unless it saturates: for every raw value and modifier,       *)
(* negative ones included.                                                 *)
PmNearest ==
    pm_queue # <<>> /\ Head(pm_queue).req.cmd = "GetSensorReading" =>
        \A mod \in PmMods, raw \in PmRaws, shift \in PmShifts :
            LET micro == pldm_sensor_read_decode(raw, shift)
                reading == pldm_sensor_value_to_s32(micro, mod)
                \* a count and the value over the same denominator
                up == IF mod < 0 THEN 10 ^ (-mod) ELSE 1
                down == IF mod > 0 THEN 10 ^ mod ELSE 1
                error == micro * up - reading * PmMicro * down
            IN \/ 2 * (IF error < 0 THEN -error ELSE error) <= PmMicro * down
               \/ reading = PmS32 /\ error > 0
               \/ reading = -PmS32 - 1 /\ error < 0

(* What the responder tells is so: whole records and true readings.        *)
PmTellsTrue == PmReadWhole /\ PmNearest
=============================================================================
