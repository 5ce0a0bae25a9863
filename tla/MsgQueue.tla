------------------------------ MODULE MsgQueue ------------------------------
(* The message queues through which a host drives the SMC firmware           *)
(* (lib/tenstorrent/fw_common/msgqueue.c): request and response rings in     *)
(* shared memory, doorbell interrupts, and the work item that serves them.   *)
(* The host is external: it follows the ring protocol the header describes.  *)
EXTENDS Naturals, Sequences

CONSTANTS NumQueues,        \* NUM_MSG_QUEUES
          QSize,            \* MSG_QUEUE_SIZE
          SerialMod,        \* 2^32 in the code: last_serial "just wraps"
          Values,           \* argument words of requests
          Requests,         \* the requests hosts submit, of Message
          MsiDepth,         \* entries of the MSI catcher FIFO
          Doorbells,        \* ways to ring: a subset of DoorbellKinds
          RingOnPop,        \* does the host ring after it frees a slot?
          MaxOutstanding,   \* host: requests without a collected response
          MaxReq,           \* bound: requests per queue
          MaxOther          \* bound: MSIs that are not doorbells

DoorbellKinds == {"irq0", "msi", "mbox"}

ASSUME QueueAssumption == /\ NumQueues \in Nat \ {0}
                          /\ QSize \in Nat \ {0}
ASSUME SerialAssumption == SerialMod \in Nat \ {0}
ASSUME HostAssumption == /\ Values \subseteq 0..SerialMod - 1
                         /\ 0 \in Values
                         /\ MsiDepth \in Nat \ {0}
                         /\ Doorbells \subseteq DoorbellKinds
                         /\ Doorbells # {}
                         /\ RingOnPop \in BOOLEAN
                         /\ MaxOutstanding \in Nat
                         /\ MaxReq \in Nat
                         /\ MaxOther \in Nat

Queues == 0..NumQueues - 1
Wrap == 2 * QSize                       \* MSG_QUEUE_POINTER_WRAP
Pointers == 0..Wrap - 1
Slots == 0..QSize - 1

VARIABLES
  request_wptr, response_rptr,          \* header words the host writes
  request_rptr, response_wptr,          \* header words the SMC writes
  last_serial,
  request_queue, response_queue,        \* the ring entries
  irq0_trig, msi_fifo, mbox_pending,    \* doorbells not yet taken
  isr, msi_for_msgqueue,                \* the interrupt handler that runs
  queued,                               \* msgqueue_work is on the work queue
  pc, wq, seen_wptr, request, response, \* the work handler and its locals
  host,                                 \* what the host does on each queue
  other,                                \* MSIs other than doorbells so far
  sent, got                             \* history: submitted, collected

ring_vars == <<request_wptr, response_rptr, request_rptr, response_wptr,
               request_queue, response_queue>>
bell_vars == <<irq0_trig, msi_fifo, mbox_pending, other>>
isr_vars  == <<isr, msi_for_msgqueue>>
work_vars == <<pc, wq, seen_wptr, request, response>>
host_vars == <<host, sent, got>>
vars == <<ring_vars, last_serial, bell_vars, isr_vars, queued, work_vars,
          host_vars>>

(* The commands that the dispatcher tells apart; a "handled" command has a   *)
(* registered handler, whose exit code is the value; "unknown" has none.     *)
Commands == {"set_last_serial", "test", "report_scratch_only", "handled",
             "unknown"}
Message == [command : Commands, value : Values]
NoMessage == [command |-> "unknown", value |-> 0]
ASSUME RequestAssumption == Requests \subseteq Message

(* data[0] of a response: zero, a handler's non-zero exit code, or one of    *)
(* the two status codes.  Only TEST writes data[1] and data[2].              *)
Words == 0..SerialMod - 1
Response == [data0 : {"zero", "exit", "error_reply", "scratch_only"},
             data1 : Words, data2 : Words]
NoResponse == [data0 |-> "zero", data1 |-> 0, data2 |-> 0]

(* The double-wrapped pointers of a ring.                                    *)
Bump(p) == (p + 1) % Wrap
Distance(wptr, rptr) == (wptr + Wrap - rptr) % Wrap
Slot(p) == p % QSize

Init ==                                       \* prepare_msg_queue
  /\ request_wptr = [q \in Queues |-> 0]
  /\ response_rptr = [q \in Queues |-> 0]
  /\ request_rptr = [q \in Queues |-> 0]
  /\ response_wptr = [q \in Queues |-> 0]
  /\ last_serial = [q \in Queues |-> 0]
  /\ request_queue = [q \in Queues |-> [s \in Slots |-> NoMessage]]
  /\ response_queue = [q \in Queues |-> [s \in Slots |-> NoResponse]]
  /\ irq0_trig = FALSE /\ msi_fifo = <<>> /\ mbox_pending = FALSE
  /\ isr = "none" /\ msi_for_msgqueue = FALSE
  /\ queued = FALSE
  /\ pc = "idle" /\ wq = 0 /\ seen_wptr = 0
  /\ request = NoMessage /\ response = NoResponse
  /\ host = [q \in Queues |-> "idle"]
  /\ other = 0
  /\ sent = [q \in Queues |-> <<>>]
  /\ got = [q \in Queues |-> <<>>]
-----------------------------------------------------------------------------
(* The host: one sequential driver per queue.  An entry is written before    *)
(* the pointer that publishes it, and read before the pointer frees it.      *)

HostWrite(q, m) ==                     \* msgqueue_request_push, the entry
  /\ host[q] = "idle"
  /\ Len(sent[q]) < MaxReq
  /\ Len(sent[q]) - Len(got[q]) < MaxOutstanding
  /\ Distance(request_wptr[q], request_rptr[q]) < QSize
  /\ request_queue' = [request_queue EXCEPT ![q][Slot(request_wptr[q])] = m]
  /\ sent' = [sent EXCEPT ![q] = Append(@, m)]
  /\ host' = [host EXCEPT ![q] = "publish"]
  /\ UNCHANGED <<request_wptr, response_rptr, request_rptr, response_wptr,
                 response_queue, last_serial, bell_vars, isr_vars, queued,
                 work_vars, got>>

HostPublish(q) ==                      \* msgqueue_request_push, the pointer
  /\ host[q] = "publish"
  /\ request_wptr' = [request_wptr EXCEPT ![q] = Bump(@)]
  /\ host' = [host EXCEPT ![q] = "ring"]
  /\ UNCHANGED <<response_rptr, request_rptr, response_wptr, request_queue,
                 response_queue, last_serial, bell_vars, isr_vars, queued,
                 work_vars, sent, got>>

HostRing(q) ==
  /\ host[q] = "ring"
  /\ host' = [host EXCEPT ![q] = "idle"]
  /\ \/ /\ "irq0" \in Doorbells
        /\ irq0_trig' = TRUE
        /\ UNCHANGED <<msi_fifo, mbox_pending>>
     \/ /\ "msi" \in Doorbells
        /\ Len(msi_fifo) < MsiDepth           \* msi_ready
        /\ msi_fifo' = Append(msi_fifo, 0)
        /\ UNCHANGED <<irq0_trig, mbox_pending>>
     \/ /\ "mbox" \in Doorbells
        /\ mbox_pending' = TRUE
        /\ UNCHANGED <<irq0_trig, msi_fifo>>
  /\ UNCHANGED <<ring_vars, last_serial, other, isr_vars, queued, work_vars,
                 sent, got>>

HostRead(q) ==                         \* msgqueue_response_pop, the entry
  /\ host[q] = "idle"
  /\ response_wptr[q] # response_rptr[q]
  /\ got' = [got EXCEPT ![q] =
                Append(@, response_queue[q][Slot(response_rptr[q])])]
  /\ host' = [host EXCEPT ![q] = "free"]
  /\ UNCHANGED <<ring_vars, last_serial, bell_vars, isr_vars, queued,
                 work_vars, sent>>

HostFree(q) ==                         \* msgqueue_response_pop, the pointer
  /\ host[q] = "free"
  /\ response_rptr' = [response_rptr EXCEPT ![q] = Bump(@)]
  /\ host' = [host EXCEPT ![q] = IF RingOnPop THEN "ring" ELSE "idle"]
  /\ UNCHANGED <<request_wptr, request_rptr, response_wptr, request_queue,
                 response_queue, last_serial, bell_vars, isr_vars, queued,
                 work_vars, sent, got>>

OtherMsi ==                            \* an MSI that is no doorbell
  /\ "msi" \in Doorbells
  /\ other < MaxOther
  /\ Len(msi_fifo) < MsiDepth
  /\ msi_fifo' = Append(msi_fifo, 1)
  /\ other' = other + 1
  /\ UNCHANGED <<ring_vars, last_serial, irq0_trig, mbox_pending, isr_vars,
                 queued, work_vars, host_vars>>
-----------------------------------------------------------------------------
(* Interrupt handlers.  They run to their end before the work handler gets   *)
(* the processor back; the host and the hardware go on meanwhile.            *)

ClearMsgIrq ==                         \* msgqueue_interrupt_handler
  /\ isr = "none" /\ irq0_trig
  /\ irq0_trig' = FALSE
  /\ isr' = "submit"
  /\ UNCHANGED <<ring_vars, last_serial, msi_fifo, mbox_pending, other,
                 msi_for_msgqueue, queued, work_vars, host_vars>>

MsiEnter ==                            \* msgqueue_msi_interrupt_handler
  /\ isr = "none" /\ msi_fifo # <<>>
  /\ isr' = "msi"
  /\ msi_for_msgqueue' = FALSE
  /\ UNCHANGED <<ring_vars, last_serial, bell_vars, queued, work_vars,
                 host_vars>>

MsiPop ==
  /\ isr = "msi" /\ msi_fifo # <<>>
  /\ msi_fifo' = Tail(msi_fifo)
  /\ msi_for_msgqueue' = (msi_for_msgqueue \/ Head(msi_fifo) = 0)
  /\ UNCHANGED <<ring_vars, last_serial, irq0_trig, mbox_pending, other, isr,
                 queued, work_vars, host_vars>>

MsiDone ==
  /\ isr = "msi" /\ msi_fifo = <<>>
  /\ isr' = IF msi_for_msgqueue THEN "submit" ELSE "none"
  /\ UNCHANGED <<ring_vars, last_serial, bell_vars, msi_for_msgqueue, queued,
                 work_vars, host_vars>>

MsiOverflow ==                         \* msgqueue_msi_overflow_handler
  /\ isr = "none" /\ Len(msi_fifo) = MsiDepth
  /\ msi_fifo' = <<>>
  /\ isr' = "submit"
  /\ UNCHANGED <<ring_vars, last_serial, irq0_trig, mbox_pending, other,
                 msi_for_msgqueue, queued, work_vars, host_vars>>

MboxCallback ==                        \* msgqueue_mbox_callback
  /\ isr = "none" /\ mbox_pending
  /\ mbox_pending' = FALSE
  /\ isr' = "submit"
  /\ UNCHANGED <<ring_vars, last_serial, irq0_trig, msi_fifo, other,
                 msi_for_msgqueue, queued, work_vars, host_vars>>

Submit_dropWhenRunning ==
  /\ isr = "submit"
  /\ queued' = (queued \/ pc = "idle")
  /\ isr' = "none"
  /\ UNCHANGED <<ring_vars, last_serial, bell_vars, msi_for_msgqueue,
                 work_vars, host_vars>>
(* k_work_submit: an item that is queued stays queued; one that runs is      *)
(* queued again.                                                             *)
Submit ==
  /\ isr = "submit"
  /\ queued' = TRUE
  /\ isr' = "none"
  /\ UNCHANGED <<ring_vars, last_serial, bell_vars, msi_for_msgqueue,
                 work_vars, host_vars>>
-----------------------------------------------------------------------------
(* The work handler: process_message_queues, one queue after the other.      *)

WorkStart ==                           \* msgqueue_work_handler
  /\ isr = "none" /\ pc = "idle" /\ queued
  /\ queued' = FALSE
  /\ pc' = "requests"
  /\ wq' = 0
  /\ UNCHANGED <<ring_vars, last_serial, bell_vars, isr_vars, seen_wptr,
                 request, response, host_vars>>

(* process_message_queue returns: go on with the next queue, or finish.      *)
NextQueue ==
  /\ pc' = IF wq + 1 = NumQueues THEN "idle" ELSE "requests"
  /\ wq' = IF wq + 1 = NumQueues THEN 0 ELSE wq + 1
  /\ UNCHANGED <<seen_wptr, request, response>>

(* start_next_message, first half: read the host's write pointer.            *)
CheckRequests ==
  /\ isr = "none" /\ pc = "requests"
  /\ \/ /\ request_wptr[wq] = request_rptr[wq]
        /\ NextQueue
     \/ /\ request_wptr[wq] # request_rptr[wq]
        /\ seen_wptr' = request_wptr[wq]
        /\ pc' = "slot"
        /\ UNCHANGED <<wq, request, response>>
  /\ UNCHANGED <<ring_vars, last_serial, bell_vars, isr_vars, queued,
                 host_vars>>

(* Second half: read the host's read pointer; take the request only when     *)
(* its response has a slot and the pointers are in range.                    *)
ResponseFull(q) == Distance(response_wptr[q], response_rptr[q]) = QSize
InRange(q) == /\ seen_wptr < Wrap
              /\ request_rptr[q] < Wrap
              /\ response_wptr[q] < Wrap

CheckSlot ==
  /\ isr = "none" /\ pc = "slot"
  /\ IF ResponseFull(wq) \/ ~InRange(wq)
     THEN NextQueue
     ELSE /\ pc' = "pop"
          /\ UNCHANGED <<wq, seen_wptr, request, response>>
  /\ UNCHANGED <<ring_vars, last_serial, bell_vars, isr_vars, queued,
                 host_vars>>

PopEntry ==                            \* msgqueue_request_pop, the entry
  /\ isr = "none" /\ pc = "pop"
  /\ request' = request_queue[wq][Slot(request_rptr[wq])]
  /\ pc' = "popped"
  /\ UNCHANGED <<ring_vars, last_serial, bell_vars, isr_vars, queued, wq,
                 seen_wptr, response, host_vars>>

PopPointer ==                          \* msgqueue_request_pop, the pointer
  /\ isr = "none" /\ pc = "popped"
  /\ request_rptr' = [request_rptr EXCEPT ![wq] = Bump(@)]
  /\ pc' = "process"
  /\ UNCHANGED <<request_wptr, response_rptr, response_wptr, request_queue,
                 response_queue, last_serial, bell_vars, isr_vars, queued,
                 wq, seen_wptr, request, response, host_vars>>

(* process_queued_message on a zeroed response.                              *)
Status(m) ==
  IF m.command = "report_scratch_only" THEN "scratch_only"
  ELSE IF m.command = "unknown" THEN "error_reply"
  ELSE IF m.command = "handled" /\ m.value # 0 THEN "exit"
  ELSE "zero"

Reply(m, serial) ==
  [data0 |-> Status(m),
   data1 |-> IF m.command = "test" THEN (m.value + 1) % SerialMod ELSE 0,
   data2 |-> IF m.command = "test" THEN (serial + 1) % SerialMod ELSE 0]

command_writes_serial(m) == m.command = "set_last_serial"

Process_staleResponse ==
  /\ isr = "none" /\ pc = "process"
  /\ response' = IF request.command = "test"
                 THEN Reply(request, last_serial[wq])
                 ELSE [response EXCEPT
                         !.data0 = Reply(request, last_serial[wq]).data0]
  /\ last_serial' = [last_serial EXCEPT ![wq] =
                        IF command_writes_serial(request)
                        THEN request.value ELSE @]
  /\ pc' = "push"
  /\ UNCHANGED <<ring_vars, bell_vars, isr_vars, queued, wq, seen_wptr,
                 request, host_vars>>
Process ==
  /\ isr = "none" /\ pc = "process"
  /\ response' = Reply(request, last_serial[wq])
  /\ last_serial' = [last_serial EXCEPT ![wq] =
                        IF command_writes_serial(request)
                        THEN request.value ELSE @]
  /\ pc' = "push"
  /\ UNCHANGED <<ring_vars, bell_vars, isr_vars, queued, wq, seen_wptr,
                 request, host_vars>>

PushEntry ==                           \* msgqueue_response_push, the entry
  /\ isr = "none" /\ pc = "push"
  /\ response_queue' =
       [response_queue EXCEPT ![wq][Slot(response_wptr[wq])] = response]
  /\ pc' = "pushed"
  /\ UNCHANGED <<request_wptr, response_rptr, request_rptr, response_wptr,
                 request_queue, last_serial, bell_vars, isr_vars, queued, wq,
                 seen_wptr, request, response, host_vars>>

PushPointer ==                         \* msgqueue_response_push, the pointer
  /\ isr = "none" /\ pc = "pushed"
  /\ response_wptr' = [response_wptr EXCEPT ![wq] = Bump(@)]
  /\ pc' = "serial"
  /\ UNCHANGED <<request_wptr, response_rptr, request_rptr, request_queue,
                 response_queue, last_serial, bell_vars, isr_vars, queued,
                 wq, seen_wptr, request, response, host_vars>>

AdvanceSerial ==                       \* advance_serial
  /\ isr = "none" /\ pc = "serial"
  /\ last_serial' = [last_serial EXCEPT ![wq] =
                        IF command_writes_serial(request)
                        THEN @ ELSE (@ + 1) % SerialMod]
  /\ pc' = "requests"
  /\ UNCHANGED <<ring_vars, bell_vars, isr_vars, queued, wq, seen_wptr,
                 request, response, host_vars>>
-----------------------------------------------------------------------------
Host(q) == \/ \E m \in Requests : HostWrite(q, m)
           \/ HostPublish(q) \/ HostRing(q) \/ HostRead(q) \/ HostFree(q)
Isr == \/ ClearMsgIrq \/ MsiEnter \/ MsiPop \/ MsiDone \/ MsiOverflow
       \/ MboxCallback \/ Submit
Worker == \/ WorkStart \/ CheckRequests \/ CheckSlot \/ PopEntry \/ PopPointer
          \/ Process \/ PushEntry \/ PushPointer \/ AdvanceSerial

Next == \/ \E q \in Queues : Host(q)
        \/ OtherMsi \/ Isr \/ Worker

Spec == Init /\ [][Next]_vars

(* Interrupts are taken and end, the work queue thread runs, and a host that *)
(* began a step of the ring protocol finishes it and collects its responses. *)
Fairness == /\ WF_vars(Isr)
            /\ WF_vars(Worker)
            /\ \A q \in Queues : /\ WF_vars(HostPublish(q))
                                 /\ SF_vars(HostRing(q))
                                 /\ WF_vars(HostRead(q))
                                 /\ WF_vars(HostFree(q))
FairSpec == Spec /\ Fairness
-----------------------------------------------------------------------------
PCs == {"idle", "requests", "slot", "pop", "popped", "process", "push",
        "pushed", "serial"}

(* Every header word, ring entry, latch and local of the handlers has its    *)
(* type; in particular the pointers the SMC writes never leave the range     *)
(* that start_next_message checks.                                           *)
TypeOK ==
  /\ request_wptr \in [Queues -> Pointers]
  /\ response_rptr \in [Queues -> Pointers]
  /\ request_rptr \in [Queues -> Pointers]
  /\ response_wptr \in [Queues -> Pointers]
  /\ last_serial \in [Queues -> Words]
  /\ request_queue \in [Queues -> [Slots -> Message]]
  /\ response_queue \in [Queues -> [Slots -> Response]]
  /\ irq0_trig \in BOOLEAN /\ mbox_pending \in BOOLEAN
  /\ msi_fifo \in Seq({0, 1}) /\ Len(msi_fifo) <= MsiDepth
  /\ isr \in {"none", "submit", "msi"} /\ msi_for_msgqueue \in BOOLEAN
  /\ queued \in BOOLEAN
  /\ pc \in PCs /\ wq \in Queues /\ seen_wptr \in Pointers
  /\ request \in Message /\ response \in Response
  /\ host \in [Queues -> {"idle", "publish", "ring", "free"}]
  /\ other \in 0..MaxOther
  /\ sent \in [Queues -> Seq(Message)] /\ got \in [Queues -> Seq(Response)]

(* Neither ring ever holds more entries than it has slots, although no push  *)
(* or pop function checks: a response is never written over one the host     *)
(* has not read, however the host's pops race start_next_message.            *)
NoOverrun ==
  \A q \in Queues :
    /\ Distance(request_wptr[q], request_rptr[q]) <= QSize
    /\ Distance(response_wptr[q], response_rptr[q]) <= QSize

(* The reservations behind it: from start_next_message's check until the     *)
(* response is published the queue keeps a free response slot and, until it  *)
(* is popped, the request; a host between the two halves of a push or a pop  *)
(* keeps its free or its occupied slot.                                      *)
SlotReserved ==
  /\ pc \in {"pop", "popped", "process", "push", "pushed"} =>
       Distance(response_wptr[wq], response_rptr[wq]) < QSize
  /\ pc \in {"slot", "pop", "popped"} =>
       Distance(request_wptr[wq], request_rptr[wq]) > 0
  /\ \A q \in Queues :
       /\ host[q] = "publish" =>
            Distance(request_wptr[q], request_rptr[q]) < QSize
       /\ host[q] = "free" =>
            Distance(response_wptr[q], response_rptr[q]) > 0

(* What the rings and the work handler's locals hold, as the channel's       *)
(* sequences.  A request is the channel's until it is processed, its         *)
(* response is ready from then on, wherever the two lie; and the queue's     *)
(* serial number counts a request when it is processed.                      *)
InHand(q, pcs) == IF wq = q /\ pc \in pcs THEN 1 ELSE 0
Pending(q) ==
  LET k == InHand(q, {"process"})
  IN  [i \in 1..Distance(request_wptr[q], request_rptr[q]) + k |->
         IF i <= k THEN request
         ELSE request_queue[q][Slot(request_rptr[q] + i - k - 1)]]
Ready(q) ==
  LET first == IF host[q] = "free" THEN 1 ELSE 0
      held == Distance(response_wptr[q], response_rptr[q]) - first
  IN  [i \in 1..held + InHand(q, {"push", "pushed"}) |->
         IF i > held THEN response
         ELSE response_queue[q][Slot(response_rptr[q] + first + i - 1)]]
Serial(q) ==
  IF wq = q /\ pc \in {"push", "pushed", "serial"} /\ ~command_writes_serial(request)
  THEN (last_serial[q] + 1) % SerialMod ELSE last_serial[q]
SerialAfter(m, serial) ==
  IF m.command = "set_last_serial" THEN m.value ELSE (serial + 1) % SerialMod

Channel == INSTANCE MsgChannel WITH
  Answer <- Reply, After <- SerialAfter,
  pending <- [q \in Queues |-> Pending(q)],
  ready <- [q \in Queues |-> Ready(q)],
  serial <- [q \in Queues |-> Serial(q)]

(* The rings, doorbells and handlers implement the first-in first-out        *)
(* channel: process_message_queue answers each request once, in order, with  *)
(* the reply and the serial number that the requests before it determine.    *)
ImplementsChannel == Channel!Spec

(* Every request is answered, whatever doorbell announced it: one rung while *)
(* the work item runs, after its queue was scanned, or lost in an MSI flush  *)
(* still gets a pass of process_message_queues after it.                     *)
Answered ==
  \A q \in Queues : \A i \in 1..MaxReq :
    Len(sent[q]) >= i ~> Len(got[q]) >= i
=============================================================================
