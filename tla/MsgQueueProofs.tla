--------------------------- MODULE MsgQueueProofs ---------------------------
(* TLAPS proofs about MsgQueue: for any number of queues, any ring size and  *)
(* any host that follows the ring protocol, every variable keeps its type,   *)
(* no ring ever overruns, and the queues implement the channel of            *)
(* MsgChannel: the rings, the entry in the worker's hands and the host's     *)
(* unfinished read together are one queue of requests and one of responses.  *)
EXTENDS MsgQueue, Integers, TLAPS

(* A double-wrapped pointer stays in range when it advances, and its slot is *)
(* a slot of the ring.                                                       *)
LEMMA PointerType ==
  ASSUME NEW p \in Pointers
  PROVE  Bump(p) \in Pointers /\ Slot(p) \in Slots
<1> USE QueueAssumption DEF Wrap, Pointers, Slots
<1>1. (p + 1) % Wrap = IF p + 1 = Wrap THEN 0 ELSE p + 1
  BY SMTT(30)
<1>2. Bump(p) \in Pointers
  BY <1>1, SMTT(30) DEF Bump
<1>3. p % QSize \in 0..QSize - 1
  BY SMTT(30)
<1> QED
  BY <1>2, <1>3, Zenon DEF Slot

(* Distance without the modulus: the number of entries in a ring.            *)
LEMMA DistanceValue ==
  ASSUME NEW w \in Pointers, NEW r \in Pointers
  PROVE  Distance(w, r) = IF w >= r THEN w - r ELSE w + Wrap - r
  BY QueueAssumption, SMTT(30) DEF Distance, Wrap, Pointers

(* Advancing the write pointer of a ring that is not entirely full adds one  *)
(* entry; advancing the read pointer of one that is not empty removes one;   *)
(* equal pointers, and only they, mean empty.                                *)
LEMMA DistanceBump ==
  ASSUME NEW w \in Pointers, NEW r \in Pointers
  PROVE  /\ Distance(w, r) \in 0..Wrap - 1
         /\ Distance(w, r) < Wrap - 1 =>
              Distance(Bump(w), r) = Distance(w, r) + 1
         /\ Distance(w, r) > 0 => Distance(w, Bump(r)) = Distance(w, r) - 1
         /\ (Distance(w, r) = 0) <=> (w = r)
<1> USE QueueAssumption DEF Wrap, Pointers
<1>1. \A p \in Pointers : Bump(p) = IF p + 1 = Wrap THEN 0 ELSE p + 1
  BY SMTT(30) DEF Bump
<1>2. Bump(w) \in Pointers /\ Bump(r) \in Pointers
  BY PointerType, Zenon
<1>3. /\ Distance(w, r) = IF w >= r THEN w - r ELSE w + Wrap - r
      /\ Distance(Bump(w), r) = IF Bump(w) >= r THEN Bump(w) - r
                                ELSE Bump(w) + Wrap - r
      /\ Distance(w, Bump(r)) = IF w >= Bump(r) THEN w - Bump(r)
                                ELSE w + Wrap - Bump(r)
  BY <1>2, DistanceValue, Zenon
<1> QED
  BY <1>1, <1>2, <1>3, SMTT(30)
-----------------------------------------------------------------------------
(* What the dispatcher stores in a response is a response.                   *)
LEMMA ReplyType ==
  ASSUME NEW m \in Message, NEW serial \in Words
  PROVE  Reply(m, serial) \in Response
<1>1. \A x \in Words : (x + 1) % SerialMod \in Words
  BY SerialAssumption, SMTT(30) DEF Words
<1>2. m.command \in Commands /\ m.value \in Words
  BY HostAssumption, Zenon DEF Message, Words
<1>3. 0 \in Words
  BY SerialAssumption, SMTT(30) DEF Words
<1> QED
  BY <1>1, <1>2, <1>3, Zenon DEF Reply, Status, Response

USE DEF ring_vars, bell_vars, isr_vars, work_vars, host_vars

(* Every host step keeps the types.                                          *)
LEMMA HostType ==
  ASSUME TypeOK, NEW q \in Queues, Host(q)
  PROVE  TypeOK'
<1> USE HostAssumption
<1>1. ASSUME NEW m \in Requests, HostWrite(q, m) PROVE TypeOK'
  <2>1. m \in Message /\ Slot(request_wptr[q]) \in Slots
    BY RequestAssumption, PointerType, Zenon DEF TypeOK
  <2>2. request_queue' \in [Queues -> [Slots -> Message]]
    BY <1>1, <2>1, Zenon DEF HostWrite, TypeOK
  <2>3. sent' \in [Queues -> Seq(Message)]
    BY <1>1, <2>1, SMTT(30) DEF HostWrite, TypeOK
  <2> QED
    BY <1>1, <2>2, <2>3, Zenon DEF HostWrite, TypeOK
<1>2. CASE HostPublish(q)
  BY <1>2, PointerType, Zenon DEF HostPublish, TypeOK
<1>3. CASE HostRing(q)
  <2>1. msi_fifo \in Seq({0, 1}) /\ Len(msi_fifo) <= MsiDepth
    BY Zenon DEF TypeOK
  <2>2. ASSUME Len(msi_fifo) < MsiDepth, msi_fifo' = Append(msi_fifo, 0)
        PROVE  msi_fifo' \in Seq({0, 1}) /\ Len(msi_fifo') <= MsiDepth
    BY <2>1, <2>2, SMTT(30)
  <2>3. msi_fifo' \in Seq({0, 1}) /\ Len(msi_fifo') <= MsiDepth
    BY <1>3, <2>1, <2>2, Zenon DEF HostRing
  <2> QED
    BY <1>3, <2>3, Zenon DEF HostRing, TypeOK
<1>4. CASE HostRead(q)
  <2>1. response_queue[q][Slot(response_rptr[q])] \in Response
    BY PointerType, Zenon DEF TypeOK
  <2>2. got' \in [Queues -> Seq(Response)]
    BY <1>4, <2>1, SMTT(30) DEF HostRead, TypeOK
  <2> QED
    BY <1>4, <2>2, Zenon DEF HostRead, TypeOK
<1>5. CASE HostFree(q)
  BY <1>5, PointerType, Zenon DEF HostFree, TypeOK
<1> QED
  BY <1>1, <1>2, <1>3, <1>4, <1>5, Zenon DEF Host

(* Every hardware and interrupt step keeps the types.                        *)
LEMMA IsrType ==
  ASSUME TypeOK, OtherMsi \/ Isr
  PROVE  TypeOK'
<1> USE HostAssumption
<1>1. CASE OtherMsi
  <2>1. msi_fifo' \in Seq({0, 1}) /\ Len(msi_fifo') <= MsiDepth
    BY <1>1, SMTT(30) DEF OtherMsi, TypeOK
  <2> QED
    BY <1>1, <2>1, SMTT(30) DEF OtherMsi, TypeOK
<1>2. CASE ClearMsgIrq
  BY <1>2, Zenon DEF ClearMsgIrq, TypeOK
<1>3. CASE MsiEnter
  BY <1>3, Zenon DEF MsiEnter, TypeOK
<1>4. CASE MsiPop
  <2>1. msi_fifo' \in Seq({0, 1}) /\ Len(msi_fifo') <= MsiDepth
    BY <1>4, SMTT(30) DEF MsiPop, TypeOK
  <2>2. msi_for_msgqueue' \in BOOLEAN
    BY <1>4, Zenon DEF MsiPop, TypeOK
  <2> QED
    BY <1>4, <2>1, <2>2, Zenon DEF MsiPop, TypeOK
<1>5. CASE MsiDone
  BY <1>5, Zenon DEF MsiDone, TypeOK
<1>6. CASE MsiOverflow
  <2>1. msi_fifo' \in Seq({0, 1}) /\ Len(msi_fifo') <= MsiDepth
    BY <1>6, SMTT(30) DEF MsiOverflow
  <2> QED
    BY <1>6, <2>1, Zenon DEF MsiOverflow, TypeOK
<1>7. CASE MboxCallback
  BY <1>7, Zenon DEF MboxCallback, TypeOK
<1>8. CASE Submit
  BY <1>8, Zenon DEF Submit, TypeOK
<1> QED
  BY <1>1, <1>2, <1>3, <1>4, <1>5, <1>6, <1>7, <1>8, Zenon DEF Isr

(* Every step of the work handler keeps the types.                           *)
LEMMA WorkerType ==
  ASSUME TypeOK, Worker
  PROVE  TypeOK'
<1> USE DEF PCs
<1>0. \A x \in Words : (x + 1) % SerialMod \in Words
  BY SerialAssumption, SMTT(30) DEF Words
<1>0a. 0 \in Queues
  BY QueueAssumption, SMTT(30) DEF Queues
<1>0b. wq \in Queues => (IF wq + 1 = NumQueues THEN 0 ELSE wq + 1) \in Queues
  BY QueueAssumption, SMTT(30) DEF Queues
<1>1. CASE WorkStart
  BY <1>0a, <1>1, Zenon DEF WorkStart, TypeOK
<1>2. CASE CheckRequests
  <2>1. wq' \in Queues /\ pc' \in PCs /\ seen_wptr' \in Pointers
    BY <1>0b, <1>2, Zenon DEF CheckRequests, NextQueue, TypeOK
  <2>2. UNCHANGED <<request, response>>
    BY <1>2, Zenon DEF CheckRequests, NextQueue
  <2> QED
    BY <1>2, <2>1, <2>2, Zenon DEF CheckRequests, TypeOK
<1>3. CASE CheckSlot
  <2>1. wq' \in Queues /\ pc' \in PCs
    BY <1>0b, <1>3, Zenon DEF CheckSlot, NextQueue, TypeOK
  <2>2. UNCHANGED <<seen_wptr, request, response>>
    BY <1>3, Zenon DEF CheckSlot, NextQueue
  <2> QED
    BY <1>3, <2>1, <2>2, Zenon DEF CheckSlot, TypeOK
<1>4. CASE PopEntry
  <2>1. request_queue[wq][Slot(request_rptr[wq])] \in Message
    BY PointerType, Zenon DEF TypeOK
  <2> QED
    BY <1>4, <2>1, Zenon DEF PopEntry, TypeOK
<1>5. CASE PopPointer
  BY <1>5, PointerType, Zenon DEF PopPointer, TypeOK
<1>6. CASE Process
  <2>1. Reply(request, last_serial[wq]) \in Response
    BY ReplyType, Zenon DEF TypeOK
  <2>2. request.value \in Words
    BY HostAssumption, Zenon DEF TypeOK, Message, Words
  <2>3. last_serial' \in [Queues -> Words]
    BY <1>6, <2>2, Zenon DEF Process, TypeOK
  <2> QED
    BY <1>6, <2>1, <2>3, Zenon DEF Process, TypeOK
<1>7. CASE PushEntry
  <2>1. Slot(response_wptr[wq]) \in Slots
    BY PointerType, Zenon DEF TypeOK
  <2>2. response_queue' \in [Queues -> [Slots -> Response]]
    BY <1>7, <2>1, Zenon DEF PushEntry, TypeOK
  <2> QED
    BY <1>7, <2>2, Zenon DEF PushEntry, TypeOK
<1>8. CASE PushPointer
  BY <1>8, PointerType, Zenon DEF PushPointer, TypeOK
<1>9. CASE AdvanceSerial
  <2>1. last_serial' \in [Queues -> Words]
    BY <1>0, <1>9, Zenon DEF AdvanceSerial, TypeOK
  <2> QED
    BY <1>9, <2>1, Zenon DEF AdvanceSerial, TypeOK
<1> QED
  BY <1>1, <1>2, <1>3, <1>4, <1>5, <1>6, <1>7, <1>8, <1>9, Zenon DEF Worker

(* The initial state has the types.                                          *)
LEMMA TypeCorrectInit == Init => TypeOK
<1>1. 0 \in Pointers /\ 0 \in Words /\ 0 \in Queues /\ 0 \in 0..MaxOther
  BY QueueAssumption, SerialAssumption, HostAssumption, SMTT(30)
  DEF Pointers, Wrap, Words, Queues
<1>2. NoMessage \in Message /\ NoResponse \in Response
  BY <1>1, HostAssumption, Zenon
  DEF NoMessage, Message, Commands, NoResponse, Response
<1>3. <<>> \in Seq({0, 1}) /\ Len(<<>>) <= MsiDepth
  BY HostAssumption, SMTT(30)
<1>4. <<>> \in Seq(Message) /\ <<>> \in Seq(Response)
  BY SMTT(30)
<1> SUFFICES ASSUME Init PROVE TypeOK
  BY Zenon
<1>5. /\ request_wptr \in [Queues -> Pointers]
      /\ response_rptr \in [Queues -> Pointers]
      /\ request_rptr \in [Queues -> Pointers]
      /\ response_wptr \in [Queues -> Pointers]
      /\ last_serial \in [Queues -> Words]
  BY <1>1, Zenon DEF Init
<1>6. /\ request_queue \in [Queues -> [Slots -> Message]]
      /\ response_queue \in [Queues -> [Slots -> Response]]
  BY <1>2, Zenon DEF Init
<1>7. /\ sent \in [Queues -> Seq(Message)]
      /\ got \in [Queues -> Seq(Response)]
      /\ host \in [Queues -> {"idle", "publish", "ring", "free"}]
  BY <1>4, Zenon DEF Init
<1>8. msi_fifo \in Seq({0, 1}) /\ Len(msi_fifo) <= MsiDepth
  BY <1>3, Zenon DEF Init
<1>9. /\ pc \in PCs /\ wq \in Queues /\ seen_wptr \in Pointers
      /\ request \in Message /\ response \in Response
      /\ other \in 0..MaxOther
  BY <1>1, <1>2, Zenon DEF Init, PCs
<1> QED
  BY <1>5, <1>6, <1>7, <1>8, <1>9, Zenon DEF Init, TypeOK

(* Every step keeps the types.                                               *)
LEMMA TypeCorrectNext == TypeOK /\ [Next]_vars => TypeOK'
<1> SUFFICES ASSUME TypeOK, [Next]_vars PROVE TypeOK'
  BY Zenon
<1>1. ASSUME NEW q \in Queues, Host(q) PROVE TypeOK'
  BY <1>1, HostType, Zenon
<1>2. CASE OtherMsi \/ Isr
  BY <1>2, IsrType, Zenon
<1>3. CASE Worker
  BY <1>3, WorkerType, Zenon
<1>4. CASE UNCHANGED vars
  BY <1>4, Zenon DEF vars, TypeOK
<1> QED
  BY <1>1, <1>2, <1>3, <1>4, Zenon DEF Next

(* The types of every variable of msgqueue.c's model hold in every reachable *)
(* state: the ring pointers stay below MSG_QUEUE_POINTER_WRAP, every ring    *)
(* entry is a whole request or response.                                     *)
THEOREM TypeCorrect == Spec => []TypeOK
  BY TypeCorrectInit, TypeCorrectNext, PTL DEF Spec
-----------------------------------------------------------------------------
(* The inductive invariant: no overrun alone is not preserved by a push,     *)
(* whose slot was checked several steps earlier; the reservations are.       *)
RingInv == TypeOK /\ NoOverrun /\ SlotReserved

(* Facts about the rings of one queue in a typed state.                      *)
LEMMA RingFacts ==
  ASSUME TypeOK, NEW q \in Queues
  PROVE  /\ Distance(request_wptr[q], request_rptr[q]) \in Nat
         /\ Distance(response_wptr[q], response_rptr[q]) \in Nat
         /\ Distance(request_wptr[q], request_rptr[q]) < QSize =>
              Distance(Bump(request_wptr[q]), request_rptr[q])
                = Distance(request_wptr[q], request_rptr[q]) + 1
         /\ Distance(request_wptr[q], request_rptr[q]) > 0 =>
              Distance(request_wptr[q], Bump(request_rptr[q]))
                = Distance(request_wptr[q], request_rptr[q]) - 1
         /\ Distance(response_wptr[q], response_rptr[q]) < QSize =>
              Distance(Bump(response_wptr[q]), response_rptr[q])
                = Distance(response_wptr[q], response_rptr[q]) + 1
         /\ Distance(response_wptr[q], response_rptr[q]) > 0 =>
              Distance(response_wptr[q], Bump(response_rptr[q]))
                = Distance(response_wptr[q], response_rptr[q]) - 1
         /\ request_wptr[q] # request_rptr[q] =>
              Distance(request_wptr[q], request_rptr[q]) > 0
         /\ response_wptr[q] # response_rptr[q] =>
              Distance(response_wptr[q], response_rptr[q]) > 0
<1>1. /\ request_wptr[q] \in Pointers /\ request_rptr[q] \in Pointers
      /\ response_wptr[q] \in Pointers /\ response_rptr[q] \in Pointers
  BY Zenon DEF TypeOK
<1>2. /\ QSize \in Nat \ {0}
      /\ Wrap - 1 \in Nat /\ QSize <= Wrap - 1
  BY QueueAssumption, SMTT(30) DEF Wrap
<1>3. Wrap \in Nat
  BY QueueAssumption, SMTT(30) DEF Wrap
<1> QED
  BY <1>1, <1>2, <1>3, DistanceBump, SMTT(30)

(* The numbers the reservations compare, in a typed state.                   *)
LEMMA RingNats ==
  ASSUME TypeOK
  PROVE  /\ QSize \in Nat \ {0} /\ wq \in Queues
         /\ \A p \in Queues :
              /\ Distance(request_wptr[p], request_rptr[p]) \in Nat
              /\ Distance(response_wptr[p], response_rptr[p]) \in Nat
<1>1. QSize \in Nat \ {0} /\ wq \in Queues
  BY QueueAssumption, Zenon DEF TypeOK
<1>2. ASSUME NEW p \in Queues
      PROVE  /\ Distance(request_wptr[p], request_rptr[p]) \in Nat
             /\ Distance(response_wptr[p], response_rptr[p]) \in Nat
  BY RingFacts, Zenon
<1> QED
  BY <1>1, <1>2, Zenon

(* Every host step keeps the reservations.                                   *)
LEMMA HostReserves ==
  ASSUME RingInv, NEW q \in Queues, Host(q)
  PROVE  (NoOverrun /\ SlotReserved)'
<1>0. TypeOK /\ QSize \in Nat \ {0}
  BY QueueAssumption, Zenon DEF RingInv
<1>1. ASSUME NEW m \in Requests, HostWrite(q, m)
      PROVE  (NoOverrun /\ SlotReserved)'
  BY <1>0, <1>1, Zenon DEF HostWrite, RingInv, TypeOK,
        NoOverrun, SlotReserved
<1>2. CASE HostPublish(q)
  <2>1. \A p \in Queues : request_wptr'[p] =
           IF p = q THEN Bump(request_wptr[q]) ELSE request_wptr[p]
    BY <1>0, <1>2, Zenon DEF HostPublish, TypeOK
  <2>2. \A p \in Queues :
          Distance(request_wptr'[p], request_rptr[p]) =
            IF p = q THEN Distance(request_wptr[q], request_rptr[q]) + 1
            ELSE Distance(request_wptr[p], request_rptr[p])
    <3>1. Distance(request_wptr[q], request_rptr[q]) < QSize
      BY <1>2, Zenon DEF HostPublish, RingInv, SlotReserved
    <3>2. Distance(Bump(request_wptr[q]), request_rptr[q])
            = Distance(request_wptr[q], request_rptr[q]) + 1
      BY <1>0, <3>1, RingFacts, Zenon
    <3> QED
      BY <2>1, <3>2, Zenon
  <2>3. \A p \in Queues : host'[p] = IF p = q THEN "ring" ELSE host[p]
    BY <1>0, <1>2, Zenon DEF HostPublish, TypeOK
  <2> QED
    BY <1>0, <1>2, <2>2, <2>3, RingNats, SMTT(30) DEF HostPublish, RingInv,
        NoOverrun, SlotReserved
<1>3. CASE HostRing(q)
  BY <1>0, <1>3, Zenon DEF HostRing, RingInv, TypeOK,
        NoOverrun, SlotReserved
<1>4. CASE HostRead(q)
  <2>1. \A p \in Queues : host'[p] = IF p = q THEN "free" ELSE host[p]
    BY <1>0, <1>4, Zenon DEF HostRead, TypeOK
  <2>2. Distance(response_wptr[q], response_rptr[q]) > 0
    BY <1>0, <1>4, RingFacts, Zenon DEF HostRead
  <2> QED
    BY <1>0, <1>4, <2>1, <2>2, RingNats, SMTT(30) DEF HostRead, RingInv,
        NoOverrun, SlotReserved
<1>5. CASE HostFree(q)
  <2>1. \A p \in Queues : response_rptr'[p] =
           IF p = q THEN Bump(response_rptr[q]) ELSE response_rptr[p]
    BY <1>0, <1>5, Zenon DEF HostFree, TypeOK
  <2>2. \A p \in Queues :
          Distance(response_wptr[p], response_rptr'[p]) =
            IF p = q THEN Distance(response_wptr[q], response_rptr[q]) - 1
            ELSE Distance(response_wptr[p], response_rptr[p])
    <3>1. Distance(response_wptr[q], response_rptr[q]) > 0
      BY <1>5, Zenon DEF HostFree, RingInv, SlotReserved
    <3>2. Distance(response_wptr[q], Bump(response_rptr[q]))
            = Distance(response_wptr[q], response_rptr[q]) - 1
      BY <1>0, <3>1, RingFacts, Zenon
    <3> QED
      BY <2>1, <3>2, Zenon
  <2>3. \A p \in Queues :
          host'[p] = "free" => host[p] = "free" /\ p # q
    BY <1>0, <1>5, Zenon DEF HostFree, TypeOK
  <2>4. \A p \in Queues : host'[p] = "publish" => host[p] = "publish"
    BY <1>0, <1>5, Zenon DEF HostFree, TypeOK
  <2> QED
    BY <1>0, <1>5, <2>2, <2>3, <2>4, RingNats, SMTT(30) DEF HostFree, RingInv,
        NoOverrun, SlotReserved
<1> QED
  BY <1>1, <1>2, <1>3, <1>4, <1>5, Zenon DEF Host

(* Every step of the work handler keeps the reservations.                    *)
LEMMA WorkerReserves ==
  ASSUME RingInv, Worker
  PROVE  (NoOverrun /\ SlotReserved)'
<1>0. TypeOK /\ QSize \in Nat \ {0} /\ wq \in Queues
  BY QueueAssumption, Zenon DEF RingInv, TypeOK
<1>1. CASE WorkStart \/ PopEntry \/ Process \/ PushEntry \/ AdvanceSerial
  BY <1>0, <1>1, Zenon
  DEF WorkStart, PopEntry, Process, PushEntry, AdvanceSerial, RingInv,
        NoOverrun, SlotReserved
<1>2. CASE CheckRequests
  <2>1. request_wptr[wq] # request_rptr[wq] =>
          Distance(request_wptr[wq], request_rptr[wq]) > 0
    BY <1>0, RingFacts, Zenon
  <2> QED
    BY <1>0, <1>2, <2>1, RingNats, Zenon DEF CheckRequests, NextQueue, RingInv,
        NoOverrun, SlotReserved
<1>3. CASE CheckSlot
  <2>1. Distance(response_wptr[wq], response_rptr[wq]) <= QSize
    BY <1>0, Zenon DEF RingInv, NoOverrun
  <2>2. ~ResponseFull(wq) =>
          Distance(response_wptr[wq], response_rptr[wq]) < QSize
    BY <1>0, <2>1, RingNats, SMTT(30) DEF ResponseFull
  <2>3. CASE ResponseFull(wq) \/ ~InRange(wq)
    BY <1>3, <2>3, Zenon DEF CheckSlot, NextQueue, RingInv, NoOverrun, SlotReserved
  <2>4. CASE ~(ResponseFull(wq) \/ ~InRange(wq))
    <3>1. pc' = "pop" /\ pc = "slot"
      BY <1>3, <2>4, Zenon DEF CheckSlot
    <3>2. UNCHANGED <<ring_vars, host_vars, wq>>
      BY <1>3, <2>4, Zenon DEF CheckSlot
    <3> QED
      BY <2>2, <2>4, <3>1, <3>2, Zenon DEF RingInv, NoOverrun, SlotReserved
  <2> QED
    BY <2>3, <2>4, Zenon
<1>4. CASE PopPointer
  <2>1. \A p \in Queues : request_rptr'[p] =
           IF p = wq THEN Bump(request_rptr[wq]) ELSE request_rptr[p]
    BY <1>0, <1>4, Zenon DEF PopPointer, TypeOK
  <2>2. \A p \in Queues :
          Distance(request_wptr[p], request_rptr'[p]) =
            IF p = wq THEN Distance(request_wptr[wq], request_rptr[wq]) - 1
            ELSE Distance(request_wptr[p], request_rptr[p])
    <3>1. Distance(request_wptr[wq], request_rptr[wq]) > 0
      BY <1>4, Zenon DEF PopPointer, RingInv, SlotReserved
    <3>2. Distance(request_wptr[wq], Bump(request_rptr[wq]))
            = Distance(request_wptr[wq], request_rptr[wq]) - 1
      BY <1>0, <3>1, RingFacts, Zenon
    <3> QED
      BY <2>1, <3>2, Zenon
  <2> QED
    BY <1>0, <1>4, <2>2, RingNats, SMTT(30) DEF PopPointer, RingInv,
        NoOverrun, SlotReserved
<1>5. CASE PushPointer
  <2>1. \A p \in Queues : response_wptr'[p] =
           IF p = wq THEN Bump(response_wptr[wq]) ELSE response_wptr[p]
    BY <1>0, <1>5, Zenon DEF PushPointer, TypeOK
  <2>2. \A p \in Queues :
          Distance(response_wptr'[p], response_rptr[p]) =
            IF p = wq THEN Distance(response_wptr[wq], response_rptr[wq]) + 1
            ELSE Distance(response_wptr[p], response_rptr[p])
    <3>1. Distance(response_wptr[wq], response_rptr[wq]) < QSize
      BY <1>5, Zenon DEF PushPointer, RingInv, SlotReserved
    <3>2. Distance(Bump(response_wptr[wq]), response_rptr[wq])
            = Distance(response_wptr[wq], response_rptr[wq]) + 1
      BY <1>0, <3>1, RingFacts, Zenon
    <3> QED
      BY <2>1, <3>2, Zenon
  <2> QED
    BY <1>0, <1>5, <2>2, RingNats, SMTT(30) DEF PushPointer, RingInv,
        NoOverrun, SlotReserved
<1> QED
  BY <1>1, <1>2, <1>3, <1>4, <1>5, Zenon DEF Worker

(* The invariant holds initially ...                                         *)
LEMMA RingInit == Init => RingInv
<1> SUFFICES ASSUME Init PROVE RingInv
  BY Zenon
<1>1. TypeOK
  BY TypeCorrectInit, Zenon
<1>2. Distance(0, 0) = 0 /\ QSize \in Nat \ {0}
  BY QueueAssumption, SMTT(30) DEF Distance, Wrap
<1> QED
  BY <1>1, <1>2, SMTT(30) DEF Init, RingInv, NoOverrun, SlotReserved

(* ... and every step keeps it.                                              *)
LEMMA RingNext == RingInv /\ [Next]_vars => RingInv'
<1> SUFFICES ASSUME RingInv, [Next]_vars PROVE RingInv'
  BY Zenon
<1>0. TypeOK'
  BY TypeCorrectNext, Zenon DEF RingInv
<1>1. ASSUME NEW q \in Queues, Host(q) PROVE RingInv'
  BY <1>0, <1>1, HostReserves, Zenon DEF RingInv
<1>2. CASE OtherMsi \/ Isr
  BY <1>0, <1>2, Zenon
  DEF OtherMsi, Isr, ClearMsgIrq, MsiEnter, MsiPop, MsiDone, MsiOverflow,
      MboxCallback, Submit, RingInv, NoOverrun, SlotReserved
<1>3. CASE Worker
  BY <1>0, <1>3, WorkerReserves, Zenon DEF RingInv
<1>4. CASE UNCHANGED vars
  BY <1>0, <1>4, Zenon DEF vars, RingInv, NoOverrun, SlotReserved
<1> QED
  BY <1>1, <1>2, <1>3, <1>4, Zenon DEF Next

(* No ring of msgqueue.c overruns: a push, which checks nothing, never       *)
(* writes over an entry the other side has not consumed.                     *)
THEOREM RingsNeverOverrun == Spec => []NoOverrun
<1>1. RingInv => NoOverrun
  BY Zenon DEF RingInv
<1> QED
  BY <1>1, RingInit, RingNext, PTL DEF Spec

(* From start_next_message's check to the push, the response keeps its slot  *)
(* and the request its entry, however the host's pushes and pops interleave. *)
THEOREM SlotsStayReserved == Spec => []SlotReserved
<1>1. RingInv => SlotReserved
  BY Zenon DEF RingInv
<1> QED
  BY <1>1, RingInit, RingNext, PTL DEF Spec

-----------------------------------------------------------------------------
(* The refinement.  Slots of entries beyond the read pointer, without the    *)
(* modulus.                                                                  *)
LEMMA SlotValue ==
  ASSUME NEW x \in Nat, x < 3 * QSize
  PROVE  Slot(x) = IF x < QSize THEN x
                   ELSE IF x < 2 * QSize THEN x - QSize ELSE x - 2 * QSize
  BY QueueAssumption, SMTT(30) DEF Slot

(* The entry at the write pointer follows the entries of the ring; it shares *)
(* no slot with them unless the ring is full; and the read pointer's advance *)
(* shifts the entries by one.                                                *)
LEMMA RingSlots ==
  ASSUME NEW w \in Pointers, NEW r \in Pointers, Distance(w, r) <= QSize
  PROVE  /\ Slot(r + Distance(w, r)) = Slot(w)
         /\ Distance(w, r) < QSize =>
              \A j \in 0..Distance(w, r) - 1 : Slot(r + j) # Slot(w)
         /\ \A j \in 0..QSize - 1 : Slot(Bump(r) + j) = Slot(r + j + 1)
<1> DEFINE n == Distance(w, r)
<1>1. /\ QSize \in Nat \ {0} /\ Wrap = 2 * QSize /\ w \in Nat /\ r \in Nat
      /\ w < 2 * QSize /\ r < 2 * QSize
  BY QueueAssumption, SMTT(30) DEF Pointers, Wrap
<1>2. n = IF w >= r THEN w - r ELSE w + Wrap - r
  BY DistanceValue, Zenon
<1>3. n \in Nat /\ n <= QSize
  BY <1>1, <1>2, SMTT(30)
<1>4. Bump(r) = IF r + 1 = Wrap THEN 0 ELSE r + 1
  BY <1>1, SMTT(30) DEF Bump
<1> HIDE DEF n
<1>5. \A x \in Nat : x < 3 * QSize =>
         Slot(x) = IF x < QSize THEN x
                   ELSE IF x < 2 * QSize THEN x - QSize ELSE x - 2 * QSize
  BY SlotValue, Zenon
<1>6. Slot(r + n) = Slot(w)
  <2>1. /\ r + n \in Nat /\ r + n < 3 * QSize /\ w < 3 * QSize
        /\ r + n = IF w >= r THEN w ELSE w + 2 * QSize
    BY <1>1, <1>2, <1>3, SMTT(30)
  <2>2. Slot(r + n) = IF r + n < QSize THEN r + n
                      ELSE IF r + n < 2 * QSize THEN r + n - QSize
                      ELSE r + n - 2 * QSize
    BY <1>1, <1>3, <2>1, SlotValue, SMTT(30)
  <2>3. Slot(w) = IF w < QSize THEN w ELSE w - QSize
    BY <1>1, <1>5, <2>1, Zenon
  <2> QED
    BY <1>1, <1>3, <2>1, <2>2, <2>3, SMTT(30)
<1>7. ASSUME n < QSize, NEW j \in 0..n - 1 PROVE Slot(r + j) # Slot(w)
  <2>1. /\ r + j \in Nat /\ r + j < 3 * QSize /\ r + n \in Nat /\ r + n < 3 * QSize
    BY <1>1, <1>3, <1>7, SMTT(30)
  <2>2. Slot(r + j) # Slot(r + n)
    BY <1>1, <1>3, <1>5, <1>7, <2>1, SMTT(30)
  <2> QED
    BY <1>6, <2>2, Zenon
<1>8. ASSUME NEW j \in 0..QSize - 1 PROVE Slot(Bump(r) + j) = Slot(r + j + 1)
  <2>1. /\ r + j + 1 \in Nat /\ r + j + 1 < 3 * QSize
        /\ Bump(r) + j \in Nat /\ Bump(r) + j < 3 * QSize
    BY <1>1, <1>4, SMTT(30)
  <2> QED
    BY <1>1, <1>4, <1>5, <2>1, SMTT(30)
<1> QED
  BY <1>6, <1>7, <1>8, Zenon DEF n

(* Sequences of the same length with the same entries are the same.          *)
LEMMA SeqEqual ==
  ASSUME NEW S, NEW s \in Seq(S), NEW t \in Seq(S), Len(s) = Len(t),
         \A i \in 1 .. Len(s) : s[i] = t[i]
  PROVE  s = t
<1>1. PICK n : n = Len(s)
  BY Zenon
<1>2. s \in [1 .. n -> S] /\ t \in [1 .. n -> S] /\ \A i \in 1 .. n : s[i] = t[i]
  BY <1>1, SMTT(30)
<1>3. s = [i \in 1 .. n |-> s[i]] /\ t = [i \in 1 .. n |-> t[i]]
  BY <1>2, Zenon
<1>4. [i \in 1 .. n |-> s[i]] = [i \in 1 .. n |-> t[i]]
  BY <1>2, Zenon
<1> QED
  BY <1>3, <1>4, Zenon

(* A sequence with one more entry at its end, or one fewer at its front.     *)
LEMMA AppendIs ==
  ASSUME NEW S, NEW s \in Seq(S), NEW t \in Seq(S), NEW m \in S,
         Len(t) = Len(s) + 1, \A i \in 1..Len(s) : t[i] = s[i], t[Len(s) + 1] = m
  PROVE  t = Append(s, m)
<1>1. /\ Append(s, m) \in Seq(S) /\ Len(Append(s, m)) = Len(s) + 1
      /\ \A i \in 1..Len(s) + 1 : Append(s, m)[i] = IF i <= Len(s) THEN s[i] ELSE m
  BY SMTT(30)
<1>2. Len(s) \in Nat
  BY SMTT(30)
<1>3. \A i \in 1..Len(t) : t[i] = Append(s, m)[i]
  BY <1>1, <1>2, SMTT(30)
<1> QED
  BY <1>1, <1>3, SeqEqual, Zenon

(* The same for Tail.                                                        *)
LEMMA TailIs ==
  ASSUME NEW S, NEW s \in Seq(S), NEW t \in Seq(S), s # <<>>,
         Len(t) = Len(s) - 1, \A i \in 1..Len(t) : t[i] = s[i + 1]
  PROVE  t = Tail(s)
<1>1. Tail(s) \in Seq(S) /\ Len(Tail(s)) = Len(s) - 1
      /\ \A i \in 1..Len(Tail(s)) : Tail(s)[i] = s[i + 1]
  BY SMTT(30)
<1> QED
  BY <1>1, SeqEqual, Zenon

(* The channel's sequences, entry by entry.                                  *)
Requested(q) == Distance(request_wptr[q], request_rptr[q])
InTake(q) == InHand(q, {"process"})
First(q) == IF host[q] = "free" THEN 1 ELSE 0
Held(q) == Distance(response_wptr[q], response_rptr[q]) - First(q)
InPush(q) == InHand(q, {"push", "pushed"})
RequestAt(q, j) == request_queue[q][Slot(request_rptr[q] + j)]
ResponseAt(q, j) == response_queue[q][Slot(response_rptr[q] + j)]
ChannelShape ==
  \A q \in Queues :
    /\ InTake(q) \in 0..1 /\ InPush(q) \in 0..1 /\ First(q) \in 0..1
    /\ Requested(q) \in 0..QSize /\ Held(q) \in 0..QSize - First(q)
    /\ Pending(q) \in Seq(Message) /\ Len(Pending(q)) = Requested(q) + InTake(q)
    /\ Ready(q) \in Seq(Response) /\ Len(Ready(q)) = Held(q) + InPush(q)
    /\ \A i \in 1..Requested(q) + InTake(q) :
         Pending(q)[i] = IF i <= InTake(q) THEN request ELSE RequestAt(q, i - InTake(q) - 1)
    /\ \A i \in 1..Held(q) + InPush(q) :
         Ready(q)[i] = IF i > Held(q) THEN response ELSE ResponseAt(q, First(q) + i - 1)

(* They have that shape wherever no ring overruns.                           *)
LEMMA ChannelShaped == RingInv => ChannelShape
<1> SUFFICES ASSUME RingInv, NEW q \in Queues
             PROVE  /\ InTake(q) \in 0..1 /\ InPush(q) \in 0..1 /\ First(q) \in 0..1
                    /\ Requested(q) \in 0..QSize /\ Held(q) \in 0..QSize - First(q)
                    /\ Pending(q) \in Seq(Message) /\ Len(Pending(q)) = Requested(q) + InTake(q)
                    /\ Ready(q) \in Seq(Response) /\ Len(Ready(q)) = Held(q) + InPush(q)
                    /\ \A i \in 1..Requested(q) + InTake(q) :
                         Pending(q)[i] = IF i <= InTake(q) THEN request
                                         ELSE RequestAt(q, i - InTake(q) - 1)
                    /\ \A i \in 1..Held(q) + InPush(q) :
                         Ready(q)[i] = IF i > Held(q) THEN response
                                       ELSE ResponseAt(q, First(q) + i - 1)
  BY Zenon DEF ChannelShape
<1> DEFINE k == InTake(q)
           n == Requested(q)
           l == InPush(q)
           first == First(q)
           held == Held(q)
<1>1. k \in 0..1 /\ l \in 0..1 /\ first \in 0..1
  BY SMTT(30) DEF InHand, InTake, InPush, First
<1>2. n \in Nat /\ n <= QSize /\ held \in Nat /\ held + first <= QSize /\ QSize \in Nat
  <2>1. /\ TypeOK /\ n <= QSize /\ Distance(response_wptr[q], response_rptr[q]) <= QSize
        /\ (host[q] = "free" => Distance(response_wptr[q], response_rptr[q]) > 0)
    BY Zenon DEF RingInv, NoOverrun, SlotReserved, Requested
  <2> QED
    BY <2>1, RingNats, SMTT(30) DEF Requested, Held, First
<1>3. \A p \in Nat : Slot(p) \in Slots
  BY QueueAssumption, SMTT(30) DEF Slot, Slots
<1>4. /\ request_rptr[q] \in Nat /\ response_rptr[q] \in Nat /\ request \in Message
      /\ response \in Response /\ request_queue[q] \in [Slots -> Message]
      /\ response_queue[q] \in [Slots -> Response]
  BY QueueAssumption, SMTT(30) DEF RingInv, TypeOK, Pointers, Wrap
<1>5. Pending(q) = [i \in 1..n + k |-> IF i <= k THEN request
                                       ELSE request_queue[q][Slot(request_rptr[q] + i - k - 1)]]
  BY Zenon DEF Pending, Requested, InTake
<1>6. Ready(q) = [i \in 1..held + l |-> IF i > held THEN response
                             ELSE response_queue[q][Slot(response_rptr[q] + first + i - 1)]]
  BY Zenon DEF Ready, Held, First, InPush
<1> HIDE DEF k, n, l, first, held
<1>7. \A i \in 1..n + k : (IF i <= k THEN request
                           ELSE request_queue[q][Slot(request_rptr[q] + i - k - 1)]) \in Message
  BY <1>1, <1>2, <1>3, <1>4, SMTT(30)
<1>8. \A i \in 1..held + l : (IF i > held THEN response
                 ELSE response_queue[q][Slot(response_rptr[q] + first + i - 1)]) \in Response
  BY <1>1, <1>2, <1>3, <1>4, SMTT(30)
<1>9. Pending(q) \in Seq(Message) /\ Len(Pending(q)) = n + k
  BY <1>1, <1>2, <1>5, <1>7, SMTT(30)
<1>10. Ready(q) \in Seq(Response) /\ Len(Ready(q)) = held + l
  BY <1>1, <1>2, <1>6, <1>8, SMTT(30)
<1>11. \A i \in 1..n + k : Pending(q)[i] = IF i <= k THEN request ELSE RequestAt(q, i - k - 1)
  <2>1. \A i \in 1..n + k : request_rptr[q] + i - k - 1 = request_rptr[q] + (i - k - 1)
    BY <1>1, <1>2, <1>4, Zenon
  <2> QED
    BY <1>5, <2>1, Zenon DEF RequestAt
<1>12. \A i \in 1..held + l :
         Ready(q)[i] = IF i > held THEN response ELSE ResponseAt(q, first + i - 1)
  <2>1. \A i \in 1..held + l : response_rptr[q] + first + i - 1 = response_rptr[q] + (first + i - 1)
    BY <1>1, <1>2, <1>4, SMTT(30)
  <2> QED
    BY <1>6, <2>1, Zenon DEF ResponseAt
<1> QED
  BY <1>1, <1>2, <1>9, <1>10, <1>11, <1>12, SMTT(30) DEF k, n, l, first, held

(* The numbers of that shape.                                                *)
LEMMA ShapeNumbers ==
  ASSUME ChannelShape, NEW q \in Queues
  PROVE  /\ InTake(q) \in 0..1 /\ InPush(q) \in 0..1 /\ First(q) \in 0..1
         /\ Requested(q) \in Nat /\ Held(q) \in Nat
  BY QueueAssumption, SMTT(30) DEF ChannelShape

(* The ring pointers of msgqueue.c are natural numbers.                      *)
LEMMA PointersAreNats == \A x \in Pointers : x \in Nat
  BY QueueAssumption, SMTT(30) DEF Pointers, Wrap

(* The functions the steps update at one queue.                              *)
LEMMA RingTypes ==
  ASSUME TypeOK
  PROVE  /\ request_wptr \in [Queues -> Pointers] /\ request_rptr \in [Queues -> Pointers]
         /\ response_wptr \in [Queues -> Pointers] /\ response_rptr \in [Queues -> Pointers]
         /\ host \in [Queues -> {"idle", "publish", "ring", "free"}]
  BY Zenon DEF TypeOK

(* The last serial number of each queue is a word.                           *)
LEMMA SerialTypes == TypeOK => last_serial \in [Queues -> Words]
  BY Zenon DEF TypeOK

(* The sequences of the channel, before and after a step, by the numbers of  *)
(* their parts.                                                              *)
LEMMA PendingNow ==
  ASSUME ChannelShape, NEW q \in Queues, NEW n, NEW k, Requested(q) = n, InTake(q) = k
  PROVE  /\ Pending(q) \in Seq(Message) /\ Len(Pending(q)) = n + k
         /\ \A i \in 1..n + k :
              Pending(q)[i] = IF i <= k THEN request ELSE RequestAt(q, i - k - 1)
  BY Zenon DEF ChannelShape

(* The requests that wait, after a step.                                     *)
LEMMA PendingNext ==
  ASSUME ChannelShape', NEW q \in Queues, NEW n, NEW k, Requested(q)' = n, InTake(q)' = k
  PROVE  /\ Pending(q)' \in Seq(Message) /\ Len(Pending(q)') = n + k
         /\ \A i \in 1..n + k :
              Pending(q)'[i] = IF i <= k THEN request' ELSE RequestAt(q, i - k - 1)'
  BY Zenon DEF ChannelShape, RequestAt

(* The responses that are ready: those in the ring, then the one being       *)
(* pushed.                                                                   *)
LEMMA ReadyNow ==
  ASSUME ChannelShape, NEW q \in Queues, NEW n, NEW k, NEW f,
         Held(q) = n, InPush(q) = k, First(q) = f
  PROVE  /\ Ready(q) \in Seq(Response) /\ Len(Ready(q)) = n + k
         /\ \A i \in 1..n + k :
              Ready(q)[i] = IF i > n THEN response ELSE ResponseAt(q, f + i - 1)
  BY Zenon DEF ChannelShape

(* The responses that are ready, after a step.                               *)
LEMMA ReadyNext ==
  ASSUME ChannelShape', NEW q \in Queues, NEW n, NEW k, NEW f,
         Held(q)' = n, InPush(q)' = k, First(q)' = f
  PROVE  /\ Ready(q)' \in Seq(Response) /\ Len(Ready(q)') = n + k
         /\ \A i \in 1..n + k :
              Ready(q)'[i] = IF i > n THEN response' ELSE ResponseAt(q, f + i - 1)'
  BY Zenon DEF ChannelShape, ResponseAt

(* What leaves the entries of the channel's sequences alone leaves them.     *)
LEMMA PendingSame ==
  ASSUME ChannelShape, ChannelShape', NEW q \in Queues,
         Requested(q)' = Requested(q), InTake(q)' = InTake(q),
         InTake(q) = 1 => request' = request,
         \A j \in 0..Requested(q) - 1 : RequestAt(q, j)' = RequestAt(q, j)
  PROVE  Pending(q)' = Pending(q)
<1>1. PICK k \in 0..1, n \in Nat : k = InTake(q) /\ n = Requested(q)
  BY ShapeNumbers, Zenon
<1>2. /\ Pending(q) \in Seq(Message) /\ Len(Pending(q)) = n + k
      /\ Pending(q)' \in Seq(Message) /\ Len(Pending(q)') = n + k
      /\ \A i \in 1..n + k : Pending(q)[i] = IF i <= k THEN request ELSE RequestAt(q, i - k - 1)
      /\ \A i \in 1..n + k :
           Pending(q)'[i] = IF i <= k THEN request' ELSE RequestAt(q, i - k - 1)'
  BY <1>1, PendingNow, PendingNext, SMTT(30)
<1>3. ASSUME NEW i \in 1..n + k PROVE Pending(q)[i] = Pending(q)'[i]
  <2>1. CASE i <= k
    BY <1>1, <1>2, <2>1, SMTT(30)
  <2>2. CASE ~(i <= k)
    <3>1. i - k - 1 \in 0..n - 1
      BY <2>2, SMTT(30)
    <3>2. RequestAt(q, i - k - 1)' = RequestAt(q, i - k - 1)
      BY <1>1, <3>1, Zenon
    <3> QED
      BY <1>2, <2>2, <3>2, Zenon
  <2> QED
    BY <2>1, <2>2, Zenon
<1> QED
  BY <1>2, <1>3, SeqEqual, Zenon

(* The same for the responses.                                               *)
LEMMA ReadySame ==
  ASSUME ChannelShape, ChannelShape', NEW q \in Queues,
         Held(q)' = Held(q), InPush(q)' = InPush(q),
         InPush(q) = 1 => response' = response,
         \A j \in 0..Held(q) - 1 : response_queue'[q][Slot(response_rptr'[q] + (First(q)' + j))]
                                     = ResponseAt(q, First(q) + j)
  PROVE  Ready(q)' = Ready(q)
<1>1. PICK k \in 0..1, n \in Nat, f \in 0..1, f1 \in 0..1 :
         k = InPush(q) /\ n = Held(q) /\ f = First(q) /\ f1 = First(q)'
  BY ShapeNumbers, SMTT(30) DEF First
<1>2. /\ Ready(q) \in Seq(Response) /\ Len(Ready(q)) = n + k
      /\ Ready(q)' \in Seq(Response) /\ Len(Ready(q)') = n + k
      /\ \A i \in 1..n + k : Ready(q)[i] = IF i > n THEN response ELSE ResponseAt(q, f + i - 1)
      /\ \A i \in 1..n + k :
           Ready(q)'[i] = IF i > n THEN response' ELSE ResponseAt(q, f1 + i - 1)'
  BY <1>1, ReadyNow, ReadyNext, SMTT(30)
<1>3. ASSUME NEW i \in 1..n + k PROVE Ready(q)[i] = Ready(q)'[i]
  <2>1. CASE i > n
    BY <1>1, <1>2, <2>1, SMTT(30)
  <2>2. CASE ~(i > n)
    <3>1. i - 1 \in 0..n - 1 /\ f1 + (i - 1) = f1 + i - 1 /\ f + (i - 1) = f + i - 1
      BY <2>2, SMTT(30)
    <3>2. ResponseAt(q, f1 + i - 1)' = ResponseAt(q, f + i - 1)
      BY <1>1, <3>1, Zenon DEF ResponseAt
    <3> QED
      BY <1>2, <2>2, <3>2, Zenon
  <2> QED
    BY <2>1, <2>2, Zenon
<1> QED
  BY <1>2, <1>3, SeqEqual, Zenon

-----------------------------------------------------------------------------
(* Between the two halves of a pop or a push of the SMC, the ring entry is   *)
(* the work handler's local.                                                 *)
HandInv ==
  /\ pc = "popped" => request = request_queue[wq][Slot(request_rptr[wq])]
  /\ pc = "pushed" => response = response_queue[wq][Slot(response_wptr[wq])]
ChannelInv == RingInv /\ HandInv

(* The host writes no entry that the SMC is about to take.                   *)
LEMMA HostHands ==
  ASSUME ChannelInv, NEW q \in Queues, Host(q)
  PROVE  HandInv'
<1>0. TypeOK /\ wq \in Queues
  BY Zenon DEF ChannelInv, RingInv, TypeOK
<1>1. ASSUME NEW m \in Requests, HostWrite(q, m) PROVE HandInv'
  <2>1. /\ request_queue' = [request_queue EXCEPT ![q][Slot(request_wptr[q])] = m]
        /\ UNCHANGED <<pc, wq, request, response, request_rptr, response_wptr, response_queue>>
    BY <1>1, Zenon DEF HostWrite
  <2>2. CASE pc = "popped" /\ wq = q
    <3>1. /\ request_wptr[q] \in Pointers /\ request_rptr[q] \in Pointers
          /\ Distance(request_wptr[q], request_rptr[q]) < QSize
          /\ Distance(request_wptr[q], request_rptr[q]) > 0
          /\ Distance(request_wptr[q], request_rptr[q]) \in Nat
      BY <1>0, <1>1, <2>2, RingNats, Zenon DEF HostWrite, ChannelInv, RingInv, SlotReserved, TypeOK
    <3>2. 0 \in 0..Distance(request_wptr[q], request_rptr[q]) - 1 /\ QSize \in Nat
          /\ Distance(request_wptr[q], request_rptr[q]) <= QSize
      BY <3>1, QueueAssumption, SMTT(30)
    <3>3. Slot(request_rptr[q] + 0) # Slot(request_wptr[q])
      BY <3>1, <3>2, RingSlots, SMTT(30)
    <3>4. request_rptr[q] + 0 = request_rptr[q]
      BY <3>1, QueueAssumption, SMTT(30) DEF Pointers, Wrap
    <3>5. request_queue'[q][Slot(request_rptr[q])] = request_queue[q][Slot(request_rptr[q])]
      BY <1>0, <2>1, <3>3, <3>4, SMTT(30) DEF TypeOK
    <3> QED
      BY <2>1, <2>2, <3>5, Zenon DEF ChannelInv, HandInv
  <2>3. CASE ~(pc = "popped" /\ wq = q)
    BY <1>0, <2>1, <2>3, Zenon DEF ChannelInv, HandInv, TypeOK
  <2> QED
    BY <2>2, <2>3, Zenon
<1>2. CASE HostPublish(q) \/ HostRing(q) \/ HostRead(q) \/ HostFree(q)
  BY <1>2, Zenon DEF HostPublish, HostRing, HostRead, HostFree, ChannelInv, HandInv
<1> QED
  BY <1>1, <1>2, Zenon DEF Host

(* Every step keeps the invariant behind the refinement.                     *)
LEMMA ChannelInvNext == ChannelInv /\ [Next]_vars => ChannelInv'
<1> SUFFICES ASSUME ChannelInv, [Next]_vars PROVE ChannelInv'
  BY Zenon
<1>0. RingInv' /\ TypeOK /\ wq \in Queues
  BY RingNext, Zenon DEF ChannelInv, RingInv, TypeOK
<1> SUFFICES HandInv'
  BY <1>0, Zenon DEF ChannelInv
<1>1. ASSUME NEW q \in Queues, Host(q) PROVE HandInv'
  BY <1>1, HostHands, Zenon
<1>2. CASE OtherMsi \/ Isr
  BY <1>2, Zenon DEF OtherMsi, Isr, ClearMsgIrq, MsiEnter, MsiPop, MsiDone, MsiOverflow,
              MboxCallback, Submit, ChannelInv, HandInv
<1>3. CASE Worker
  <2>1. CASE WorkStart \/ CheckRequests \/ CheckSlot \/ PopPointer \/ Process \/ PushPointer
             \/ AdvanceSerial
    <3>1. pc' # "popped" /\ pc' # "pushed"
      BY <2>1, Zenon DEF WorkStart, CheckRequests, CheckSlot, NextQueue, PopPointer, Process,
                  PushPointer, AdvanceSerial
    <3> QED
      BY <3>1, Zenon DEF HandInv
  <2>2. CASE PopEntry
    BY <2>2, Zenon DEF PopEntry, HandInv
  <2>3. CASE PushEntry
    <3>1. Slot(response_wptr[wq]) \in Slots
      BY <1>0, PointerType, Zenon DEF TypeOK
    <3> QED
      BY <1>0, <2>3, <3>1, Zenon DEF PushEntry, HandInv, TypeOK
  <2> QED
    BY <1>3, <2>1, <2>2, <2>3, Zenon DEF Worker
<1>4. CASE UNCHANGED vars
  BY <1>4, Zenon DEF vars, ChannelInv, HandInv
<1> QED
  BY <1>1, <1>2, <1>3, <1>4, Zenon DEF Next

(* A step the channel does not see on queue p.                               *)
Quiet(p) == UNCHANGED <<Pending(p), Ready(p), Serial(p)>>

(* Doorbells and interrupts.                                                 *)
LEMMA BellQuiet ==
  ASSUME ChannelShape, ChannelShape', UNCHANGED <<ring_vars, last_serial, work_vars>>,
         NEW p \in Queues, host'[p] = "free" <=> host[p] = "free"
  PROVE  Quiet(p)
<1>1. /\ Requested(p)' = Requested(p) /\ InTake(p)' = InTake(p) /\ Held(p)' = Held(p)
      /\ InPush(p)' = InPush(p) /\ First(p)' = First(p) /\ Serial(p)' = Serial(p)
      /\ request' = request /\ response' = response
  BY Zenon DEF Requested, InTake, InHand, Held, First, InPush, Serial
<1>2. Pending(p)' = Pending(p)
  BY <1>1, PendingSame, Zenon DEF RequestAt
<1>3. Ready(p)' = Ready(p)
  BY <1>1, ReadySame, Zenon DEF ResponseAt
<1> QED
  BY <1>1, <1>2, <1>3, Zenon DEF Quiet

(* Scanning the queues, and reading a request that is still in its ring.     *)
LEMMA ScanQuiet ==
  ASSUME ChannelShape, ChannelShape', NEW p \in Queues,
         WorkStart \/ CheckRequests \/ CheckSlot \/ PopEntry
  PROVE  Quiet(p)
<1>1. /\ UNCHANGED <<ring_vars, last_serial, host>>
      /\ pc \notin {"process", "push", "pushed", "serial"}
      /\ pc' \notin {"process", "push", "pushed", "serial"}
  BY Zenon DEF WorkStart, CheckRequests, CheckSlot, PopEntry, NextQueue
<1>2. /\ Requested(p)' = Requested(p) /\ InTake(p)' = 0 /\ InTake(p) = 0
      /\ Held(p)' = Held(p) /\ First(p)' = First(p)
      /\ InPush(p)' = 0 /\ InPush(p) = 0 /\ Serial(p)' = Serial(p)
  BY <1>1, Zenon DEF Requested, InTake, InHand, Held, First, InPush, Serial
<1>3. Pending(p)' = Pending(p)
  <2>1. \A j \in 0..Requested(p) - 1 : RequestAt(p, j)' = RequestAt(p, j)
    BY <1>1, Zenon DEF RequestAt
  <2> QED
    BY <1>2, <2>1, PendingSame, SMTT(30)
<1>4. Ready(p)' = Ready(p)
  <2>1. \A j \in 0..Held(p) - 1 : response_queue'[p][Slot(response_rptr'[p] + (First(p)' + j))]
                                     = ResponseAt(p, First(p) + j)
    BY <1>1, <1>2, Zenon DEF ResponseAt
  <2> QED
    BY <1>2, <2>1, ReadySame, SMTT(30)
<1> QED
  BY <1>2, <1>3, <1>4, Zenon DEF Quiet

(* A host that writes an entry beyond the ring.                              *)
LEMMA WriteQuiet ==
  ASSUME ChannelInv, ChannelShape, ChannelShape', NEW q \in Queues, NEW p \in Queues,
         NEW m \in Requests, HostWrite(q, m)
  PROVE  Quiet(p)
<1>1. /\ UNCHANGED <<request_wptr, response_rptr, request_rptr, response_wptr, response_queue,
                     last_serial, work_vars>>
      /\ request_queue' = [request_queue EXCEPT ![q][Slot(request_wptr[q])] = m]
      /\ host' = [host EXCEPT ![q] = "publish"] /\ host[q] = "idle"
      /\ Distance(request_wptr[q], request_rptr[q]) < QSize
  BY Zenon DEF HostWrite
<1>2. TypeOK
  BY Zenon DEF ChannelInv, RingInv
<1>3. host'[p] = "free" <=> host[p] = "free"
  BY <1>1, <1>2, RingTypes, Zenon
<1>4. /\ Requested(p)' = Requested(p) /\ InTake(p)' = InTake(p) /\ Held(p)' = Held(p)
      /\ InPush(p)' = InPush(p) /\ First(p)' = First(p) /\ Serial(p)' = Serial(p)
      /\ request' = request /\ response' = response
  BY <1>1, <1>3, Zenon DEF Requested, InTake, InHand, Held, First, InPush, Serial
<1>5. \A j \in 0..Requested(p) - 1 : RequestAt(p, j)' = RequestAt(p, j)
  <2>1. CASE p # q
    BY <1>1, <1>2, <2>1, Zenon DEF RequestAt, TypeOK
  <2>2. CASE p = q
    <3>1. /\ request_wptr[q] \in Pointers /\ request_rptr[q] \in Pointers
          /\ Distance(request_wptr[q], request_rptr[q]) \in Nat /\ QSize \in Nat
      BY <1>2, RingNats, QueueAssumption, Zenon DEF TypeOK
    <3>2. \A j \in 0..Requested(q) - 1 : Slot(request_rptr[q] + j) # Slot(request_wptr[q])
      BY <1>1, <3>1, RingSlots, SMTT(30) DEF Requested
    <3> QED
      BY <1>1, <1>2, <2>2, <3>2, SMTT(30) DEF RequestAt, TypeOK
  <2> QED
    BY <2>1, <2>2, Zenon
<1>6. Pending(p)' = Pending(p)
  BY <1>4, <1>5, PendingSame, Zenon
<1>7. Ready(p)' = Ready(p)
  BY <1>1, <1>4, ReadySame, Zenon DEF ResponseAt
<1> QED
  BY <1>4, <1>6, <1>7, Zenon DEF Quiet

(* The serial number was counted when the request was processed.             *)
LEMMA SerialQuiet ==
  ASSUME ChannelInv, ChannelShape, ChannelShape', NEW p \in Queues, AdvanceSerial
  PROVE  Quiet(p)
<1>1. /\ UNCHANGED <<ring_vars, host, wq, request, response>> /\ pc = "serial" /\ pc' = "requests"
      /\ last_serial' = [last_serial EXCEPT ![wq] = IF command_writes_serial(request)
                                                    THEN @ ELSE (@ + 1) % SerialMod]
  BY Zenon DEF AdvanceSerial
<1>2. TypeOK
  BY Zenon DEF ChannelInv, RingInv
<1>3. Serial(p)' = Serial(p)
  BY <1>1, <1>2, SerialTypes, Zenon DEF Serial
<1>4. /\ Requested(p)' = Requested(p) /\ InTake(p)' = 0 /\ InTake(p) = 0
      /\ Held(p)' = Held(p) /\ First(p)' = First(p) /\ InPush(p)' = 0 /\ InPush(p) = 0
  BY <1>1, Zenon DEF Requested, InTake, InHand, Held, First, InPush
<1>5. Pending(p)' = Pending(p)
  BY <1>1, <1>4, PendingSame, Zenon DEF RequestAt
<1>6. Ready(p)' = Ready(p)
  BY <1>1, <1>4, ReadySame, Zenon DEF ResponseAt
<1> QED
  BY <1>3, <1>5, <1>6, Zenon DEF Quiet

(* A host that frees the slot of a response it has collected.                *)
LEMMA FreeQuiet ==
  ASSUME ChannelInv, ChannelShape, ChannelShape', NEW q \in Queues, NEW p \in Queues, HostFree(q)
  PROVE  Quiet(p)
<1>1. /\ UNCHANGED <<request_wptr, request_rptr, response_wptr, request_queue, response_queue,
                     last_serial, work_vars>>
      /\ host[q] = "free" /\ response_rptr' = [response_rptr EXCEPT ![q] = Bump(@)]
      /\ host' = [host EXCEPT ![q] = IF RingOnPop THEN "ring" ELSE "idle"]
  BY Zenon DEF HostFree
<1>2. TypeOK
  BY Zenon DEF ChannelInv, RingInv
<1>3. /\ Requested(p)' = Requested(p) /\ InTake(p)' = InTake(p) /\ InPush(p)' = InPush(p)
      /\ Serial(p)' = Serial(p) /\ request' = request /\ response' = response
  BY <1>1, Zenon DEF Requested, InTake, InHand, InPush, Serial
<1>4. Pending(p)' = Pending(p)
  BY <1>1, <1>3, PendingSame, Zenon DEF RequestAt
<1>5. CASE p # q
  <2>1. Held(p)' = Held(p) /\ First(p)' = First(p) /\ response_rptr'[p] = response_rptr[p]
    BY <1>1, <1>2, <1>5, RingTypes, Zenon DEF Held, First
  <2>2. Ready(p)' = Ready(p)
    BY <1>1, <1>3, <2>1, ReadySame, Zenon DEF ResponseAt
  <2> QED
    BY <1>3, <1>4, <2>2, Zenon DEF Quiet
<1>6. CASE p = q
  <2>1. /\ response_wptr[q] \in Pointers /\ response_rptr[q] \in Pointers /\ QSize \in Nat
        /\ response_rptr[q] \in Nat /\ Bump(response_rptr[q]) \in Pointers
        /\ Distance(response_wptr[q], response_rptr[q]) > 0
        /\ Distance(response_wptr[q], response_rptr[q]) <= QSize
        /\ Distance(response_wptr[q], response_rptr[q]) \in Nat
    <3>1. /\ response_wptr[q] \in Pointers /\ response_rptr[q] \in Pointers /\ QSize \in Nat
          /\ Distance(response_wptr[q], response_rptr[q]) \in Nat
      BY <1>2, RingNats, RingTypes, Zenon
    <3>2. /\ Distance(response_wptr[q], response_rptr[q]) > 0
          /\ Distance(response_wptr[q], response_rptr[q]) <= QSize
      BY <1>1, Zenon DEF ChannelInv, RingInv, SlotReserved, NoOverrun
    <3>3. response_rptr[q] \in Nat
      BY <3>1, QueueAssumption, SMTT(30) DEF Pointers, Wrap
    <3> QED
      BY <3>1, <3>2, <3>3, PointerType, Zenon
  <2>2. Distance(response_wptr[q], Bump(response_rptr[q]))
          = Distance(response_wptr[q], response_rptr[q]) - 1
    BY <1>2, <2>1, RingFacts, Zenon
  <2>3. First(q) = 1 /\ First(q)' = 0 /\ response_rptr'[q] = Bump(response_rptr[q])
    BY <1>1, <1>2, RingTypes, Zenon DEF First
  <2>4. Held(q)' = Held(q)
    BY <1>1, <2>1, <2>2, <2>3, SMTT(30) DEF Held
  <2>5. \A j \in 0..QSize - 1 : Slot(Bump(response_rptr[q]) + j) = Slot(response_rptr[q] + j + 1)
    BY <2>1, RingSlots, Zenon
  <2>6. \A j \in 0..Held(q) - 1 : response_queue'[q][Slot(response_rptr'[q] + (First(q)' + j))]
                                    = ResponseAt(q, First(q) + j)
    <3> SUFFICES ASSUME NEW j \in 0..Held(q) - 1
                 PROVE  response_queue[q][Slot(Bump(response_rptr[q]) + (0 + j))]
                          = response_queue[q][Slot(response_rptr[q] + (1 + j))]
      BY <1>1, <2>3, Zenon DEF ResponseAt
    <3>1. Held(q) <= QSize /\ Held(q) \in Int
      BY <2>1, <2>3, SMTT(30) DEF Held
    <3>2. /\ j \in 0..QSize - 1 /\ response_rptr[q] + j + 1 = response_rptr[q] + (1 + j)
          /\ 0 + j = j
      BY <2>1, <3>1, SMTT(30)
    <3> QED
      BY <2>5, <3>2, Zenon
  <2>7. Ready(q)' = Ready(q)
    BY <1>3, <1>6, <2>4, <2>6, ReadySame, Zenon
  <2> QED
    BY <1>3, <1>4, <1>6, <2>7, Zenon DEF Quiet
<1> QED
  BY <1>5, <1>6, Zenon

(* The response is written into a slot beyond the ring.                      *)
LEMMA PushEntryQuiet ==
  ASSUME ChannelInv, ChannelShape, ChannelShape', NEW p \in Queues, PushEntry
  PROVE  Quiet(p)
<1>1. /\ UNCHANGED <<request_wptr, response_rptr, request_rptr, response_wptr, request_queue,
                     last_serial, wq, request, response, host>>
      /\ pc = "push" /\ pc' = "pushed"
      /\ response_queue' = [response_queue EXCEPT ![wq][Slot(response_wptr[wq])] = response]
  BY Zenon DEF PushEntry
<1>2. TypeOK /\ wq \in Queues
  BY Zenon DEF ChannelInv, RingInv, TypeOK
<1>3. /\ Requested(p)' = Requested(p) /\ InTake(p)' = InTake(p) /\ Held(p)' = Held(p)
      /\ InPush(p)' = InPush(p) /\ First(p)' = First(p) /\ Serial(p)' = Serial(p)
  BY <1>1, Zenon DEF Requested, InTake, InHand, Held, First, InPush, Serial
<1>4. Pending(p)' = Pending(p)
  BY <1>1, <1>3, PendingSame, Zenon DEF RequestAt
<1>5. \A j \in 0..Held(p) - 1 : response_queue'[p][Slot(response_rptr'[p] + (First(p)' + j))]
                                  = ResponseAt(p, First(p) + j)
  <2>1. CASE p # wq
    BY <1>1, <1>2, <1>3, <2>1, Zenon DEF ResponseAt, TypeOK
  <2>2. CASE p = wq
    <3>1. /\ response_wptr[p] \in Pointers /\ response_rptr[p] \in Pointers /\ QSize \in Nat
          /\ Distance(response_wptr[p], response_rptr[p]) < QSize
          /\ Distance(response_wptr[p], response_rptr[p]) \in Nat
      BY <1>1, <1>2, <2>2, RingNats, QueueAssumption, Zenon
      DEF TypeOK, ChannelInv, RingInv, SlotReserved
    <3>2. \A j \in 0..Distance(response_wptr[p], response_rptr[p]) - 1 :
            Slot(response_rptr[p] + j) # Slot(response_wptr[p])
      BY <3>1, RingSlots, SMTT(30)
    <3>3. ASSUME NEW j \in 0..Held(p) - 1
          PROVE  Slot(response_rptr[p] + (First(p) + j)) # Slot(response_wptr[p])
      <4>1. First(p) \in 0..1 /\ Held(p) \in Int
            /\ Held(p) = Distance(response_wptr[p], response_rptr[p]) - First(p)
        BY <3>1, SMTT(30) DEF First, Held
      <4>2. First(p) + j \in 0..Distance(response_wptr[p], response_rptr[p]) - 1
        BY <3>1, <4>1, SMTT(30)
      <4> QED
        BY <3>2, <4>2, Zenon
    <3> QED
      BY <1>1, <1>2, <1>3, <2>2, <3>3, SMTT(30) DEF ResponseAt, TypeOK
  <2> QED
    BY <2>1, <2>2, Zenon
<1>6. Ready(p)' = Ready(p)
  BY <1>1, <1>3, <1>5, ReadySame, Zenon
<1> QED
  BY <1>3, <1>4, <1>6, Zenon DEF Quiet

(* The read pointer passes the request that the handler has copied.          *)
LEMMA PopQuiet ==
  ASSUME ChannelInv, ChannelShape, ChannelShape', NEW p \in Queues, PopPointer
  PROVE  Quiet(p)
<1>1. /\ UNCHANGED <<request_wptr, response_rptr, response_wptr, request_queue, response_queue,
                     last_serial, wq, request, response, host>>
      /\ pc = "popped" /\ pc' = "process"
      /\ request_rptr' = [request_rptr EXCEPT ![wq] = Bump(@)]
  BY Zenon DEF PopPointer, host_vars
<1>2. TypeOK /\ wq \in Queues
  BY Zenon DEF ChannelInv, RingInv, TypeOK
<1>3. /\ Held(p)' = Held(p) /\ InPush(p)' = InPush(p) /\ First(p)' = First(p)
      /\ Serial(p)' = Serial(p)
  BY <1>1, Zenon DEF InHand, Held, First, InPush, Serial
<1>4. Ready(p)' = Ready(p)
  BY <1>1, <1>3, ReadySame, Zenon DEF ResponseAt
<1>5. CASE p # wq
  <2>1. Requested(p)' = Requested(p) /\ InTake(p)' = InTake(p)
        /\ request_rptr'[p] = request_rptr[p]
    BY <1>1, <1>2, <1>5, RingTypes, Zenon DEF Requested, InTake, InHand
  <2>2. Pending(p)' = Pending(p)
    BY <1>1, <2>1, PendingSame, Zenon DEF RequestAt
  <2> QED
    BY <1>3, <1>4, <2>2, Zenon DEF Quiet
<1>6. CASE p = wq
  <2>1. /\ request_wptr[p] \in Pointers /\ request_rptr[p] \in Pointers
        /\ Distance(request_wptr[p], request_rptr[p]) \in Nat
    BY <1>2, RingNats, RingTypes, Zenon
  <2>2. /\ Distance(request_wptr[p], request_rptr[p]) > 0
        /\ Distance(request_wptr[p], request_rptr[p]) <= QSize
    BY <1>1, <1>6, Zenon DEF ChannelInv, RingInv, SlotReserved, NoOverrun
  <2>3. PICK n \in Nat, r \in Nat : n = Requested(p) /\ r = request_rptr[p]
    BY <2>1, QueueAssumption, SMTT(30) DEF Requested, Pointers, Wrap
  <2>4. InTake(p) = 0 /\ InTake(p)' = 1 /\ request_rptr'[p] = Bump(r)
    BY <1>1, <1>2, <1>6, <2>3, RingTypes, Zenon DEF InTake, InHand
  <2>5. Requested(p)' = n - 1 /\ n > 0 /\ n <= QSize
    BY <1>1, <1>2, <2>2, <2>3, <2>4, RingFacts, Zenon DEF Requested
  <2>6. /\ \A j \in 0..QSize - 1 : Slot(Bump(r) + j) = Slot(r + j + 1)
        /\ QSize \in Nat
    BY <2>1, <2>2, <2>3, RingSlots, QueueAssumption, SMTT(30)
  <2>7. /\ Pending(p) \in Seq(Message) /\ Len(Pending(p)) = n
        /\ Pending(p)' \in Seq(Message) /\ Len(Pending(p)') = n
        /\ \A i \in 1..n : Pending(p)[i] = RequestAt(p, i - 0 - 1)
        /\ \A i \in 1..n : Pending(p)'[i] = IF i <= 1 THEN request' ELSE RequestAt(p, i - 1 - 1)'
    <3>1. /\ Pending(p) \in Seq(Message) /\ Len(Pending(p)) = n + 0
          /\ \A i \in 1..n + 0 :
               Pending(p)[i] = IF i <= 0 THEN request ELSE RequestAt(p, i - 0 - 1)
      <4>1. PICK x, y : x = Requested(p) /\ y = InTake(p)
        BY Zenon
      <4>2. /\ Pending(p) \in Seq(Message) /\ Len(Pending(p)) = x + y
            /\ \A i \in 1..x + y :
                 Pending(p)[i] = IF i <= y THEN request ELSE RequestAt(p, i - y - 1)
        BY <4>1, PendingNow, SMTT(30)
      <4>3. x = n /\ y = 0
        BY <4>1, <2>3, <2>4, Zenon
      <4> QED
        BY <4>2, <4>3, Zenon
    <3>2. /\ Pending(p)' \in Seq(Message) /\ Len(Pending(p)') = (n - 1) + 1
          /\ \A i \in 1..(n - 1) + 1 :
               Pending(p)'[i] = IF i <= 1 THEN request' ELSE RequestAt(p, i - 1 - 1)'
      <4>1. PICK x, y : x = Requested(p)' /\ y = InTake(p)'
        BY Zenon
      <4>2. /\ Pending(p)' \in Seq(Message) /\ Len(Pending(p)') = x + y
            /\ \A i \in 1..x + y :
                 Pending(p)'[i] = IF i <= y THEN request' ELSE RequestAt(p, i - y - 1)'
        BY <4>1, PendingNext, SMTT(30)
      <4>3. x = n - 1 /\ y = 1
        BY <4>1, <2>4, <2>5, Zenon
      <4> QED
        BY <4>2, <4>3, Zenon
    <3>3. n + 0 = n /\ (n - 1) + 1 = n /\ \A i \in 1..n : ~(i <= 0)
      BY SMTT(30)
    <3> QED
      BY <3>1, <3>2, <3>3, Zenon
  <2>8. ASSUME NEW i \in 1..n PROVE Pending(p)'[i] = Pending(p)[i]
    <3>1. CASE i = 1
      <4>1. Pending(p)'[i] = request
        BY <1>1, <2>7, <3>1, SMTT(30)
      <4>2. Pending(p)[i] = request_queue[p][Slot(r + 0)] /\ r + 0 = r
        <5>1. Pending(p)[i] = RequestAt(p, 0)
          BY <2>7, <3>1, SMTT(30)
        <5> QED
          BY <2>3, <5>1, SMTT(30) DEF RequestAt
      <4> QED
        BY <1>1, <1>6, <2>3, <4>1, <4>2, Zenon DEF ChannelInv, HandInv
    <3>2. CASE i > 1
      <4>1. Pending(p)'[i] = request_queue[p][Slot(Bump(r) + (i - 1 - 1))]
        BY <1>1, <2>4, <2>7, <3>2, SMTT(30) DEF RequestAt
      <4>2. Pending(p)[i] = request_queue[p][Slot(r + (i - 0 - 1))]
        BY <2>3, <2>7, Zenon DEF RequestAt
      <4>3. i - 1 - 1 \in 0..QSize - 1 /\ r + (i - 1 - 1) + 1 = r + (i - 0 - 1)
        BY <2>5, <2>6, <3>2, SMTT(30)
      <4> QED
        BY <2>6, <4>1, <4>2, <4>3, Zenon
    <3> QED
      BY <3>1, <3>2, SMTT(30)
  <2>9. Pending(p)' = Pending(p)
    BY <2>7, <2>8, SeqEqual, Zenon
  <2> QED
    BY <1>3, <1>4, <2>9, Zenon DEF Quiet
<1> QED
  BY <1>5, <1>6, Zenon

-----------------------------------------------------------------------------
(* The write pointer passes the response that PushEntry has written.         *)
LEMMA PushPointerQuiet ==
  ASSUME ChannelInv, ChannelShape, ChannelShape', NEW p \in Queues, PushPointer
  PROVE  Quiet(p)
<1>1. /\ UNCHANGED <<request_wptr, response_rptr, request_rptr, request_queue, response_queue,
                     last_serial, wq, request, response, host>>
      /\ pc = "pushed" /\ pc' = "serial"
      /\ response_wptr' = [response_wptr EXCEPT ![wq] = Bump(@)]
  BY Zenon DEF PushPointer, host_vars
<1>2. TypeOK /\ wq \in Queues
  BY Zenon DEF ChannelInv, RingInv, TypeOK
<1>3. /\ Requested(p)' = Requested(p) /\ InTake(p)' = InTake(p) /\ First(p)' = First(p)
      /\ Serial(p)' = Serial(p)
  BY <1>1, Zenon DEF InHand, Requested, InTake, First, Serial
<1>4. Pending(p)' = Pending(p)
  BY <1>1, <1>3, PendingSame, Zenon DEF RequestAt
<1>5. CASE p # wq
  <2>1. Held(p)' = Held(p) /\ InPush(p)' = InPush(p)
    BY <1>1, <1>2, <1>5, RingTypes, Zenon DEF Held, First, InPush, InHand
  <2>2. Ready(p)' = Ready(p)
    BY <1>1, <1>3, <2>1, ReadySame, Zenon DEF ResponseAt
  <2> QED
    BY <1>3, <1>4, <2>2, Zenon DEF Quiet
<1>6. CASE p = wq
  <2>1. /\ response_wptr[p] \in Pointers /\ response_rptr[p] \in Pointers
        /\ Distance(response_wptr[p], response_rptr[p]) \in Nat
    BY <1>2, RingNats, RingTypes, Zenon
  <2>2. Distance(response_wptr[p], response_rptr[p]) < QSize /\ QSize \in Nat
    BY <1>1, <1>6, QueueAssumption, Zenon DEF ChannelInv, RingInv, SlotReserved
  <2>3. PICK d \in Nat, r \in Nat, n \in Nat, f \in 0..1 :
           /\ d = Distance(response_wptr[p], response_rptr[p])
           /\ r = response_rptr[p] /\ n = Held(p) /\ f = First(p)
    BY <2>1, RingTypes, ShapeNumbers, PointersAreNats, Zenon
  <2>4. InPush(p) = 1 /\ InPush(p)' = 0 /\ response_wptr'[p] = Bump(response_wptr[p])
    BY <1>1, <1>2, <1>6, RingTypes, Zenon DEF InPush, InHand
  <2>5. n = d - f /\ Held(p)' = n + 1
    <3>1. Distance(response_wptr[p], response_rptr[p])' = d + 1
      BY <1>1, <1>2, <2>2, <2>3, <2>4, RingFacts, Zenon
    <3> QED
      BY <1>3, <2>3, <3>1, SMTT(30) DEF Held
  <2>6. Slot(r + d) = Slot(response_wptr[p])
    BY <2>1, <2>2, <2>3, RingSlots, SMTT(30)
  <2>7. /\ Ready(p) \in Seq(Response) /\ Len(Ready(p)) = n + 1
        /\ Ready(p)' \in Seq(Response) /\ Len(Ready(p)') = n + 1
        /\ \A i \in 1..n + 1 : Ready(p)[i] = IF i > n THEN response ELSE ResponseAt(p, f + i - 1)
        /\ \A i \in 1..n + 1 : Ready(p)'[i] = ResponseAt(p, f + i - 1)'
    <3>1. /\ Ready(p) \in Seq(Response) /\ Len(Ready(p)) = n + 1
          /\ \A i \in 1..n + 1 : Ready(p)[i] = IF i > n THEN response ELSE ResponseAt(p, f + i - 1)
      BY <2>3, <2>4, ReadyNow, SMTT(30)
    <3>2. /\ Ready(p)' \in Seq(Response) /\ Len(Ready(p)') = (n + 1) + 0
          /\ \A i \in 1..(n + 1) + 0 :
               Ready(p)'[i] = IF i > n + 1 THEN response' ELSE ResponseAt(p, f + i - 1)'
      <4>1. PICK x, y, z : x = Held(p)' /\ y = InPush(p)' /\ z = First(p)'
        BY Zenon
      <4>2. /\ Ready(p)' \in Seq(Response) /\ Len(Ready(p)') = x + y
            /\ \A i \in 1..x + y :
                 Ready(p)'[i] = IF i > x THEN response' ELSE ResponseAt(p, z + i - 1)'
        BY <4>1, ReadyNext, SMTT(30)
      <4>3. x = n + 1 /\ y = 0 /\ z = f
        BY <4>1, <1>3, <2>3, <2>4, <2>5, Zenon
      <4> QED
        BY <4>2, <4>3, Zenon
    <3>3. (n + 1) + 0 = n + 1 /\ \A i \in 1..n + 1 : ~(i > n + 1)
      BY SMTT(30)
    <3> QED
      BY <3>1, <3>2, <3>3, Zenon
  <2>8. ASSUME NEW i \in 1..n + 1 PROVE Ready(p)'[i] = Ready(p)[i]
    <3>1. CASE i > n
      <4>1. r + (f + i - 1) = r + d
        BY <2>5, <3>1, SMTT(30)
      <4>2. Ready(p)'[i] = response_queue[p][Slot(response_wptr[p])]
        BY <1>1, <2>3, <2>6, <2>7, <4>1, SMTT(30) DEF ResponseAt
      <4> QED
        BY <1>1, <1>6, <2>7, <3>1, <4>2, Zenon DEF ChannelInv, HandInv
    <3>2. CASE ~(i > n)
      BY <1>1, <2>7, <3>2, Zenon DEF ResponseAt
    <3> QED
      BY <3>1, <3>2, Zenon
  <2>9. Ready(p)' = Ready(p)
    BY <2>7, <2>8, SeqEqual, Zenon
  <2> QED
    BY <1>3, <1>4, <2>9, Zenon DEF Quiet
<1> QED
  BY <1>5, <1>6, Zenon

(* Publishing a request submits it to the channel.                           *)
LEMMA PublishSubmits ==
  ASSUME ChannelInv, ChannelShape, ChannelShape', NEW q \in Queues, HostPublish(q)
  PROVE  \E m \in Message : Channel!Submit(q, m)
<1> DEFINE m == request_queue[q][Slot(request_wptr[q])]
<1>1. /\ UNCHANGED <<response_rptr, request_rptr, response_wptr, request_queue, response_queue,
                     last_serial, pc, wq, request, response>>
      /\ host[q] = "publish" /\ host' = [host EXCEPT ![q] = "ring"]
      /\ request_wptr' = [request_wptr EXCEPT ![q] = Bump(@)]
  BY Zenon DEF HostPublish, work_vars
<1>2. TypeOK
  BY Zenon DEF ChannelInv, RingInv
<1>3. /\ request_wptr[q] \in Pointers /\ request_rptr[q] \in Pointers
      /\ Distance(request_wptr[q], request_rptr[q]) \in Nat /\ QSize \in Nat
  BY <1>2, RingNats, RingTypes, Zenon
<1>4. Distance(request_wptr[q], request_rptr[q]) < QSize
  BY <1>1, Zenon DEF ChannelInv, RingInv, SlotReserved
<1>5. m \in Message
  BY <1>2, <1>3, PointerType, Zenon DEF TypeOK
<1>6. ASSUME NEW p \in Queues PROVE Ready(p)' = Ready(p) /\ Serial(p)' = Serial(p)
  <2>1. First(p)' = First(p)
    BY <1>1, <1>2, RingTypes, Zenon DEF First
  <2>2. Held(p)' = Held(p) /\ InPush(p)' = InPush(p) /\ Serial(p)' = Serial(p)
    BY <1>1, <2>1, Zenon DEF InHand, Held, InPush, Serial
  <2> QED
    BY <1>1, <2>1, <2>2, ReadySame, Zenon DEF ResponseAt
<1>7. ASSUME NEW p \in Queues, p # q PROVE Pending(p)' = Pending(p)
  <2>1. Requested(p)' = Requested(p) /\ InTake(p)' = InTake(p)
    BY <1>1, <1>2, <1>7, RingTypes, Zenon DEF Requested, InTake, InHand
  <2> QED
    BY <1>1, <2>1, PendingSame, Zenon DEF RequestAt
<1>8. Pending(q)' = Append(Pending(q), m)
  <2>1. PICK n \in Nat, k \in 0..1, r \in Nat :
           n = Requested(q) /\ k = InTake(q) /\ r = request_rptr[q]
    BY <1>3, ShapeNumbers, PointersAreNats, Zenon
  <2>2. InTake(q)' = k /\ Requested(q)' = n + 1
    BY <1>1, <1>2, <1>4, <2>1, RingFacts, RingTypes, Zenon DEF Requested, InTake, InHand
  <2>3. /\ Pending(q) \in Seq(Message) /\ Len(Pending(q)) = n + k
        /\ \A i \in 1..n + k : Pending(q)[i] = IF i <= k THEN request ELSE RequestAt(q, i - k - 1)
    BY <2>1, PendingNow, SMTT(30)
  <2>4. /\ Pending(q)' \in Seq(Message) /\ Len(Pending(q)') = n + 1 + k
        /\ \A i \in 1..n + 1 + k :
             Pending(q)'[i] = IF i <= k THEN request' ELSE RequestAt(q, i - k - 1)'
    BY <2>2, PendingNext, SMTT(30)
  <2>5. \A j \in Nat : RequestAt(q, j)' = RequestAt(q, j)
    BY <1>1, Zenon DEF RequestAt
  <2>6. ASSUME NEW i \in 1..n + k PROVE Pending(q)'[i] = Pending(q)[i]
    <3>1. i \in 1..n + 1 + k /\ (~(i <= k) => i - k - 1 \in Nat)
      BY SMTT(30)
    <3> QED
      BY <1>1, <2>3, <2>4, <2>5, <3>1, Zenon
  <2>7. Pending(q)'[n + k + 1] = m
    <3>1. /\ n + k + 1 \in 1..n + 1 + k /\ ~(n + k + 1 <= k) /\ n + k + 1 - k - 1 = n
      BY SMTT(30)
    <3>2. Pending(q)'[n + k + 1] = RequestAt(q, n)'
      BY <2>4, <3>1, SMTT(30)
    <3>3. Slot(r + n) = Slot(request_wptr[q])
      BY <1>3, <1>4, <2>1, RingSlots, SMTT(30) DEF Requested
    <3> QED
      BY <2>1, <2>5, <3>2, <3>3, Zenon DEF RequestAt
  <2>8. Len(Pending(q)') = Len(Pending(q)) + 1
    BY <2>3, <2>4, SMTT(30)
  <2> QED
    BY <1>5, <2>3, <2>4, <2>6, <2>7, <2>8, AppendIs, SMTT(30)
<1>9. Channel!Submit(q, m)
  <2> DEFINE P == [x \in Queues |-> Pending(x)]
             R == [x \in Queues |-> Ready(x)]
             S == [x \in Queues |-> Serial(x)]
  <2>1. P' = [P EXCEPT ![q] = Append(@, m)]
    BY <1>7, <1>8, Zenon
  <2>2. R' = R /\ S' = S
    BY <1>6, Zenon
  <2> QED
    BY <2>1, <2>2, Zenon DEF Channel!Submit
<1> QED
  BY <1>5, <1>9, Zenon

(* Reading a response collects it from the channel.                          *)
LEMMA ReadCollects ==
  ASSUME ChannelInv, ChannelShape, ChannelShape', NEW q \in Queues, HostRead(q)
  PROVE  Channel!Collect(q)
<1>1. /\ UNCHANGED <<request_wptr, response_rptr, request_rptr, response_wptr, request_queue,
                     response_queue, last_serial, pc, wq, request, response>>
      /\ host[q] = "idle" /\ host' = [host EXCEPT ![q] = "free"]
      /\ response_wptr[q] # response_rptr[q]
  BY Zenon DEF HostRead, work_vars, ring_vars
<1>2. TypeOK
  BY Zenon DEF ChannelInv, RingInv
<1>3. ASSUME NEW p \in Queues PROVE Pending(p)' = Pending(p) /\ Serial(p)' = Serial(p)
  <2>1. Requested(p)' = Requested(p) /\ InTake(p)' = InTake(p) /\ Serial(p)' = Serial(p)
    BY <1>1, Zenon DEF InHand, Requested, InTake, Serial
  <2> QED
    BY <1>1, <2>1, PendingSame, Zenon DEF RequestAt
<1>4. ASSUME NEW p \in Queues, p # q PROVE Ready(p)' = Ready(p)
  <2>1. First(p)' = First(p)
    BY <1>1, <1>2, <1>4, RingTypes, Zenon DEF First
  <2>2. Held(p)' = Held(p) /\ InPush(p)' = InPush(p)
    BY <1>1, <2>1, Zenon DEF InHand, Held, InPush
  <2> QED
    BY <1>1, <2>1, <2>2, ReadySame, Zenon DEF ResponseAt
<1>5. PICK n \in Nat, k \in 0..1 : n = Held(q) /\ k = InPush(q)
  BY ShapeNumbers, Zenon
<1>6. First(q) = 0 /\ First(q)' = 1
  BY <1>1, <1>2, RingTypes, Zenon DEF First
<1>7. n > 0 /\ n - 1 \in Nat /\ Held(q)' = n - 1 /\ InPush(q)' = k
  <2>1. PICK d \in Nat : d = Distance(response_wptr[q], response_rptr[q]) /\ d > 0
    BY <1>1, <1>2, RingFacts, Zenon
  <2>2. Distance(response_wptr[q], response_rptr[q])' = d /\ InPush(q)' = k
    BY <1>1, <1>5, <2>1, Zenon DEF InPush, InHand
  <2> QED
    BY <1>5, <1>6, <2>1, <2>2, SMTT(30) DEF Held
<1>8. /\ Ready(q) \in Seq(Response) /\ Len(Ready(q)) = n + k
      /\ \A i \in 1..n + k : Ready(q)[i] = IF i > n THEN response ELSE ResponseAt(q, 0 + i - 1)
  BY <1>5, <1>6, ReadyNow, SMTT(30)
<1>9. /\ Ready(q)' \in Seq(Response) /\ Len(Ready(q)') = (n - 1) + k
      /\ \A i \in 1..(n - 1) + k :
           Ready(q)'[i] = IF i > n - 1 THEN response' ELSE ResponseAt(q, 1 + i - 1)'
  <2>1. PICK x, y, z : x = Held(q)' /\ y = InPush(q)' /\ z = First(q)'
    BY Zenon
  <2>2. /\ Ready(q)' \in Seq(Response) /\ Len(Ready(q)') = x + y
        /\ \A i \in 1..x + y :
             Ready(q)'[i] = IF i > x THEN response' ELSE ResponseAt(q, z + i - 1)'
    BY <2>1, ReadyNext, SMTT(30)
  <2>3. x = n - 1 /\ y = k /\ z = 1
    BY <2>1, <1>6, <1>7, Zenon
  <2> QED
    BY <2>2, <2>3, Zenon
<1>10. ASSUME NEW i \in 1..(n - 1) + k PROVE Ready(q)'[i] = Ready(q)[i + 1]
  <2>1. /\ i + 1 \in 1..n + k /\ (i > n - 1 <=> i + 1 > n) /\ 1 + i - 1 = 0 + (i + 1) - 1
    BY <1>7, SMTT(30)
  <2>2. ResponseAt(q, 1 + i - 1)' = ResponseAt(q, 1 + i - 1)
    BY <1>1, Zenon DEF ResponseAt
  <2> QED
    BY <1>1, <1>8, <1>9, <2>1, <2>2, Zenon
<1>11. Ready(q) # <<>>
  BY <1>7, <1>8, SMTT(30)
<1>12. Len(Ready(q)') = Len(Ready(q)) - 1 /\ Len(Ready(q)') = (n - 1) + k
  BY <1>7, <1>8, <1>9, SMTT(30)
<1>13. Ready(q)' = Tail(Ready(q))
  BY <1>8, <1>9, <1>10, <1>11, <1>12, TailIs, Zenon
<1> DEFINE P == [x \in Queues |-> Pending(x)]
           R == [x \in Queues |-> Ready(x)]
           S == [x \in Queues |-> Serial(x)]
<1>14. P' = P /\ S' = S
  BY <1>3, Zenon
<1>15. R[q] # <<>> /\ R' = [R EXCEPT ![q] = Tail(@)]
  BY <1>4, <1>11, <1>13, Zenon
<1> QED
  BY <1>14, <1>15, Zenon DEF Channel!Collect

(* Processing a request serves it: process_queued_message answers the oldest *)
(* pending request with the serial number that the channel has for it.       *)
LEMMA ProcessServes ==
  ASSUME ChannelInv, ChannelShape, ChannelShape', Process
  PROVE  wq \in Queues /\ Channel!Serve(wq)
<1>1. /\ UNCHANGED <<request_wptr, response_rptr, request_rptr, response_wptr, request_queue,
                     response_queue, wq, request, host>>
      /\ pc = "process" /\ pc' = "push" /\ response' = Reply(request, last_serial[wq])
      /\ last_serial' = [last_serial EXCEPT ![wq] = IF command_writes_serial(request)
                                                    THEN request.value ELSE @]
  BY Zenon DEF Process, ring_vars, host_vars
<1>2. TypeOK /\ wq \in Queues
  BY Zenon DEF ChannelInv, RingInv, TypeOK
<1>3. PICK q \in Queues : q = wq
  BY <1>2, Zenon
<1>4. ASSUME NEW p \in Queues, p # q
      PROVE  Pending(p)' = Pending(p) /\ Ready(p)' = Ready(p) /\ Serial(p)' = Serial(p)
  <2>1. /\ Requested(p)' = Requested(p) /\ InTake(p)' = InTake(p) /\ Held(p)' = Held(p)
        /\ InPush(p)' = InPush(p) /\ First(p)' = First(p) /\ InPush(p) = 0 /\ InTake(p) = 0
    BY <1>1, <1>3, <1>4, Zenon DEF InHand, Requested, InTake, Held, First, InPush
  <2>2. Serial(p)' = Serial(p)
    BY <1>1, <1>2, <1>3, <1>4, SerialTypes, Zenon DEF Serial
  <2>3. Pending(p)' = Pending(p)
    BY <1>1, <2>1, PendingSame, Zenon DEF RequestAt
  <2>4. Ready(p)' = Ready(p)
    BY <1>1, <2>1, ReadySame, SMTT(30) DEF ResponseAt
  <2> QED
    BY <2>2, <2>3, <2>4, Zenon
<1>5. PICK n \in Nat, h \in Nat, f \in 0..1 : n = Requested(q) /\ h = Held(q) /\ f = First(q)
  BY ShapeNumbers, Zenon
<1>6. /\ InTake(q) = 1 /\ InTake(q)' = 0 /\ InPush(q) = 0 /\ InPush(q)' = 1
      /\ Requested(q)' = n /\ Held(q)' = h /\ First(q)' = f
  BY <1>1, <1>3, <1>5, Zenon DEF InHand, Requested, InTake, Held, First, InPush
<1>7. Serial(q) = last_serial[q] /\ Serial(q)' = SerialAfter(request, last_serial[q])
  BY <1>1, <1>2, <1>3, Zenon DEF Serial, SerialAfter, command_writes_serial, TypeOK
<1>8. /\ Pending(q) # <<>> /\ Head(Pending(q)) = request
      /\ Pending(q)' = Tail(Pending(q))
  <2>1. /\ Pending(q) \in Seq(Message) /\ Len(Pending(q)) = n + 1
        /\ \A i \in 1..n + 1 : Pending(q)[i] = IF i <= 1 THEN request ELSE RequestAt(q, i - 1 - 1)
    BY <1>5, <1>6, PendingNow, SMTT(30)
  <2>2. /\ Pending(q)' \in Seq(Message) /\ Len(Pending(q)') = n + 0
        /\ \A i \in 1..n + 0 :
             Pending(q)'[i] = IF i <= 0 THEN request' ELSE RequestAt(q, i - 0 - 1)'
    <3>1. PICK x, y : x = Requested(q)' /\ y = InTake(q)'
      BY Zenon
    <3>2. /\ Pending(q)' \in Seq(Message) /\ Len(Pending(q)') = x + y
          /\ \A i \in 1..x + y :
               Pending(q)'[i] = IF i <= y THEN request' ELSE RequestAt(q, i - y - 1)'
      BY <3>1, PendingNext, SMTT(30)
    <3>3. x = n /\ y = 0
      BY <3>1, <1>6, Zenon
    <3> QED
      BY <3>2, <3>3, Zenon
  <2>3. ASSUME NEW i \in 1..n + 0 PROVE Pending(q)'[i] = Pending(q)[i + 1]
    <3>1. i + 1 \in 1..n + 1 /\ ~(i + 1 <= 1) /\ ~(i <= 0) /\ i - 0 - 1 = (i + 1) - 1 - 1
      BY SMTT(30)
    <3>2. RequestAt(q, i - 0 - 1)' = RequestAt(q, i - 0 - 1)
      BY <1>1, Zenon DEF RequestAt
    <3> QED
      BY <2>1, <2>2, <3>1, <3>2, Zenon
  <2>4. Pending(q) # <<>> /\ Pending(q)[1] = request
    BY <2>1, SMTT(30)
  <2>5. Len(Pending(q)') = Len(Pending(q)) - 1
    BY <2>1, <2>2, SMTT(30)
  <2>6. Pending(q)' = Tail(Pending(q))
    BY <2>1, <2>2, <2>3, <2>4, <2>5, TailIs, Zenon
  <2> QED
    BY <2>1, <2>4, <2>6, SMTT(30)
<1>9. Ready(q)' = Append(Ready(q), Reply(request, last_serial[q]))
  <2>1. /\ Ready(q) \in Seq(Response) /\ Len(Ready(q)) = h + 0
        /\ \A i \in 1..h + 0 : Ready(q)[i] = IF i > h THEN response ELSE ResponseAt(q, f + i - 1)
    BY <1>5, <1>6, ReadyNow, SMTT(30)
  <2>2. /\ Ready(q)' \in Seq(Response) /\ Len(Ready(q)') = h + 1
        /\ \A i \in 1..h + 1 : Ready(q)'[i] = IF i > h THEN response' ELSE ResponseAt(q, f + i - 1)'
    <3>1. PICK x, y, z : x = Held(q)' /\ y = InPush(q)' /\ z = First(q)'
      BY Zenon
    <3>2. /\ Ready(q)' \in Seq(Response) /\ Len(Ready(q)') = x + y
          /\ \A i \in 1..x + y :
               Ready(q)'[i] = IF i > x THEN response' ELSE ResponseAt(q, z + i - 1)'
      BY <3>1, ReadyNext, SMTT(30)
    <3>3. x = h /\ y = 1 /\ z = f
      BY <3>1, <1>6, Zenon
    <3> QED
      BY <3>2, <3>3, Zenon
  <2>3. h + 0 = h
    BY SMTT(30)
  <2>4. ASSUME NEW i \in 1..h PROVE Ready(q)'[i] = Ready(q)[i]
    <3>1. i \in 1..h + 1 /\ ~(i > h)
      BY SMTT(30)
    <3>2. ResponseAt(q, f + i - 1)' = ResponseAt(q, f + i - 1)
      BY <1>1, Zenon DEF ResponseAt
    <3> QED
      BY <2>1, <2>2, <2>3, <3>1, <3>2, Zenon
  <2>5. Ready(q)'[h + 1] = response' /\ response' = Reply(request, last_serial[q])
    BY <1>1, <1>3, <2>2, SMTT(30)
  <2>6. response' \in Response
    BY <2>2, <2>5, SMTT(30)
  <2> QED
    BY <2>1, <2>2, <2>3, <2>4, <2>5, <2>6, AppendIs, SMTT(30)
<1> DEFINE P == [x \in Queues |-> Pending(x)]
           R == [x \in Queues |-> Ready(x)]
           S == [x \in Queues |-> Serial(x)]
<1>10. P[q] # <<>> /\ Head(P[q]) = request /\ P' = [P EXCEPT ![q] = Tail(@)]
  BY <1>4, <1>8, Zenon
<1>11. S[q] = last_serial[q] /\ S' = [S EXCEPT ![q] = SerialAfter(request, @)]
  BY <1>4, <1>7, Zenon
<1>12. R' = [R EXCEPT ![q] = Append(@, Reply(request, last_serial[q]))]
  BY <1>4, <1>9, Zenon
<1>13. Channel!Serve(q)
  BY <1>10, <1>11, <1>12, Zenon DEF Channel!Serve
<1> QED
  BY <1>3, <1>13, Zenon

(* The empty rings of prepare_msg_queue are the empty channel.               *)
LEMMA ChannelInit == Init => Channel!Init
<1> SUFFICES ASSUME Init PROVE Channel!Init
  BY Zenon
<1>1. ASSUME NEW q \in Queues PROVE Pending(q) = <<>> /\ Ready(q) = <<>> /\ Serial(q) = 0
  <2>1. Distance(0, 0) = 0
    <3>1. 0 \in Pointers
      BY QueueAssumption, SMTT(30) DEF Pointers, Wrap
    <3> QED
      BY <3>1, DistanceValue, SMTT(30)
  <2>2. Requested(q) = 0 /\ InTake(q) = 0 /\ Held(q) = 0 /\ InPush(q) = 0 /\ Serial(q) = 0
    BY <2>1, SMTT(30) DEF Init, Requested, InTake, Held, First, InPush, InHand, Serial
  <2>3. ChannelShape
    BY RingInit, ChannelShaped, Zenon
  <2>4. Len(Pending(q)) = 0 /\ Len(Ready(q)) = 0
        /\ Pending(q) \in Seq(Message) /\ Ready(q) \in Seq(Response)
    BY <2>2, <2>3, SMTT(30) DEF ChannelShape
  <2> QED
    BY <2>2, <2>4, SMTT(30)
<1> QED
  BY <1>1, Zenon DEF Channel!Init

(* Every step of the rings, the doorbells and the handlers is a step of the  *)
(* channel or leaves it alone.                                               *)
LEMMA ChannelStep == ChannelInv /\ [Next]_vars => [Channel!Next]_(Channel!vars)
<1> SUFFICES ASSUME ChannelInv, [Next]_vars PROVE [Channel!Next]_(Channel!vars)
  BY Zenon
<1>1. RingInv /\ RingInv'
  BY RingNext, Zenon DEF ChannelInv
<1>2. ChannelShape
  BY <1>1, ChannelShaped, Zenon
<1>3. ChannelShape'
  BY <1>1, ChannelShaped, PTL
<1>4. TypeOK
  BY <1>1, Zenon DEF RingInv
<1>5. (\A p \in Queues : Quiet(p)) => UNCHANGED Channel!vars
  BY Zenon DEF Quiet, Channel!vars
<1>6. ASSUME NEW q \in Queues, Host(q) PROVE [Channel!Next]_(Channel!vars)
  <2>1. ASSUME NEW m \in Requests, HostWrite(q, m) PROVE \A p \in Queues : Quiet(p)
    BY <1>2, <1>3, <2>1, WriteQuiet, Zenon
  <2>2. CASE HostPublish(q)
    BY <1>2, <1>3, <2>2, PublishSubmits, Zenon DEF Channel!Next
  <2>3. ASSUME HostRing(q) PROVE \A p \in Queues : Quiet(p)
    <3>1. /\ UNCHANGED <<ring_vars, last_serial, work_vars>>
          /\ \A p \in Queues : host'[p] = "free" <=> host[p] = "free"
      BY <1>4, <2>3, Zenon DEF HostRing, TypeOK
    <3> QED
      BY <1>2, <1>3, <3>1, BellQuiet, Zenon
  <2>4. CASE HostRead(q)
    BY <1>2, <1>3, <2>4, ReadCollects, Zenon DEF Channel!Next
  <2>5. ASSUME HostFree(q) PROVE \A p \in Queues : Quiet(p)
    BY <1>2, <1>3, <2>5, FreeQuiet, Zenon
  <2> QED
    BY <1>5, <1>6, <2>1, <2>2, <2>3, <2>4, <2>5, Zenon DEF Host
<1>7. ASSUME OtherMsi \/ Isr \/ UNCHANGED vars PROVE \A p \in Queues : Quiet(p)
  <2>1. UNCHANGED <<ring_vars, last_serial, work_vars, host>>
    BY <1>7, Zenon DEF OtherMsi, Isr, ClearMsgIrq, MsiEnter, MsiPop, MsiDone, MsiOverflow,
                MboxCallback, Submit, vars, host_vars
  <2> QED
    BY <1>2, <1>3, <2>1, BellQuiet, Zenon
<1>8. ASSUME Worker PROVE [Channel!Next]_(Channel!vars)
  <2>1. ASSUME WorkStart \/ CheckRequests \/ CheckSlot \/ PopEntry
        PROVE  \A p \in Queues : Quiet(p)
    BY <1>2, <1>3, <2>1, ScanQuiet, Zenon
  <2>2. ASSUME PopPointer PROVE \A p \in Queues : Quiet(p)
    BY <1>2, <1>3, <2>2, PopQuiet, Zenon
  <2>3. CASE Process
    BY <1>2, <1>3, <2>3, ProcessServes, Zenon DEF Channel!Next
  <2>4. ASSUME PushEntry PROVE \A p \in Queues : Quiet(p)
    BY <1>2, <1>3, <2>4, PushEntryQuiet, Zenon
  <2>5. ASSUME PushPointer PROVE \A p \in Queues : Quiet(p)
    BY <1>2, <1>3, <2>5, PushPointerQuiet, Zenon
  <2>6. ASSUME AdvanceSerial PROVE \A p \in Queues : Quiet(p)
    BY <1>2, <1>3, <2>6, SerialQuiet, Zenon
  <2> QED
    BY <1>5, <1>8, <2>1, <2>2, <2>3, <2>4, <2>5, <2>6, Zenon DEF Worker
<1> QED
  BY <1>5, <1>6, <1>7, <1>8, Zenon DEF Next

(* The message queues of lib/tenstorrent/fw_common/msgqueue.c implement the *)
(* channel: whatever the number of queues, the size of the rings, the        *)
(* doorbells and the requests, process_message_queue answers each request    *)
(* once, in the order of submission, with the reply and the serial number    *)
(* that the requests before it determine, and the host collects the answers  *)
(* in that order.                                                            *)
THEOREM ChannelImplemented == Spec => ImplementsChannel
<1>1. Init => ChannelInv
  BY RingInit, Zenon DEF ChannelInv, HandInv, Init
<1> QED
  BY <1>1, ChannelInit, ChannelInvNext, ChannelStep, PTL
  DEF Spec, ImplementsChannel, Channel!Spec
=============================================================================
