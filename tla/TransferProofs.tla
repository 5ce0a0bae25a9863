--------------------------- MODULE TransferProofs ---------------------------
(* TLAPS proofs about transfers between the chip's parts. For any number of  *)
(* message ids, any payloads and any width of the sequence number, over a    *)
(* bus that may lose every transfer and with restarts of the SMC at any      *)
(* moment, the DMC acts on each of the SMC's messages exactly once and the   *)
(* final value posted for an id is never lost. The fan control over those    *)
(* messages keeps the fan at full duty after a trip. A NOC DMA start that    *)
(* reports success has moved every block, whatever its counters wrap         *)
(* through, and so has a copy by the ARC's DMA.                              *)
EXTENDS FanCtrl, NocDma, ArcDma, TLAPS

USE DEF smc_vars, last_vars

(* The successor of a sequence number is another sequence number: with at    *)
(* least two of them, a repeat is told from a new message.                   *)
LEMMA SuccDiffers ==
  ASSUME NEW n \in Seqs
  PROVE  Succ(n) \in Seqs /\ Succ(n) # n
<1>1. (n + 1) % SeqNumMod = IF n + 1 = SeqNumMod THEN 0 ELSE n + 1
  BY Cm2DmAssumption, SMTT(30) DEF Seqs
<1> QED
  BY <1>1, Cm2DmAssumption, SMTT(30) DEF Succ, Seqs

(* The zeroed message is a message.                                          *)
LEMMA NoMsgType == NoMsg \in Message
<1>1. 0 \in Seqs
  BY Cm2DmAssumption, SMTT(30) DEF Seqs
<1> QED
  BY <1>1, Zenon DEF NoMsg, Message, Null

(* A fresh SMC has an empty, typed state.                                    *)
LEMMA RestartType ==
  ASSUME TypeOK, SmcRestarts
  PROVE  /\ pending_messages' \subseteq Ids /\ posting' \subseteq Ids
         /\ next_msgs' \in [Ids -> Data \cup {NoData}]
         /\ next_id_rr' \in 0..MsgCount - 1 /\ next_seq_num' \in Seqs
         /\ curr_msg_valid' \in BOOLEAN /\ curr_msg' \in Message
         /\ sel' \in Ids \cup {Null} /\ unacted' \in Int
<1>1. 0 \in Seqs /\ 0 \in 0..MsgCount - 1
  BY Cm2DmAssumption, SMTT(30) DEF Seqs
<1>2. [id \in Ids |-> NoData] \in [Ids -> Data \cup {NoData}]
  BY Zenon
<1>3. /\ pending_messages' \subseteq Ids /\ posting' \subseteq Ids
      /\ next_msgs' \in [Ids -> Data \cup {NoData}]
  BY <1>2, Zenon DEF SmcRestarts
<1>4. /\ next_id_rr' \in 0..MsgCount - 1 /\ next_seq_num' \in Seqs
      /\ unacted' \in Int
  BY <1>1, SMTT(30) DEF SmcRestarts
<1>5. /\ curr_msg_valid' \in BOOLEAN /\ curr_msg' \in Message
      /\ sel' \in Ids \cup {Null}
  BY NoMsgType, Zenon DEF SmcRestarts
<1> QED
  BY <1>3, <1>4, <1>5, Zenon

(* The initial state is typed.                                               *)
LEMMA InitType == Init => TypeOK
<1>1. 0 \in Seqs /\ 0 \in 0..MsgCount - 1 /\ 0 \in 0..MsgCount
  BY Cm2DmAssumption, SMTT(30) DEF Seqs
<1>2. [id \in Ids |-> NoData] \in [Ids -> Data \cup {NoData}]
  BY Zenon
<1> SUFFICES ASSUME Init PROVE TypeOK
  BY Zenon
<1>3. /\ pending_messages \subseteq Ids /\ posting \subseteq Ids
      /\ next_msgs \in [Ids -> Data \cup {NoData}]
      /\ delivered \in [Ids -> Data \cup {NoData}]
  BY <1>2, Zenon DEF Init, SmcStart
<1>4. /\ next_id_rr \in 0..MsgCount - 1 /\ next_seq_num \in Seqs
      /\ i \in 0..MsgCount /\ unacted \in Int
      /\ last_cm2dm_seq_num \in Seqs
  BY <1>1, SMTT(30) DEF Init, SmcStart
<1>5. /\ curr_msg_valid \in BOOLEAN /\ curr_msg \in Message
      /\ sel \in Ids \cup {Null} /\ msg \in Message
      /\ last_cm2dm_seq_num_valid \in BOOLEAN /\ perst \in BOOLEAN
      /\ pc = "loop"
  BY NoMsgType, Zenon DEF Init, SmcStart
<1> QED
  BY <1>3, <1>4, <1>5, Zenon DEF TypeOK

(* Every step keeps the types.                                               *)
LEMMA NextType == TypeOK /\ [Next]_vars => TypeOK'
<1> SUFFICES ASSUME TypeOK, [Next]_vars PROVE TypeOK'
  BY Zenon
<1>1. ASSUME NEW id \in Ids, NEW d \in Data, PostData(id, d) PROVE TypeOK'
  BY <1>1, Zenon DEF PostData, TypeOK
<1>2. ASSUME NEW id \in Ids, PostBit(id) PROVE TypeOK'
  BY <1>2, Zenon DEF PostBit, TypeOK
<1>3. CASE ReqSelect
  <2>1. PICK id \in Search(pending_messages, next_id_rr) :
               sel' = id /\ next_id_rr' = (id + 1) % MsgCount
    BY <1>3, Zenon DEF ReqSelect
  <2>2. id \in Ids
    BY <2>1, Zenon DEF Search, TypeOK
  <2>3. (id + 1) % MsgCount \in 0..MsgCount - 1
    BY <2>2, Cm2DmAssumption, SMTT(30) DEF Ids
  <2> QED
    BY <1>3, <2>1, <2>2, <2>3, Zenon DEF ReqSelect, TypeOK
<1>4. CASE ReqKeep
  BY <1>4, Zenon DEF ReqKeep, TypeOK
<1>5. CASE ReqClear
  BY <1>5, Zenon DEF ReqClear, TypeOK
<1>6. CASE ReqLoad
  <2>1. next_seq_num' \in Seqs
    BY <1>6, SuccDiffers, Zenon DEF ReqLoad, Succ, TypeOK
  <2>2. sel \in Ids /\ next_msgs[sel] \in Data \cup {NoData}
    BY <1>6, Zenon DEF ReqLoad, TypeOK
  <2>3. curr_msg' \in Message
    BY <1>6, <2>2, Zenon DEF ReqLoad, TypeOK, Message
  <2> QED
    BY <1>6, <2>1, <2>3, SMTT(30) DEF ReqLoad, TypeOK
<1>7. CASE Poll
  BY <1>7, Cm2DmAssumption, SMTT(30) DEF Poll, TypeOK
<1>8. CASE ReadReaches
  BY <1>8, Zenon DEF ReadReaches, TypeOK
<1>9. CASE ReadLost
  BY <1>9, Zenon DEF ReadLost, TypeOK
<1>10. CASE Reply
  BY <1>10, Zenon DEF Reply, TypeOK
<1>11. CASE AckReaches
  BY <1>11, NoMsgType, Zenon DEF AckReaches, AckHandler, TypeOK
<1>12. CASE AckLost
  BY <1>12, Zenon DEF AckLost, TypeOK
<1>13. CASE Duplicate
  BY <1>13, Cm2DmAssumption, SMTT(30) DEF Duplicate, NextRound, TypeOK
<1>14. CASE Process
  <2>1. msg.seq_num \in Seqs /\ msg.data \in Data \cup {NoData}
    BY Zenon DEF TypeOK, Message
  <2>2. delivered' \in [Ids -> Data \cup {NoData}] /\ unacted' \in Int
    <3>1. unacted \in Int /\ unacted' \in {unacted, unacted - 1}
      BY <1>14, Zenon DEF Process, TypeOK
    <3>2. /\ delivered \in [Ids -> Data \cup {NoData}]
          /\ delivered' = [delivered EXCEPT ![msg.msg_id] = msg.data]
      BY <1>14, Zenon DEF Process, TypeOK
    <3>3. delivered' \in [Ids -> Data \cup {NoData}]
      BY <2>1, <3>2, Zenon
    <3> QED
      BY <3>1, <3>3, SMTT(30)
  <2>3. /\ i' \in 0..MsgCount /\ pc' \in {"loop", "read"}
        /\ i' < MsgCount \/ pc' = "loop"
    BY <1>14, Cm2DmAssumption, SMTT(30) DEF Process, NextRound, TypeOK
  <2>4. last_cm2dm_seq_num' \in Seqs /\ last_cm2dm_seq_num_valid' \in BOOLEAN
    BY <1>14, <2>1, Zenon DEF Process
  <2>5. UNCHANGED <<smc_vars, msg, perst>>
    BY <1>14, Zenon DEF Process
  <2> QED
    BY <2>2, <2>3, <2>4, <2>5, Zenon DEF TypeOK
<1>15. CASE ProcessReset
  BY <1>15, RestartType, Zenon DEF ProcessReset, ResetChip, TypeOK
<1>16. CASE UrgentReset
  BY <1>16, RestartType, Zenon DEF UrgentReset, ResetChip, TypeOK
<1>17. CASE NoReset
  BY <1>17, Zenon DEF NoReset, TypeOK
<1>18. CASE Perst
  BY <1>18, RestartType, Zenon DEF Perst, TypeOK
<1>19. CASE UNCHANGED vars
  BY <1>19, Zenon DEF vars, TypeOK
<1> QED
  BY <1>1, <1>2, <1>3, <1>4, <1>5, <1>6, <1>7, <1>8, <1>9, <1>10, <1>11, Zenon,
     <1>12, <1>13, <1>14, <1>15, <1>16, <1>17, <1>18, <1>19
  DEF Next, Post, Request, Transfer, Act, Urgent

(* Every variable of the two sides keeps its type.                           *)
THEOREM Cm2DmTypeCorrect == Spec => []TypeOK
  BY InitType, NextType, PTL DEF Spec
-----------------------------------------------------------------------------
(* Each lemma below shows that a step keeps one part of what the sides know  *)
(* of each other; the steps that only move the DMC's program counter, and    *)
(* the resets, are taken together.                                           *)
Moves == ReqKeep \/ Poll \/ ReadReaches \/ ReadLost \/ NoReset \/ UNCHANGED vars
Restarts == ProcessReset \/ UrgentReset \/ Perst

(* The sequence numbers of the two sides keep agreeing.                      *)
LEMMA SeqStep ==
  ASSUME TypeOK, SidesAgree, [Next]_vars
  PROVE  (~perst => SeqAgrees)'
<1>1. ASSUME NEW id \in Ids, NEW d \in Data, PostData(id, d) PROVE (~perst => SeqAgrees)'
  BY <1>1, Zenon DEF PostData, SidesAgree, SeqAgrees, HandlerAgrees, PerstAgrees,
      Repeat, TypeOK
<1>2. ASSUME NEW id \in Ids, PostBit(id) PROVE (~perst => SeqAgrees)'
  BY <1>2, Zenon DEF PostBit, SidesAgree, SeqAgrees, HandlerAgrees, PerstAgrees,
      Repeat, TypeOK
<1>3. CASE ReqSelect
  BY <1>3, Zenon DEF ReqSelect, SidesAgree, SeqAgrees, HandlerAgrees, PerstAgrees,
      Repeat, TypeOK
<1>4. CASE ReqClear
  BY <1>4, Zenon DEF ReqClear, SidesAgree, SeqAgrees, HandlerAgrees, PerstAgrees,
      Repeat, TypeOK
<1>5. CASE ReqLoad
  <2>1. next_seq_num' = Succ(next_seq_num) /\ next_seq_num \in Seqs
    BY <1>5, Zenon DEF ReqLoad, Succ, TypeOK
  <2> QED
    BY <1>5, <2>1, SMTT(30) DEF ReqLoad, SidesAgree, SeqAgrees, HandlerAgrees, PerstAgrees,
      TypeOK
<1>6. CASE Reply
  BY <1>6, Zenon DEF Reply, SidesAgree, SeqAgrees, HandlerAgrees, PerstAgrees,
      Repeat, TypeOK
<1>7. CASE AckReaches
  <2>1. ~perst /\ curr_msg_valid /\ msg = curr_msg
    BY <1>7, Zenon DEF AckReaches, SidesAgree, HandlerAgrees
  <2>2. ~curr_msg_valid' /\ pc' = "got"
    BY <1>7, <2>1, Zenon DEF AckReaches, AckHandler
  <2>3. last_cm2dm_seq_num # Succ(last_cm2dm_seq_num)
    BY SuccDiffers, Zenon DEF TypeOK
  <2>4. UNCHANGED <<msg, next_seq_num, last_vars, unacted, perst>>
    BY <1>7, Zenon DEF AckReaches, AckHandler
  <2> QED
    BY <2>1, <2>2, <2>3, <2>4, Zenon DEF SidesAgree, SeqAgrees, Repeat
<1>8. CASE AckLost
  BY <1>8, Zenon DEF AckLost, SidesAgree, SeqAgrees, HandlerAgrees, PerstAgrees,
      Repeat, TypeOK
<1>9. CASE Duplicate
  BY <1>9, Zenon DEF Duplicate, NextRound, SidesAgree, SeqAgrees, HandlerAgrees,
      PerstAgrees, Repeat, TypeOK
<1>10. CASE Process
  BY <1>10, SMTT(30) DEF Process, NextRound, SidesAgree, SeqAgrees, HandlerAgrees,
      PerstAgrees, Repeat, TypeOK
<1>11. CASE Restarts
  BY <1>11, Zenon DEF Restarts, ProcessReset, UrgentReset, Perst, ResetChip,
      SmcRestarts, SidesAgree, SeqAgrees, HandlerAgrees, PerstAgrees, Repeat,
      TypeOK
<1>12. CASE Moves
  <2> USE DEF SidesAgree, SeqAgrees, HandlerAgrees, PerstAgrees, Repeat, TypeOK
  <2>1. CASE ReqKeep
    BY <2>1, Zenon DEF ReqKeep
  <2>2. CASE Poll
    BY <2>2, Zenon DEF Poll
  <2>3. CASE ReadReaches
    BY <2>3, Zenon DEF ReadReaches
  <2>4. CASE ReadLost
    BY <2>4, Zenon DEF ReadLost
  <2>5. CASE NoReset
    BY <2>5, Zenon DEF NoReset
  <2>6. CASE UNCHANGED vars
    BY <2>6, Zenon DEF vars
  <2> QED
    BY <1>12, <2>1, <2>2, <2>3, <2>4, <2>5, <2>6, Zenon DEF Moves
<1> QED
  BY <1>1, <1>2, <1>3, <1>4, <1>5, <1>6, <1>7, <1>8, <1>9, <1>10, <1>11, Zenon,
      <1>12
  DEF Next, Post, Request, Transfer, Act, Urgent, Restarts, Moves

(* The two sides keep talking about the same message.                        *)
LEMMA HandlerStep ==
  ASSUME TypeOK, SidesAgree, [Next]_vars
  PROVE  HandlerAgrees'
<1>1. ASSUME NEW id \in Ids, NEW d \in Data, PostData(id, d) PROVE HandlerAgrees'
  BY <1>1, Zenon DEF PostData, SidesAgree, HandlerAgrees, PerstAgrees, NoMsg, Ids,
      Null, TypeOK
<1>2. ASSUME NEW id \in Ids, PostBit(id) PROVE HandlerAgrees'
  BY <1>2, Zenon DEF PostBit, SidesAgree, HandlerAgrees, PerstAgrees, NoMsg, Ids,
      Null, TypeOK
<1>3. CASE ReqSelect
  BY <1>3, Zenon DEF ReqSelect, SidesAgree, HandlerAgrees, PerstAgrees, NoMsg, Ids,
      Null, TypeOK
<1>4. CASE ReqClear
  BY <1>4, Zenon DEF ReqClear, SidesAgree, HandlerAgrees, PerstAgrees, NoMsg, Ids,
      Null, TypeOK
<1>5. CASE ReqLoad
  BY <1>5, SMTT(30) DEF ReqLoad, SidesAgree, HandlerAgrees, PerstAgrees, NoMsg, Ids,
      Null, TypeOK
<1>6. CASE Reply
  <2>1. curr_msg.msg_id \in Ids \cup {Null}
    BY Zenon DEF TypeOK, Message
  <2> QED
    BY <1>6, <2>1, Zenon DEF Reply, SidesAgree, HandlerAgrees, TypeOK
<1>7. CASE AckReaches
  BY <1>7, SMTT(30) DEF AckReaches, AckHandler, SidesAgree, HandlerAgrees, PerstAgrees,
      NoMsg, Ids, Null, TypeOK
<1>8. CASE AckLost
  BY <1>8, Zenon DEF AckLost, SidesAgree, HandlerAgrees, PerstAgrees, NoMsg, Ids,
      Null, TypeOK
<1>9. CASE Duplicate
  BY <1>9, Zenon DEF Duplicate, NextRound, SidesAgree, HandlerAgrees, PerstAgrees,
      NoMsg, Ids, Null, TypeOK
<1>10. CASE Process
  BY <1>10, Zenon DEF Process, NextRound, SidesAgree, HandlerAgrees, PerstAgrees,
      NoMsg, Ids, Null, TypeOK
<1>11. CASE Restarts
  <2> USE DEF ResetChip, SmcRestarts, SidesAgree, HandlerAgrees, PerstAgrees, TypeOK
  <2>1. NoMsg.msg_id = Null
    BY Zenon DEF NoMsg
  <2>2. CASE ProcessReset
    BY <2>1, <2>2, Zenon DEF ProcessReset
  <2>3. CASE UrgentReset
    BY <2>1, <2>3, Zenon DEF UrgentReset
  <2>4. CASE Perst
    BY <2>1, <2>4, Zenon DEF Perst
  <2> QED
    BY <1>11, <2>2, <2>3, <2>4, Zenon DEF Restarts
<1>12. CASE Moves
  BY <1>12, SMTT(30) DEF Moves, ReqKeep, Poll, ReadReaches, ReadLost, NoReset, vars,
      SidesAgree, HandlerAgrees, PerstAgrees, NoMsg, Ids, Null, TypeOK
<1> QED
  BY <1>1, <1>2, <1>3, <1>4, <1>5, <1>6, <1>7, <1>8, <1>9, <1>10, <1>11, Zenon,
      <1>12
  DEF Next, Post, Request, Transfer, Act, Urgent, Restarts, Moves

(* A message in flight carries the latest data of its id, or the id waits.   *)
LEMMA FlightStep ==
  ASSUME TypeOK, SidesAgree, [Next]_vars
  PROVE  FlightAgrees'
<1>1. ASSUME NEW id \in Ids, NEW d \in Data, PostData(id, d) PROVE FlightAgrees'
  BY <1>1, SMTT(30) DEF PostData, SidesAgree, FlightAgrees, HandlerAgrees, PerstAgrees,
      Waiting, TypeOK
<1>2. ASSUME NEW id \in Ids, PostBit(id) PROVE FlightAgrees'
  BY <1>2, Zenon DEF PostBit, SidesAgree, FlightAgrees, HandlerAgrees, PerstAgrees,
      Waiting, TypeOK
<1>3. CASE ReqSelect
  BY <1>3, Zenon DEF ReqSelect, SidesAgree, FlightAgrees, HandlerAgrees,
      PerstAgrees, Waiting, TypeOK
<1>4. CASE ReqClear
  BY <1>4, Zenon DEF ReqClear, SidesAgree, FlightAgrees, HandlerAgrees, PerstAgrees,
      Waiting, TypeOK
<1>5. CASE ReqLoad
  BY <1>5, Zenon DEF ReqLoad, SidesAgree, FlightAgrees, HandlerAgrees, PerstAgrees,
      Waiting, TypeOK
<1>6. CASE Reply
  BY <1>6, Zenon DEF Reply, SidesAgree, FlightAgrees, HandlerAgrees, PerstAgrees,
      Waiting, TypeOK
<1>7. CASE AckReaches
  BY <1>7, SMTT(30) DEF AckReaches, AckHandler, SidesAgree, FlightAgrees,
      HandlerAgrees, PerstAgrees, Waiting, TypeOK
<1>8. CASE AckLost
  BY <1>8, Zenon DEF AckLost, SidesAgree, FlightAgrees, HandlerAgrees, PerstAgrees,
      Waiting, TypeOK
<1>9. CASE Duplicate
  BY <1>9, Zenon DEF Duplicate, NextRound, SidesAgree, FlightAgrees, HandlerAgrees,
      PerstAgrees, Waiting, TypeOK
<1>10. CASE Process
  BY <1>10, Zenon DEF Process, NextRound, SidesAgree, FlightAgrees, HandlerAgrees,
      PerstAgrees, Waiting, TypeOK
<1>11. CASE Restarts
  BY <1>11, Zenon DEF Restarts, ProcessReset, UrgentReset, Perst, ResetChip,
      SmcRestarts, SidesAgree, FlightAgrees, HandlerAgrees, PerstAgrees,
      Waiting, TypeOK
<1>12. CASE Moves
  <2> USE DEF SidesAgree, FlightAgrees, HandlerAgrees, PerstAgrees, Waiting, TypeOK
  <2>1. CASE ReqKeep
    BY <2>1, Zenon DEF ReqKeep
  <2>2. CASE Poll
    BY <2>2, Zenon DEF Poll
  <2>3. CASE ReadReaches
    BY <2>3, Zenon DEF ReadReaches
  <2>4. CASE ReadLost
    BY <2>4, Zenon DEF ReadLost
  <2>5. CASE NoReset
    BY <2>5, Zenon DEF NoReset
  <2>6. CASE UNCHANGED vars
    BY <2>6, Zenon DEF vars
  <2> QED
    BY <1>12, <2>1, <2>2, <2>3, <2>4, <2>5, <2>6, Zenon DEF Moves
<1> QED
  BY <1>1, <1>2, <1>3, <1>4, <1>5, <1>6, <1>7, <1>8, <1>9, <1>10, <1>11, Zenon,
      <1>12
  DEF Next, Post, Request, Transfer, Act, Urgent, Restarts, Moves

(* Until PERST has been handled nothing is taken from the fresh SMC.         *)
LEMMA PerstStep ==
  ASSUME TypeOK, SidesAgree, [Next]_vars
  PROVE  PerstAgrees'
<1>1. ASSUME NEW id \in Ids, NEW d \in Data, PostData(id, d) PROVE PerstAgrees'
  BY <1>1, Zenon DEF PostData, SidesAgree, PerstAgrees, Waiting, TypeOK
<1>2. ASSUME NEW id \in Ids, PostBit(id) PROVE PerstAgrees'
  BY <1>2, Zenon DEF PostBit, SidesAgree, PerstAgrees, Waiting, TypeOK
<1>3. CASE ReqSelect
  BY <1>3, Zenon DEF ReqSelect, SidesAgree, PerstAgrees, Waiting, TypeOK
<1>4. CASE ReqClear
  BY <1>4, Zenon DEF ReqClear, SidesAgree, PerstAgrees, Waiting, TypeOK
<1>5. CASE ReqLoad
  BY <1>5, Zenon DEF ReqLoad, SidesAgree, PerstAgrees, Waiting, TypeOK
<1>6. CASE Reply
  BY <1>6, Zenon DEF Reply, SidesAgree, PerstAgrees, Waiting, TypeOK
<1>7. CASE AckReaches
  BY <1>7, Zenon DEF AckReaches, AckHandler, SidesAgree, PerstAgrees, Waiting,
      TypeOK
<1>8. CASE AckLost
  BY <1>8, Zenon DEF AckLost, SidesAgree, PerstAgrees, Waiting, TypeOK
<1>9. CASE Duplicate
  BY <1>9, Zenon DEF Duplicate, NextRound, SidesAgree, PerstAgrees, Waiting, TypeOK
<1>10. CASE Process
  BY <1>10, Zenon DEF Process, NextRound, SidesAgree, PerstAgrees, Waiting, TypeOK
<1>11. CASE Restarts
  BY <1>11, Zenon DEF Restarts, ProcessReset, UrgentReset, Perst, ResetChip,
      SmcRestarts, SidesAgree, PerstAgrees, Waiting, TypeOK
<1>12. CASE Moves
  BY <1>12, Zenon DEF Moves, ReqKeep, Poll, ReadReaches, ReadLost, NoReset, vars,
      SidesAgree, PerstAgrees, Waiting, TypeOK
<1> QED
  BY <1>1, <1>2, <1>3, <1>4, <1>5, <1>6, <1>7, <1>8, <1>9, <1>10, <1>11, Zenon,
      <1>12
  DEF Next, Post, Request, Transfer, Act, Urgent, Restarts, Moves

(* The latest data of an id waits, is in flight or has been acted on.        *)
LEMMA FinalStep ==
  ASSUME TypeOK, SidesAgree, FinalValueKept, [Next]_vars
  PROVE  FinalValueKept'
<1>1. ASSUME NEW id \in Ids, NEW d \in Data, PostData(id, d) PROVE FinalValueKept'
  BY <1>1, Zenon DEF PostData, SidesAgree, FinalValueKept, InFlight, FlightAgrees,
      SeqAgrees, HandlerAgrees, PerstAgrees, Waiting, TypeOK, Repeat
<1>2. ASSUME NEW id \in Ids, PostBit(id) PROVE FinalValueKept'
  BY <1>2, Zenon DEF PostBit, SidesAgree, FinalValueKept, InFlight, FlightAgrees,
      SeqAgrees, HandlerAgrees, PerstAgrees, Waiting, TypeOK, Repeat
<1>3. CASE ReqSelect
  <2>1. \A id \in Ids : id # sel
    BY <1>3, SMTT(30) DEF ReqSelect, SidesAgree, HandlerAgrees, Ids, Null
  <2>2. ~curr_msg_valid /\ pc = "select"
    BY <1>3, Zenon DEF ReqSelect
  <2>3. \A id \in Ids : \/ next_msgs[id] = NoData
                        \/ id \in posting \/ id \in pending_messages
                        \/ delivered[id] = next_msgs[id]
    BY <2>1, <2>2, Zenon DEF FinalValueKept, Waiting, InFlight
  <2>4. UNCHANGED <<next_msgs, posting, pending_messages, delivered>>
    BY <1>3, Zenon DEF ReqSelect
  <2> QED
    BY <2>3, <2>4, Zenon DEF FinalValueKept, Waiting
<1>4. CASE ReqClear
  BY <1>4, Zenon DEF ReqClear, SidesAgree, FinalValueKept, InFlight, FlightAgrees,
      SeqAgrees, HandlerAgrees, PerstAgrees, Waiting, TypeOK, Repeat
<1>5. CASE ReqLoad
  BY <1>5, SMTT(30) DEF ReqLoad, SidesAgree, FinalValueKept, InFlight, FlightAgrees,
      SeqAgrees, HandlerAgrees, PerstAgrees, Waiting, TypeOK, Repeat
<1>6. CASE Reply
  BY <1>6, Zenon DEF Reply, SidesAgree, FinalValueKept, InFlight, FlightAgrees,
      SeqAgrees, HandlerAgrees, PerstAgrees, Waiting, TypeOK, Repeat
<1>7. CASE AckReaches
  <2>1. ~perst /\ curr_msg_valid /\ msg = curr_msg /\ pc = "ack"
    BY <1>7, Zenon DEF AckReaches, SidesAgree, HandlerAgrees
  <2>2. pc' = "got" /\ UNCHANGED <<msg, last_vars, delivered, next_msgs,
                                   posting, pending_messages, sel>>
    BY <1>7, Zenon DEF AckReaches, AckHandler
  <2>3. unacted = 1 => ~Repeat(msg)
    <3>1. last_cm2dm_seq_num # Succ(last_cm2dm_seq_num)
      BY SuccDiffers, Zenon DEF TypeOK
    <3> QED
      BY <2>1, <3>1, SMTT(30) DEF SidesAgree, SeqAgrees, Repeat
  <2>4. ~Repeat(msg) => ~Repeat(msg)'
    BY <2>2, Zenon DEF Repeat
  <2>5. \A id \in Ids : Waiting(id) <=> Waiting(id)'
    BY <2>2, Zenon DEF Waiting
  <2>6. ASSUME NEW id \in Ids, InFlight(id) PROVE InFlight(id)'
    BY <2>1, <2>2, <2>3, <2>4, <2>6, Zenon DEF InFlight
  <2> QED
    BY <2>2, <2>5, <2>6, Zenon DEF FinalValueKept
<1>8. CASE AckLost
  BY <1>8, Zenon DEF AckLost, SidesAgree, FinalValueKept, InFlight, FlightAgrees,
      SeqAgrees, HandlerAgrees, PerstAgrees, Waiting, TypeOK, Repeat
<1>9. CASE Duplicate
  BY <1>9, Zenon DEF Duplicate, NextRound, SidesAgree, FinalValueKept, InFlight,
      FlightAgrees, SeqAgrees, HandlerAgrees, PerstAgrees, Waiting, TypeOK,
      Repeat
<1>10. CASE Process
  BY <1>10, SMTT(30) DEF Process, NextRound, SidesAgree, FinalValueKept, InFlight,
      FlightAgrees, SeqAgrees, HandlerAgrees, PerstAgrees, Waiting, TypeOK,
      Repeat
<1>11. CASE Restarts
  BY <1>11, ZenonT(40) DEF Restarts, ProcessReset, UrgentReset, Perst, ResetChip,
      SmcRestarts, SidesAgree, FinalValueKept, InFlight, FlightAgrees,
      SeqAgrees, HandlerAgrees, PerstAgrees, Waiting, TypeOK, Repeat
<1>12. CASE Moves
  <2>1. CASE ReqKeep
    BY <2>1, Zenon DEF ReqKeep, SidesAgree, FinalValueKept, InFlight,
        FlightAgrees, SeqAgrees, HandlerAgrees, PerstAgrees, Waiting, TypeOK, Repeat
  <2>2. CASE Poll
    BY <2>2, Zenon DEF Poll, SidesAgree, FinalValueKept, InFlight,
        FlightAgrees, SeqAgrees, HandlerAgrees, PerstAgrees, Waiting, TypeOK, Repeat
  <2>3. CASE ReadReaches
    BY <2>3, Zenon DEF ReadReaches, SidesAgree, FinalValueKept, InFlight,
        FlightAgrees, SeqAgrees, HandlerAgrees, PerstAgrees, Waiting, TypeOK, Repeat
  <2>4. CASE ReadLost
    BY <2>4, Zenon DEF ReadLost, SidesAgree, FinalValueKept, InFlight,
        FlightAgrees, SeqAgrees, HandlerAgrees, PerstAgrees, Waiting, TypeOK, Repeat
  <2>5. CASE NoReset
    BY <2>5, Zenon DEF NoReset, SidesAgree, FinalValueKept, InFlight,
        FlightAgrees, SeqAgrees, HandlerAgrees, PerstAgrees, Waiting, TypeOK, Repeat
  <2>6. CASE UNCHANGED vars
    BY <2>6, Zenon DEF vars, FinalValueKept, InFlight, Waiting, Repeat
  <2> QED
    BY <1>12, <2>1, <2>2, <2>3, <2>4, <2>5, <2>6, Zenon DEF Moves
<1> QED
  BY <1>1, <1>2, <1>3, <1>4, <1>5, <1>6, <1>7, <1>8, <1>9, <1>10, <1>11, Zenon,
      <1>12
  DEF Next, Post, Request, Transfer, Act, Urgent, Restarts, Moves

(* What the inductive argument carries.                                      *)
ProtocolInv == TypeOK /\ SidesAgree /\ FinalValueKept

(* It holds at start and every step keeps it.                                *)
LEMMA ProtocolInvariant == Spec => []ProtocolInv
<1>1. Init => ProtocolInv
  <2> SUFFICES ASSUME Init PROVE ProtocolInv
    BY Zenon
  <2>1. TypeOK
    BY InitType, Zenon
  <2>2. FinalValueKept
    BY Zenon DEF Init, SmcStart, FinalValueKept
  <2>3. SidesAgree
    BY Zenon DEF Init, SmcStart, NoMsg, SidesAgree, SeqAgrees, HandlerAgrees,
      FlightAgrees, PerstAgrees
  <2> QED
    BY <2>1, <2>2, <2>3, Zenon DEF ProtocolInv
<1>2. ProtocolInv /\ [Next]_vars => ProtocolInv'
  BY NextType, SeqStep, HandlerStep, FlightStep, PerstStep, FinalStep, Zenon
  DEF ProtocolInv, SidesAgree
<1> QED
  BY <1>1, <1>2, PTL DEF Spec

(* The DMC acts on every message the SMC takes up exactly once: lost         *)
(* requests, lost acknowledgements, PERST and resets included, a repeated    *)
(* sequence number is a repeated message and nothing else (main.c:269-289).  *)
THEOREM MessagesActedOnce == Spec => []ActedOnce
<1>1. ProtocolInv => ActedOnce
  <2> SUFFICES ASSUME ProtocolInv PROVE ActedOnce
    BY Zenon
  <2>1. CASE perst
    BY <2>1, Zenon DEF ProtocolInv, SidesAgree, PerstAgrees, ActedOnce
  <2>2. CASE ~perst
    BY <2>2, Zenon DEF ProtocolInv, SidesAgree, SeqAgrees, TypeOK, ActedOnce
  <2> QED
    BY <2>1, <2>2, Zenon
<1> QED
  BY <1>1, ProtocolInvariant, PTL

(* "We'll always send the final value" (cm2dm_msg.c:88): between a post and  *)
(* the DMC acting on it nothing drops the latest data of an id, although     *)
(* posters interrupt the request handler at every point.                     *)
THEOREM FinalValueNeverLost == Spec => []FinalValueKept
<1>1. ProtocolInv => FinalValueKept
  BY Zenon DEF ProtocolInv
<1> QED
  BY <1>1, ProtocolInvariant, PTL

-----------------------------------------------------------------------------
(* A count and its target, o answers further on a counter that wraps.        *)
LEMMA BehindMeansOwed ==
  ASSUME NEW c \in 0 .. NdWrap - 1, NEW o \in Nat, o < NdWrap \div 2
  PROVE  is_behind(c, (c + o) % NdWrap) <=> o > 0
<1>1. PICK h \in Nat : NdWrap = 2 * h /\ NdWrap \div 2 = h
  <2>1. NdWrap \in Nat /\ NdWrap % 2 = 0
    BY NdAssumption, Zenon
  <2>2. NdWrap \div 2 \in Nat /\ NdWrap = 2 * (NdWrap \div 2) + (NdWrap % 2)
    BY <2>1, SMTT(30)
  <2>3. NdWrap = 2 * (NdWrap \div 2)
    BY <2>1, <2>2, SMTT(30)
  <2> USE <2>2
  <2> WITNESS NdWrap \div 2 \in Nat
  <2> QED
    BY <2>3, Zenon
<1>2. c \in Nat /\ c < 2 * h /\ o < h
  BY <1>1, SMTT(30)
<1>3. (c + o) % NdWrap = IF c + o < NdWrap THEN c + o ELSE c + o - NdWrap
  BY <1>1, <1>2, SMTT(30)
<1>4. (c - ((c + o) % NdWrap)) % NdWrap = IF o = 0 THEN 0 ELSE NdWrap - o
  BY <1>1, <1>2, <1>3, SMTT(30)
<1> QED
  BY <1>1, <1>2, <1>4, SMTT(30) DEF is_behind

(* An answer moves the count one closer to the same target.                  *)
LEMMA AnswerKeepsTarget ==
  ASSUME NEW c \in 0 .. NdWrap - 1, NEW o \in Nat, o > 0, o < NdWrap
  PROVE  /\ (c + 1) % NdWrap \in 0 .. NdWrap - 1
         /\ (((c + 1) % NdWrap) + (o - 1)) % NdWrap = (c + o) % NdWrap
<1>1. NdWrap \in Nat /\ c \in Nat /\ c < NdWrap
  BY NdAssumption, SMTT(30)
<1>2. (c + 1) % NdWrap = IF c + 1 < NdWrap THEN c + 1 ELSE 0
  BY <1>1, SMTT(30)
<1>3. (c + o) % NdWrap = IF c + o < NdWrap THEN c + o ELSE c + o - NdWrap
  BY <1>1, SMTT(30)
<1>4. CASE c + 1 < NdWrap
  BY <1>1, <1>2, <1>4, SMTT(30)
<1>5. CASE c + 1 = NdWrap
  <2>1. ((c + 1) % NdWrap) + (o - 1) = o - 1 /\ (o - 1) % NdWrap = o - 1
    BY <1>1, <1>2, <1>5, SMTT(30)
  <2> QED
    BY <1>1, <1>2, <1>3, <1>5, <2>1, SMTT(30)
<1> QED
  BY <1>1, <1>4, <1>5, SMTT(30)

-----------------------------------------------------------------------------

(* A start that is under way is at a block of its channel, with a callback   *)
(* made for every block before it.                                           *)
NdWhere ==
    /\ nd_chan.configured => nd_chan.size \in NdBursts /\ nd_chan.count >= 1
    /\ nd_pc = "idle" => nd_chan.index = 0
    /\ nd_pc # "idle" => /\ nd_chan.configured /\ nd_ret = "none"
                         /\ nd_chan.index < nd_chan.count
                         /\ nd_called = nd_chan.index

(* Answers of this kind are all that is outstanding, the last command was    *)
(* one of them, and its target is exactly the outstanding answers away.      *)
NdOnly(kind) ==
    /\ nd_chan.cmd = kind
    /\ nd_owed[kind] <= nd_chan.size
    /\ nd_chan.expected = (nd_count[kind] + nd_owed[kind]) % NdWrap
    /\ \A k \in Kinds \ {kind} : nd_owed[k] = 0

NdWaits ==
    nd_clean => /\ nd_pc = "read" => NdOnly("RD")
                /\ nd_pc = "write" => NdOnly("WR")
                /\ nd_ret = "ok" => /\ \A k \in Kinds : nd_owed[k] = 0
                                    /\ nd_called = nd_chan.count

NdIInv == NdTypeOK /\ NdWhere /\ NdWaits

(* Sizes are numbers.                                                        *)
LEMMA SizeIsNat == NdTypeOK => nd_chan.size \in Nat
<1>1. NdBursts \cup {1} \subseteq Nat
  BY NdAssumption, SMTT(30)
<1>2. NdTypeOK => nd_chan.size \in NdBursts \cup {1}
  BY Zenon DEF NdTypeOK
<1> QED
  BY <1>1, <1>2, Zenon

(* The comparison of the counts is right about a start that waits.           *)
LEMMA StatusTrue ==
  ASSUME NdTypeOK, NdWhere, nd_pc # "idle", NEW kind \in Kinds, NdOnly(kind)
  PROVE  /\ tt_bh_dma_noc_get_status <=> nd_owed[kind] > 0
         /\ ~tt_bh_dma_noc_get_status => \A k \in Kinds : nd_owed[k] = 0
<1>1. nd_count[kind] \in 0 .. NdWrap - 1 /\ nd_owed[kind] \in Nat
  BY NdAssumption, SMTT(30) DEF NdTypeOK
<1>2. nd_owed[kind] < NdWrap \div 2
  <2>1. nd_chan.size \in NdBursts /\ nd_owed[kind] <= nd_chan.size
    BY Zenon DEF NdWhere, NdOnly
  <2>2. nd_chan.size \in Nat /\ nd_chan.size < NdWrap \div 2 /\ NdWrap \in Nat
    BY <2>1, NdAssumption, Zenon
  <2> QED
    BY <1>1, <2>1, <2>2, SMTT(30)
<1>3. tt_bh_dma_noc_get_status <=> nd_owed[kind] > 0
  BY <1>1, <1>2, BehindMeansOwed, Zenon DEF tt_bh_dma_noc_get_status, NdOnly
<1> QED
  BY <1>1, <1>3, SMTT(30) DEF NdOnly

(* The target of a command is a count.                                       *)
LEMMA TargetIsCount ==
  ASSUME NdTypeOK, NEW kind \in Kinds
  PROVE  get_expected_acks(kind, nd_chan.size) \in 0 .. NdWrap - 1
<1>1. nd_count[kind] \in Nat /\ nd_chan.size \in Nat /\ NdWrap \in Nat /\ NdWrap > 0
  BY NdAssumption, SizeIsNat, SMTT(30) DEF NdTypeOK
<1>2. nd_count[kind] + nd_chan.size \in Nat
  BY <1>1, SMTT(30)
<1> QED
  BY <1>1, <1>2, SMTT(30) DEF get_expected_acks

(* Before the first transfer nothing is owed and the invariant holds.        *)
LEMMA NdInitInv == NdInit => NdIInv
<1> SUFFICES ASSUME NdInit PROVE NdIInv
  BY Zenon
<1>1. NdTypeOK
  BY NdAssumption, SMTT(30) DEF NdInit, NdTypeOK, Kinds, NdSyncs, NdAsyncs
<1>2. NdWhere /\ NdWaits
  BY Zenon DEF NdInit, NdWhere, NdWaits
<1> QED
  BY <1>1, <1>2, Zenon DEF NdIInv

(* Every step keeps the types.                                               *)
LEMMA NdStepType == NdTypeOK /\ NdWhere /\ [NdNext]_nd_vars => NdTypeOK'
<1> SUFFICES ASSUME NdTypeOK, NdWhere, [NdNext]_nd_vars PROVE NdTypeOK'
  BY Zenon
<1>k. "RD" \in Kinds /\ "WR" \in Kinds /\ NdFirst \in Kinds
  BY Zenon DEF Kinds, NdFirst
<1>t. \A k \in Kinds : NdTrack(k) \in
        [configured : BOOLEAN, dir : NdSyncs \cup NdAsyncs, size : NdBursts \cup {1},
         count : 0 .. NdBlocks, index : 0 .. NdBlocks, cmd : Kinds, expected : 0 .. (NdWrap - 1)]
  BY TargetIsCount, Zenon DEF NdTrack, NdTypeOK
<1>s. nd_chan.size \in Nat /\ NdOwedMax \in Nat /\ NdBlocks \in Nat /\ NdWrap \in Nat /\ NdWrap > 0
  BY NdAssumption, SizeIsNat, SMTT(30) DEF NdTypeOK
<1>x. ASSUME NEW k \in Kinds, noc_dma_transfer(k)
      PROVE  /\ nd_owed' \in [Kinds -> 0 .. NdOwedMax]
             /\ nd_chan' \in
                  [configured : BOOLEAN, dir : NdSyncs \cup NdAsyncs, size : NdBursts \cup {1},
                   count : 0 .. NdBlocks, index : 0 .. NdBlocks, cmd : Kinds,
                   expected : 0 .. (NdWrap - 1)]
  BY <1>x, <1>t, <1>s, SMTT(30) DEF noc_dma_transfer, NdTypeOK
<1>1. ASSUME NEW dir \in NdSyncs \cup NdAsyncs, NEW size \in NdBursts, NEW count \in 1 .. NdBlocks,
             tt_bh_dma_noc_config(dir, size, count)
      PROVE  NdTypeOK'
  BY <1>1, <1>s, <1>k, SMTT(30) DEF tt_bh_dma_noc_config, NdTypeOK
<1>2. CASE tt_bh_dma_noc_start
  <2>1. noc_dma_transfer("RD")
    BY <1>2, Zenon DEF tt_bh_dma_noc_start
  <2> QED
    BY <1>2, <2>1, <1>x, <1>k, <1>s, SMTT(30) DEF tt_bh_dma_noc_start, NdTypeOK
<1>3. CASE NdStartAsync
  <2>1. noc_dma_transfer(NdFirst)
    BY <1>3, Zenon DEF NdStartAsync
  <2> QED
    BY <1>3, <2>1, <1>x, <1>k, <1>s, SMTT(30) DEF NdStartAsync, NdTypeOK
<1>4. CASE NdCmdTimeout
  BY <1>4, <1>t, <1>k, <1>s, SMTT(30) DEF NdCmdTimeout, NdTypeOK
<1>5. CASE NdReadOver
  <2>1. noc_dma_transfer("WR")
    BY <1>5, Zenon DEF NdReadOver
  <2> QED
    BY <1>5, <2>1, <1>x, <1>k, <1>s, Zenon DEF NdReadOver, NdTypeOK
<1>6. CASE NdWriteOver
  <2>1. nd_called' \in 0 .. NdBlocks
    BY <1>6, <1>s, SMTT(30) DEF NdWriteOver, NdTypeOK, NdWhere
  <2>2. CASE nd_chan.index + 1 < nd_chan.count
    <3>1. NdTrack("RD").index = nd_chan.index /\ nd_chan.index + 1 \in 0 .. NdBlocks
      BY <2>2, <1>s, SMTT(30) DEF NdTrack, NdTypeOK
    <3> QED
      BY <1>6, <2>1, <2>2, <3>1, <1>t, <1>k, <1>s, SMTT(30) DEF NdWriteOver, NdTypeOK
  <2>3. CASE ~(nd_chan.index + 1 < nd_chan.count)
    BY <1>6, <2>1, <2>3, <1>k, <1>s, SMTT(30) DEF NdWriteOver, NdTypeOK
  <2> QED
    BY <2>2, <2>3, Zenon
<1>7. CASE NdTimeout
  BY <1>7, <1>s, SMTT(30) DEF NdTimeout, NdTypeOK
<1>8. ASSUME NEW kind \in Kinds, NdAnswer(kind)
      PROVE  NdTypeOK'
  <2>1. nd_count[kind] + 1 \in Nat /\ (nd_count[kind] + 1) % NdWrap \in 0 .. NdWrap - 1
    BY <1>s, SMTT(30) DEF NdTypeOK
  <2> QED
    BY <1>8, <2>1, <1>s, SMTT(30) DEF NdAnswer, NdTypeOK
<1>9. CASE UNCHANGED nd_vars
  BY <1>9, Zenon DEF nd_vars, NdTypeOK
<1> QED
  BY <1>1, <1>2, <1>3, <1>4, <1>5, <1>6, <1>7, <1>8, <1>9, Zenon DEF NdNext

(* Every step keeps the place of a start in its blocks.                      *)
LEMMA NdStepWhere == NdTypeOK /\ NdWhere /\ [NdNext]_nd_vars => NdWhere'
<1> SUFFICES ASSUME NdTypeOK, NdWhere, [NdNext]_nd_vars PROVE NdWhere'
  BY Zenon
<1>x. nd_chan.index \in Nat /\ nd_chan.count \in Nat
  BY NdAssumption, SMTT(30) DEF NdTypeOK
<1>t. ASSUME NEW k
      PROVE  /\ NdTrack(k).configured = nd_chan.configured /\ NdTrack(k).size = nd_chan.size
             /\ NdTrack(k).count = nd_chan.count /\ NdTrack(k).index = nd_chan.index
  BY Zenon DEF NdTrack, NdTypeOK
<1>1. ASSUME NEW dir \in NdSyncs \cup NdAsyncs, NEW size \in NdBursts, NEW count \in 1 .. NdBlocks,
             tt_bh_dma_noc_config(dir, size, count)
      PROVE  NdWhere'
  BY <1>1, NdAssumption, SMTT(30) DEF tt_bh_dma_noc_config, NdWhere
<1>2. CASE tt_bh_dma_noc_start
  <2>1. nd_chan' = NdTrack("RD") /\ nd_pc = "idle" /\ nd_pc' = "read" /\ nd_chan.configured
        /\ nd_ret' = "none" /\ nd_called' = 0
    BY <1>2, Zenon DEF tt_bh_dma_noc_start, noc_dma_transfer
  <2>2. /\ nd_chan'.configured = nd_chan.configured /\ nd_chan'.size = nd_chan.size
        /\ nd_chan'.count = nd_chan.count /\ nd_chan'.index = nd_chan.index
    BY <2>1, <1>t, Zenon
  <2>3. nd_chan.index = 0 /\ nd_chan.size \in NdBursts /\ nd_chan.count >= 1 /\ 0 < nd_chan.count
    BY <2>1, <1>x, SMTT(30) DEF NdWhere
  <2> QED
    BY <2>1, <2>2, <2>3, Zenon DEF NdWhere
<1>3. CASE NdStartAsync
  BY <1>3, <1>t, Zenon DEF NdStartAsync, noc_dma_transfer, NdWhere
<1>4. CASE NdCmdTimeout
  BY <1>4, <1>t, Zenon DEF NdCmdTimeout, NdWhere
<1>5. CASE NdReadOver
  BY <1>5, <1>t, Zenon DEF NdReadOver, noc_dma_transfer, NdWhere
<1>6. CASE NdWriteOver
  <2>1. CASE nd_chan.index + 1 < nd_chan.count
    <3>1. nd_chan' = [NdTrack("RD") EXCEPT !.index = nd_chan.index + 1]
      <4>1. nd_chan' = [NdTrack("RD") EXCEPT !.index = @ + 1]
        BY <1>6, <2>1, Zenon DEF NdWriteOver
      <4> QED
        BY <4>1, <1>t, Zenon
    <3>2. /\ nd_chan'.configured = nd_chan.configured /\ nd_chan'.size = nd_chan.size
          /\ nd_chan'.count = nd_chan.count /\ nd_chan'.index = nd_chan.index + 1
      BY <3>1, Zenon DEF NdTrack, NdTypeOK
    <3>3. nd_pc = "write" /\ nd_pc' = "read" /\ nd_ret' = nd_ret /\ nd_called' = nd_called + 1
      BY <1>6, <2>1, Zenon DEF NdWriteOver
    <3> QED
      BY <2>1, <3>2, <3>3, <1>x, Zenon DEF NdWhere
  <2>2. CASE ~(nd_chan.index + 1 < nd_chan.count)
    <3>1. nd_chan' = [nd_chan EXCEPT !.index = 0] /\ nd_pc' = "idle"
      BY <1>6, <2>2, Zenon DEF NdWriteOver
    <3>2. /\ nd_chan'.configured = nd_chan.configured /\ nd_chan'.size = nd_chan.size
          /\ nd_chan'.count = nd_chan.count /\ nd_chan'.index = 0
      BY <3>1, Zenon DEF NdTypeOK
    <3> QED
      BY <3>1, <3>2, Zenon DEF NdWhere
  <2> QED
    BY <2>1, <2>2, Zenon
<1>7. CASE NdTimeout
  BY <1>7, Zenon DEF NdTimeout, NdWhere, NdTypeOK
<1>8. ASSUME NEW kind \in Kinds, NdAnswer(kind)
      PROVE  NdWhere'
  BY <1>8, Zenon DEF NdAnswer, NdWhere
<1>9. CASE UNCHANGED nd_vars
  BY <1>9, Zenon DEF nd_vars, NdWhere
<1> QED
  BY <1>1, <1>2, <1>3, <1>4, <1>5, <1>6, <1>7, <1>8, <1>9, Zenon DEF NdNext

(* A command issued while nothing is outstanding is the only one.            *)
LEMMA IssuedAlone ==
  ASSUME NdTypeOK, NEW kind \in Kinds, NEW x,
         \A k \in Kinds : nd_owed[k] = 0,
         nd_owed' = [nd_owed EXCEPT ![kind] = @ + nd_chan.size],
         nd_chan' = [NdTrack(kind) EXCEPT !.index = x],
         UNCHANGED nd_count
  PROVE  NdOnly(kind)'
<1>1. nd_chan.size \in Nat
  BY SizeIsNat, Zenon
<1>2. /\ nd_chan'.cmd = kind /\ nd_chan'.size = nd_chan.size
      /\ nd_chan'.expected = (nd_count[kind] + nd_chan.size) % NdWrap
  BY Zenon DEF NdTrack, NdTypeOK, get_expected_acks
<1>3. nd_owed'[kind] = nd_chan.size /\ \A k \in Kinds \ {kind} : nd_owed'[k] = 0
  BY <1>1, SMTT(30) DEF NdTypeOK
<1> QED
  BY <1>1, <1>2, <1>3, SMTT(30) DEF NdOnly

(* Every step keeps what a start that began clean knows of its answers.      *)
LEMMA NdStepWaits == NdIInv /\ [NdNext]_nd_vars => NdWaits'
<1> SUFFICES ASSUME NdTypeOK, NdWhere, NdWaits, [NdNext]_nd_vars PROVE NdWaits'
  BY Zenon DEF NdIInv
<1>k. Kinds = {"RD", "WR"} /\ "RD" \in Kinds /\ "WR" \in Kinds
  BY Zenon DEF Kinds
<1>t. ASSUME NEW k
      PROVE  NdTrack(k) = [NdTrack(k) EXCEPT !.index = nd_chan.index]
  BY Zenon DEF NdTrack, NdTypeOK
<1>1. ASSUME NEW dir \in NdSyncs \cup NdAsyncs, NEW size \in NdBursts, NEW count \in 1 .. NdBlocks,
             tt_bh_dma_noc_config(dir, size, count)
      PROVE  NdWaits'
  BY <1>1, Zenon DEF tt_bh_dma_noc_config, NdWaits
<1>2. CASE tt_bh_dma_noc_start
  <2>1. /\ nd_chan' = [NdTrack("RD") EXCEPT !.index = nd_chan.index]
        /\ nd_owed' = [nd_owed EXCEPT !["RD"] = @ + nd_chan.size] /\ UNCHANGED nd_count
    BY <1>2, <1>t, Zenon DEF tt_bh_dma_noc_start, noc_dma_transfer
  <2>2. nd_pc' = "read" /\ nd_ret' = "none" /\ (nd_clean' => \A k \in Kinds : nd_owed[k] = 0)
    BY <1>2, Zenon DEF tt_bh_dma_noc_start
  <2>3. nd_clean' => NdOnly("RD")'
    BY <2>1, <2>2, <1>k, IssuedAlone, Zenon
  <2> QED
    BY <2>2, <2>3, Zenon DEF NdWaits
<1>3. CASE NdStartAsync
  BY <1>3, Zenon DEF NdStartAsync, NdWaits
<1>4. CASE NdCmdTimeout
  BY <1>4, Zenon DEF NdCmdTimeout, NdWaits
<1>5. CASE NdReadOver
  <2>1. /\ nd_chan' = [NdTrack("WR") EXCEPT !.index = nd_chan.index]
        /\ nd_owed' = [nd_owed EXCEPT !["WR"] = @ + nd_chan.size] /\ UNCHANGED nd_count
    BY <1>5, <1>t, Zenon DEF NdReadOver, noc_dma_transfer
  <2>2. nd_pc = "read" /\ nd_pc' = "write" /\ nd_ret' = nd_ret /\ nd_ret = "none"
        /\ nd_clean' = nd_clean /\ ~tt_bh_dma_noc_get_status
    BY <1>5, Zenon DEF NdReadOver, NdWhere
  <2>3. nd_clean => \A k \in Kinds : nd_owed[k] = 0
    BY <2>2, <1>k, StatusTrue, Zenon DEF NdWaits
  <2>4. nd_clean' => NdOnly("WR")'
    BY <2>1, <2>2, <2>3, <1>k, IssuedAlone, Zenon
  <2> QED
    BY <2>2, <2>4, Zenon DEF NdWaits
<1>6. CASE NdWriteOver
  <2>1. nd_pc = "write" /\ ~tt_bh_dma_noc_get_status /\ nd_ret = "none" /\ nd_called' = nd_called + 1
        /\ nd_called = nd_chan.index /\ nd_chan.index < nd_chan.count
        /\ nd_clean' = nd_clean /\ UNCHANGED nd_count
    BY <1>6, Zenon DEF NdWriteOver, NdWhere
  <2>2. nd_clean => \A k \in Kinds : nd_owed[k] = 0
    BY <2>1, <1>k, StatusTrue, Zenon DEF NdWaits
  <2>3. CASE nd_chan.index + 1 < nd_chan.count
    <3>1. /\ nd_chan' = [NdTrack("RD") EXCEPT !.index = @ + 1]
          /\ nd_owed' = [nd_owed EXCEPT !["RD"] = @ + nd_chan.size]
          /\ nd_pc' = "read" /\ nd_ret' = nd_ret
      BY <1>6, <2>3, Zenon DEF NdWriteOver
    <3>2. nd_clean' => NdOnly("RD")'
      BY <2>1, <2>2, <3>1, <1>k, IssuedAlone, Zenon
    <3> QED
      BY <2>1, <3>1, <3>2, Zenon DEF NdWaits
  <2>4. CASE ~(nd_chan.index + 1 < nd_chan.count)
    <3>1. nd_chan' = [nd_chan EXCEPT !.index = 0] /\ nd_pc' = "idle" /\ nd_owed' = nd_owed
      BY <1>6, <2>4, Zenon DEF NdWriteOver
    <3>2. nd_chan'.count = nd_chan.count
      BY <3>1, Zenon DEF NdTypeOK
    <3>3. nd_called' = nd_chan.count
      BY <2>1, <2>4, NdAssumption, SMTT(30) DEF NdTypeOK
    <3> QED
      BY <2>1, <2>2, <3>1, <3>2, <3>3, Zenon DEF NdWaits
  <2> QED
    BY <2>3, <2>4, Zenon
<1>7. CASE NdTimeout
  BY <1>7, Zenon DEF NdTimeout, NdWaits
<1>8. ASSUME NEW kind \in Kinds, NdAnswer(kind)
      PROVE  NdWaits'
  <2>1. UNCHANGED <<nd_chan, nd_pc, nd_ret, nd_called, nd_clean>> /\ nd_owed[kind] > 0
    BY <1>8, Zenon DEF NdAnswer
  <2>2. ASSUME NEW only \in Kinds, NdOnly(only), nd_pc # "idle"
        PROVE  NdOnly(only)'
    <3>1. kind = only
      BY <2>1, <2>2, SMTT(30) DEF NdOnly
    <3>2. nd_owed[kind] \in Nat /\ nd_count[kind] \in 0 .. NdWrap - 1 /\ nd_chan.size \in Nat
      BY SizeIsNat, NdAssumption, SMTT(30) DEF NdTypeOK
    <3>3. nd_owed[kind] < NdWrap
      <4>1. nd_chan.size \in NdBursts /\ nd_owed[kind] <= nd_chan.size
        BY <2>2, <3>1, Zenon DEF NdWhere, NdOnly
      <4>2. nd_chan.size < NdWrap \div 2 /\ NdWrap \in Nat
        BY <4>1, NdAssumption, Zenon
      <4> QED
        BY <4>1, <4>2, <3>2, SMTT(30)
    <3>4. /\ nd_owed'[kind] = nd_owed[kind] - 1 /\ nd_count'[kind] = (nd_count[kind] + 1) % NdWrap
          /\ \A k \in Kinds \ {kind} : nd_owed'[k] = nd_owed[k]
      BY <1>8, Zenon DEF NdAnswer, NdTypeOK
    <3>5. (nd_count'[kind] + nd_owed'[kind]) % NdWrap = (nd_count[kind] + nd_owed[kind]) % NdWrap
      BY <2>1, <3>2, <3>3, <3>4, AnswerKeepsTarget, Zenon
    <3> QED
      BY <2>1, <2>2, <3>1, <3>2, <3>4, <3>5, SMTT(30) DEF NdOnly
  <2>3. ~(nd_clean /\ nd_ret = "ok")
    BY <2>1, SMTT(30) DEF NdWaits
  <2> QED
    BY <2>1, <2>2, <2>3, <1>k, Zenon DEF NdWaits
<1>9. CASE UNCHANGED nd_vars
  BY <1>9, Zenon DEF nd_vars, NdWaits, NdOnly
<1> QED
  BY <1>1, <1>2, <1>3, <1>4, <1>5, <1>6, <1>7, <1>8, <1>9, Zenon DEF NdNext

(* A start that began with no answer outstanding never writes a block out    *)
(* before all of it was read, and never returns 0 before every write of      *)
(* every block was acknowledged, for every width of the counters and         *)
(* wherever in their turn it began.                                          *)
THEOREM CopiesComplete == NdSpec => []NdTrueDone
<1>1. NdIInv /\ [NdNext]_nd_vars => NdIInv'
  BY NdStepType, NdStepWhere, NdStepWaits, Zenon DEF NdIInv
<1>2. NdIInv => NdTrueDone
  BY Zenon DEF NdIInv, NdWaits, NdOnly, NdTrueDone, Kinds
<1> QED
  BY NdInitInv, <1>1, <1>2, PTL DEF NdSpec
-----------------------------------------------------------------------------
(* The fan's messages travel by the transport alone: a step of the fan       *)
(* control is a step of Cm2Dm or leaves its variables alone, so what is      *)
(* proved of the transport holds with the fan's posts and resets.            *)
LEMMA FanStepTransports == [FanNext]_all_vars => [Next]_vars
<1> SUFFICES ASSUME [FanNext]_all_vars PROVE [Next]_vars
  BY Zenon
<1>1. ASSUME NEW curve \in Data, fan_ctrl_work_handler(curve) PROVE Next
  BY <1>1, FanAssumption, Zenon DEF fan_ctrl_work_handler, Next, Post
<1>2. ASSUME NEW raw \in Data \cup {Unforce}, NEW curve \in Data, force_fan_speed(raw, curve)
      PROVE  Next
  <2>1. PICK id \in Ids, d \in Data : PostData(id, d)
    <3>1. CASE raw = Unforce
      <4>1. PostData(FanSpeedUpdate, curve)
        BY <1>2, <3>1, Zenon DEF force_fan_speed
      <4> QED BY <4>1, FanAssumption, Zenon
    <3>2. CASE raw # Unforce
      <4>1. PostData(ForcedFanSpeedUpdate, raw) /\ raw \in Data
        BY <1>2, <3>2, Zenon DEF force_fan_speed
      <4> QED BY <4>1, FanAssumption, Zenon
    <3> QED BY <3>1, <3>2, Zenon
  <2> QED BY <2>1, Zenon DEF Next, Post
<1>3. ASSUME NEW id \in Ids, NEW d \in Data, OtherPost(id, d) PROVE Next
  BY <1>3, Zenon DEF OtherPost, Next, Post
<1>4. ASSUME NEW speed \in OtherSpeeds, NEW forced \in BOOLEAN, OtherChip(speed, forced)
      PROVE  UNCHANGED vars
  BY <1>4, Zenon DEF OtherChip
<1>5. CASE ProcessMessage
  BY <1>5, Zenon DEF ProcessMessage, Next, Act
<1>6. CASE TripReset
  BY <1>6, Zenon DEF TripReset, Next, Urgent
<1>7. CASE DmcReset
  BY <1>7, Zenon DEF DmcReset, Next, Urgent, Act
<1>8. CASE DmcReboot
  BY <1>8, Zenon DEF DmcReboot, Next, Act
<1>9. CASE PerstReset
  BY <1>9, Zenon DEF PerstReset, Next
<1>10. CASE Carry
  BY <1>10, Zenon DEF Carry, Next, Post, Act, Urgent
<1>11. CASE UNCHANGED all_vars
  BY <1>11, Zenon DEF all_vars
<1> QED
  BY <1>1, <1>2, <1>3, <1>4, <1>5, <1>6, <1>7, <1>8, <1>9, <1>10, <1>11, Zenon DEF FanNext

(* The fan control uses the messages of Cm2Dm as they are specified: its     *)
(* behaviours are behaviours of the transport, whatever is posted and        *)
(* whichever resets it sees, so ActedOnce and FinalValueKept hold of it too. *)
THEOREM FanTransports == FanSpec => Spec
<1>1. FanInit => Init
  BY Zenon DEF FanInit
<1> QED
  BY <1>1, FanStepTransports, PTL DEF FanSpec, Spec

(* What the DMC holds for a chip (struct bh_chip_data).                      *)
Requests == [fan_speed : 0..100, fan_speed_forced : BOOLEAN]
(* Full duty after a trip is kept because the DMC's own request for the      *)
(* chip, forced and 100, is kept and outvotes every other, which must itself *)
(* not exceed 100.                                                           *)
FanInv ==
  /\ others \in Requests
  /\ tripped => chip = Request_(100, TRUE)
  /\ DutyFollowsRequests

(* 100 percent is the full duty cycle of 255.                                *)
LEMMA FullDuty == Duty(100) = 255
  BY SMTT(30) DEF Duty
(* A forced request of 100 outvotes any other (update_fan_speed).            *)
LEMMA TripOutvotes ==
  ASSUME NEW o \in Requests
  PROVE  Duty(BoardSpeed(Request_(100, TRUE), o)) = 255
<1>1. BoardSpeed(Request_(100, TRUE), o) = 100
  BY SMTT(30) DEF BoardSpeed, Request_, ForcedPart, Larger, Requests
<1> QED BY <1>1, FullDuty, Zenon

(* A speed in percent makes a request.                                       *)
LEMMA RequestType ==
  ASSUME NEW speed \in 0..100, NEW forced \in BOOLEAN
  PROVE  Request_(speed, forced) \in Requests
  BY Zenon DEF Request_, Requests

(* The speed the DMC starts with, on its own and for the board.              *)
LEMMA InitialSpeed ==
  /\ Request_(35, FALSE) \in Requests
  /\ BoardSpeed(Request_(35, FALSE), Request_(35, FALSE)) = 35
  BY SMTT(30) DEF BoardSpeed, Request_, ForcedPart, Larger, Requests

(* The DMC starts with it.                                                   *)
LEMMA FanInitInv == FanInit => FanInv
<1> SUFFICES ASSUME FanInit PROVE FanInv
  BY Zenon
<1>1. others \in Requests /\ ~tripped
  BY InitialSpeed, Zenon DEF FanInit, INITIAL_FAN_SPEED
<1>2. BoardSpeed(chip, others) = 35
  BY InitialSpeed, Zenon DEF FanInit, INITIAL_FAN_SPEED
<1> QED BY <1>1, <1>2, Zenon DEF FanInit, FanInv, DutyFollowsRequests, INITIAL_FAN_SPEED

(* Every step keeps it.                                                      *)
LEMMA FanStepInv == FanInv /\ [FanNext]_all_vars => FanInv'
<1> SUFFICES ASSUME FanInv, [FanNext]_all_vars PROVE FanInv'
  BY Zenon
<1>0. ASSUME UNCHANGED <<chip, others, pwm, tripped>> PROVE FanInv'
  BY <1>0, Zenon DEF FanInv, DutyFollowsRequests
<1>1. ASSUME NEW curve \in Data, fan_ctrl_work_handler(curve) PROVE FanInv'
  BY <1>0, <1>1, Zenon DEF fan_ctrl_work_handler
<1>2. ASSUME NEW raw \in Data \cup {Unforce}, NEW curve \in Data, force_fan_speed(raw, curve)
      PROVE  FanInv'
  BY <1>0, <1>2, Zenon DEF force_fan_speed
<1>3. ASSUME NEW id \in Ids, NEW d \in Data, OtherPost(id, d) PROVE FanInv'
  BY <1>0, <1>3, Zenon DEF OtherPost, fan_vars
<1>4. ASSUME NEW speed \in OtherSpeeds, NEW forced \in BOOLEAN, OtherChip(speed, forced)
      PROVE  FanInv'
  <2>1. others' \in Requests
    BY <1>4, RequestType, FanAssumption, Zenon DEF OtherChip, Update
  <2> QED BY <1>4, <2>1, Zenon DEF OtherChip, Update, FanInv, DutyFollowsRequests
<1>5. CASE ProcessMessage
  <2>1. CASE msg.msg_id \in {FanSpeedUpdate, ForcedFanSpeedUpdate}
    BY <1>5, <2>1, Zenon DEF ProcessMessage, Update, FanInv, DutyFollowsRequests
  <2>2. CASE msg.msg_id \notin {FanSpeedUpdate, ForcedFanSpeedUpdate}
    BY <1>0, <1>5, <2>2, Zenon DEF ProcessMessage, fan_vars
  <2> QED BY <2>1, <2>2, Zenon
<1>6. CASE TripReset
  <2>1. others' = others /\ chip' = Request_(100, TRUE) /\ pwm' = 255
    BY <1>6, Zenon DEF TripReset
  <2> QED BY <2>1, TripOutvotes, Zenon DEF FanInv, DutyFollowsRequests
<1>7. CASE DmcReset
  BY <1>0, <1>7, Zenon DEF DmcReset, KeepRequests
<1>8. CASE DmcReboot
  <2>1. /\ chip' = Request_(35, FALSE) /\ others' = Request_(35, FALSE)
        /\ pwm' = Duty(35) /\ tripped' = FALSE
    BY <1>8, Zenon DEF DmcReboot, INITIAL_FAN_SPEED
  <2>2. BoardSpeed(chip', others') = 35
    BY <2>1, InitialSpeed, Zenon
  <2>3. others' \in Requests
    BY <2>1, InitialSpeed, Zenon
  <2> QED BY <2>1, <2>2, <2>3, Zenon DEF FanInv, DutyFollowsRequests
<1>9. CASE PerstReset
  BY <1>0, <1>9, Zenon DEF PerstReset, KeepRequests
<1>10. CASE Carry
  BY <1>0, <1>10, Zenon DEF Carry, fan_vars
<1>11. CASE UNCHANGED all_vars
  BY <1>0, <1>11, Zenon DEF all_vars, fan_vars
<1> QED
  BY <1>1, <1>2, <1>3, <1>4, <1>5, <1>6, <1>7, <1>8, <1>9, <1>10, <1>11, Zenon DEF FanNext

(* It always holds.                                                          *)
LEMMA FanAlways == FanSpec => []FanInv
  BY FanInitInv, FanStepInv, PTL DEF FanSpec

(* "Hold fan at 100% until we hear otherwise from this chip" (main.c:436 and *)
(* 487): after a reset for heat or a hang the fan runs at full duty until a  *)
(* request of this chip is processed, whatever the other chips ask for.      *)
THEOREM FanFullAfterTrip == FanSpec => []FullDutyAfterTrip
<1>1. FanInv => FullDutyAfterTrip
  BY TripOutvotes, ZenonT(40) DEF FanInv, FullDutyAfterTrip, DutyFollowsRequests
<1> QED BY <1>1, FanAlways, PTL

(* The duty cycle always is the one that the requests of the chips determine *)
(* (update_fan_speed): no path changes a request and forgets the fan.        *)
THEOREM FanFollows == FanSpec => []DutyFollowsRequests
<1>1. FanInv => DutyFollowsRequests
  BY Zenon DEF FanInv
<1> QED BY <1>1, FanAlways, PTL

-----------------------------------------------------------------------------
AdBlock == [handle : Handles, chan : Channels, cur : BOOLEAN]

(* The handle is neither queued nor waiting to be handled.                   *)
AdUnused(h) == h \notin ad_done /\ \A w \in 1 .. Len(ad_queue) : ad_queue[w].handle # h

(* Handles in use are distinct.  While channel 0 is active, the handle it    *)
(* waits for is that of a block behind every other of its transfer, and the  *)
(* next handle is free for the block of a linked channel; once it is not,    *)
(* the transfer has nothing left in the engine.                              *)
AdTyped ==
  /\ ad_queue \in Seq(AdBlock) /\ ad_next \in Handles
  /\ ad_chan \in [Channels -> [state : {"FREE", "PREPARED", "ACTIVE", "IDLE"},
                               handle : Handles, linked : BOOLEAN]]
AdDistinct ==
  /\ \A w, j \in 1 .. Len(ad_queue) : w # j => ad_queue[w].handle # ad_queue[j].handle
  /\ \A w \in 1 .. Len(ad_queue) : ad_queue[w].handle \notin ad_done
AdLast ==
  \A w \in 1 .. Len(ad_queue) :
    ad_queue[w].chan = 0 /\ ad_queue[w].cur =>
      \E j \in 1 .. Len(ad_queue) : j >= w /\ ad_queue[j].handle = ad_chan[0].handle
AdWaits ==
  /\ ad_chan[0].state = "ACTIVE" => ad_call = "wait" /\ AdUnused(ad_next) /\ AdLast
  /\ ad_call = "wait" /\ ad_chan[0].state # "ACTIVE" => ~AdPending(0)
AdIInv == AdTyped /\ AdDistinct /\ AdWaits /\ AdTrueSuccess

(* Handles are given out in a circle.                                        *)
LEMMA AdCircle ==
  ASSUME NEW a \in Handles, NEW w \in 0 .. AdDesc - 1
  PROVE  (a + w) % AdDesc = (IF a + w < AdDesc THEN a + w ELSE a + w - AdDesc)
         /\ (a + w) % AdDesc \in Handles
<1>1. AdDesc \in Nat /\ AdDesc > 0
  BY AdAssumption, SMTT(30)
<1>2. (a + w) % AdDesc = (IF a + w < AdDesc THEN a + w ELSE a + w - AdDesc)
  BY <1>1, SMTT(30) DEF Handles
<1> QED BY <1>1, <1>2, SMTT(30) DEF Handles

(* Two descriptors of one copy have different handles: dma_arc_hs_config     *)
(* numbers them modulo the size of the descriptor table.                     *)
LEMMA AdApart ==
  ASSUME NEW a \in Handles, NEW w \in 0 .. AdDesc - 1, NEW j \in 0 .. AdDesc - 1, w # j
  PROVE  (a + w) % AdDesc # (a + j) % AdDesc
<1>1. AdDesc \in Nat /\ AdDesc > 0 /\ a \in Int /\ a >= 0 /\ a < AdDesc
  BY AdAssumption, SMTT(30) DEF Handles
<1>2. /\ (a + w) % AdDesc = (IF a + w < AdDesc THEN a + w ELSE a + w - AdDesc)
      /\ (a + j) % AdDesc = (IF a + j < AdDesc THEN a + j ELSE a + j - AdDesc)
  BY AdCircle, Zenon
<1>3. \A x, y : x = (IF a + w < AdDesc THEN a + w ELSE a + w - AdDesc)
             /\ y = (IF a + j < AdDesc THEN a + j ELSE a + j - AdDesc) => x # y
  BY <1>1, SMTT(30)
<1> QED BY <1>2, <1>3, Zenon

(* Concatenation of two sequences of blocks, entry by entry.                 *)
LEMMA AdConcat ==
  \A s, t \in Seq(AdBlock) :
    /\ s \o t \in Seq(AdBlock) /\ Len(s \o t) = Len(s) + Len(t)
    /\ \A w \in 1 .. Len(s) : (s \o t)[w] = s[w]
    /\ \A w \in 1 .. Len(t) : (s \o t)[Len(s) + w] = t[w]
<1> TAKE s, t \in Seq(AdBlock)
<1>1. s \o t \in Seq(AdBlock) /\ Len(s \o t) = Len(s) + Len(t)
  BY SMTT(30)
<1>2. \A w \in 1 .. Len(s) : (s \o t)[w] = s[w]
  BY SMTT(30)
<1>3. \A w \in 1 .. Len(t) : (s \o t)[Len(s) + w] = t[w]
  BY SMTT(30)
<1> QED BY <1>1, <1>2, <1>3, Zenon

(* What the queue is after n more blocks of a channel.                       *)
LEMMA AdStarted ==
  ASSUME AdTyped, NEW c \in Channels, NEW n \in 1 .. AdDesc - 1,
         ad_queue' = dma_arc_hs_start_hw(c, n)
  PROVE  /\ ad_queue' \in Seq(AdBlock) /\ Len(ad_queue') = Len(ad_queue) + n
         /\ \A w \in 1 .. Len(ad_queue) :
              /\ ad_queue'[w].handle = ad_queue[w].handle /\ ad_queue'[w].chan = ad_queue[w].chan
              /\ ad_queue[w].chan = c => ~ad_queue'[w].cur
              /\ ad_queue[w].chan # c => ad_queue'[w] = ad_queue[w]
         /\ \A w \in 1 .. n : ad_queue'[Len(ad_queue) + w] =
              [handle |-> (ad_next + (w - 1)) % AdDesc, chan |-> c, cur |-> TRUE]
<1> DEFINE old == [w \in 1 .. Len(ad_queue) |->
                     IF ad_queue[w].chan = c THEN [ad_queue[w] EXCEPT !.cur = FALSE] ELSE ad_queue[w]]
           new == [w \in 1 .. n |-> [handle |-> (ad_next + w - 1) % AdDesc, chan |-> c, cur |-> TRUE]]
<1>1. \A b \in AdBlock : LET e == [b EXCEPT !.cur = FALSE] IN
        e \in AdBlock /\ e.handle = b.handle /\ e.chan = b.chan /\ e.cur = FALSE
  BY Zenon DEF AdBlock
<1>2. ad_queue \in Seq(AdBlock) /\ Len(ad_queue) \in Nat
      /\ \A w \in 1 .. Len(ad_queue) : ad_queue[w] \in AdBlock
  BY SMTT(30) DEF AdTyped
<1>3. /\ \A w \in 1 .. Len(ad_queue) :
           /\ old[w] \in AdBlock /\ old[w].handle = ad_queue[w].handle /\ old[w].chan = ad_queue[w].chan
           /\ ad_queue[w].chan = c => old[w].cur = FALSE
           /\ ad_queue[w].chan # c => old[w] = ad_queue[w]
  BY <1>1, <1>2, Zenon
<1>4. old \in Seq(AdBlock) /\ Len(old) = Len(ad_queue)
  <2>1. old = [w \in 1 .. Len(ad_queue) |-> old[w]]
    BY Zenon
  <2> HIDE DEF old
  <2>2. old \in [1 .. Len(ad_queue) -> AdBlock]
    BY <1>3, <2>1, Zenon
  <2> QED BY <1>2, <2>2, SMTT(30)
<1>5. \A w \in 1 .. n : ad_next + w - 1 = ad_next + (w - 1) /\ w - 1 \in 0 .. AdDesc - 1
  BY AdAssumption, SMTT(30) DEF AdTyped, Handles
<1>6. \A w \in 1 .. n : /\ new[w] = [handle |-> (ad_next + (w - 1)) % AdDesc, chan |-> c, cur |-> TRUE]
                        /\ (ad_next + (w - 1)) % AdDesc \in Handles
  BY <1>5, AdCircle, Zenon DEF AdTyped
<1>7. new \in Seq(AdBlock) /\ Len(new) = n
  <2>0. \A h \in Handles : [handle |-> h, chan |-> c, cur |-> TRUE] \in AdBlock
    BY Zenon DEF AdBlock
  <2>1. new = [w \in 1 .. n |-> new[w]] /\ \A w \in 1 .. n : new[w] \in AdBlock
    BY <1>6, <2>0, Zenon
  <2> HIDE DEF new
  <2>2. new \in [1 .. n -> AdBlock]
    BY <2>1, Zenon
  <2>3. n \in Nat
    BY AdAssumption, SMTT(30)
  <2> QED BY <2>2, <2>3, SMTT(30)
<1>0. n \in Nat /\ n >= 1
  BY AdAssumption, SMTT(30)
<1>8. ad_queue' = old \o new
  BY Zenon DEF dma_arc_hs_start_hw
<1> HIDE DEF old, new
<1>9. /\ ad_queue' \in Seq(AdBlock) /\ Len(ad_queue') = Len(ad_queue) + n
      /\ \A w \in 1 .. Len(ad_queue) : ad_queue'[w] = old[w]
      /\ \A w \in 1 .. n : ad_queue'[Len(ad_queue) + w] = new[w]
  <2>1. /\ old \o new \in Seq(AdBlock) /\ Len(old \o new) = Len(old) + Len(new)
        /\ \A w \in 1 .. Len(old) : (old \o new)[w] = old[w]
        /\ \A w \in 1 .. Len(new) : (old \o new)[Len(old) + w] = new[w]
    <3>1. old \in Seq(AdBlock) /\ new \in Seq(AdBlock)
      BY <1>4, <1>7, Zenon
    <3> QED BY <3>1, AdConcat, Zenon
  <2> QED BY <1>4, <1>7, <1>8, <2>1, Zenon
<1> QED BY <1>3, <1>6, <1>9, Zenon

(* Starting n blocks with unused handles, the one after them unused too.     *)
LEMMA AdStartDistinct ==
  ASSUME AdTyped, AdDistinct, NEW c \in Channels, NEW n \in 1 .. AdDesc - 1,
         ad_queue' = dma_arc_hs_start_hw(c, n), ad_done' \subseteq ad_done,
         \A w \in 0 .. n - 1 : AdUnused((ad_next + w) % AdDesc)
  PROVE  AdDistinct'
<1> DEFINE q == ad_queue'
           l == Len(ad_queue)
<1>1. /\ q \in Seq(AdBlock) /\ Len(q) = l + n /\ l \in Nat
      /\ \A w \in 1 .. l : q[w].handle = ad_queue[w].handle
      /\ \A w \in 1 .. n : q[l + w].handle = (ad_next + (w - 1)) % AdDesc
  <2>1. l \in Nat
    BY SMTT(30) DEF AdTyped
  <2>2. /\ q \in Seq(AdBlock) /\ Len(q) = l + n
        /\ \A w \in 1 .. l : q[w].handle = ad_queue[w].handle
        /\ \A w \in 1 .. n : q[l + w] = [handle |-> (ad_next + (w - 1)) % AdDesc, chan |-> c, cur |-> TRUE]
    BY AdStarted, Zenon
  <2> HIDE DEF q, l
  <2>3. \A h : [handle |-> h, chan |-> c, cur |-> TRUE].handle = h
    BY Zenon
  <2> QED BY <2>1, <2>2, <2>3, Zenon
<1>2. n \in Nat /\ AdDesc \in Nat /\ \A w \in 1 .. n : w - 1 \in 0 .. n - 1 /\ w - 1 \in 0 .. AdDesc - 1
  BY AdAssumption, SMTT(30)
<1>3. \A w \in 1 .. n : AdUnused(q[l + w].handle)
  BY <1>1, <1>2, Zenon
<1>4. \A w, j \in 1 .. n : w # j => q[l + w].handle # q[l + j].handle
  <2> TAKE w, j \in 1 .. n
  <2> HAVE w # j
  <2>1. w - 1 # j - 1 /\ w - 1 \in 0 .. AdDesc - 1 /\ j - 1 \in 0 .. AdDesc - 1 /\ ad_next \in Handles
    BY <1>2, SMTT(30) DEF AdTyped
  <2>2. (ad_next + (w - 1)) % AdDesc # (ad_next + (j - 1)) % AdDesc
    BY <2>1, AdApart, Zenon
  <2> QED BY <1>1, <2>2, Zenon
<1>5. \A k \in 1 .. Len(q) : k \in 1 .. l \/ \E w \in 1 .. n : k = l + w
  <2> TAKE k \in 1 .. Len(q)
  <2>1. CASE k <= l
    BY <1>1, <2>1, SMTT(30)
  <2>2. CASE k > l
    <3>1. k - l \in 1 .. n /\ k = l + (k - l)
      BY <1>1, <1>2, <2>2, SMTT(30)
    <3> QED BY <3>1, Zenon
  <2> QED BY <1>1, <2>1, <2>2, SMTT(30)
<1> HIDE DEF q, l
<1>6. \A w, j \in 1 .. Len(q) : w # j => q[w].handle # q[j].handle
  <2> TAKE w, j \in 1 .. Len(q)
  <2> HAVE w # j
  <2>1. CASE w \in 1 .. l /\ j \in 1 .. l
    <3>1. ad_queue[w].handle # ad_queue[j].handle
      BY <2>1, Zenon DEF AdDistinct, l
    <3> QED BY <1>1, <2>1, <3>1, Zenon
  <2>2. CASE w \in 1 .. l /\ j \notin 1 .. l
    <3>1. PICK y \in 1 .. n : j = l + y
      BY <1>5, <2>2, Zenon
    <3>2. ad_queue[w].handle # q[j].handle
      BY <1>3, <2>2, <3>1, Zenon DEF AdUnused, l
    <3> QED BY <1>1, <2>2, <3>2, Zenon
  <2>3. CASE w \notin 1 .. l /\ j \in 1 .. l
    <3>1. PICK x \in 1 .. n : w = l + x
      BY <1>5, <2>3, Zenon
    <3>2. ad_queue[j].handle # q[w].handle
      BY <1>3, <2>3, <3>1, Zenon DEF AdUnused, l
    <3> QED BY <1>1, <2>3, <3>2, Zenon
  <2>4. CASE w \notin 1 .. l /\ j \notin 1 .. l
    <3>1. PICK x, y \in 1 .. n : w = l + x /\ j = l + y
      BY <1>5, <2>4, Zenon
    <3> QED BY <1>4, <3>1, Zenon
  <2> QED BY <2>1, <2>2, <2>3, <2>4, Zenon
<1>7. \A w \in 1 .. Len(q) : q[w].handle \notin ad_done'
  <2>1. \A w \in 1 .. l : q[w].handle \notin ad_done
    BY <1>1, Zenon DEF AdDistinct, l
  <2>2. \A w \in 1 .. n : q[l + w].handle \notin ad_done
    BY <1>3, Zenon DEF AdUnused
  <2> QED BY <1>5, <2>1, <2>2, Zenon
<1> QED BY <1>6, <1>7, Zenon DEF AdDistinct, q

(* A step that takes nothing but the head of the queue, and may mark it      *)
(* done.                                                                     *)
LEMMA AdPopped ==
  ASSUME AdIInv, ad_queue # <<>>, ad_queue' = Tail(ad_queue),
         ad_done' \in {ad_done, ad_done \cup {Head(ad_queue).handle}},
         UNCHANGED <<ad_chan, ad_next, ad_call>>
  PROVE  AdIInv'
<1> DEFINE q == ad_queue'
           l == Len(ad_queue)
<1>1. /\ l \in Nat /\ l > 0 /\ q \in Seq(AdBlock) /\ Len(q) = l - 1
      /\ \A w \in 1 .. l - 1 : q[w] = ad_queue[w + 1] /\ w + 1 \in 1 .. l
      /\ Head(ad_queue) = ad_queue[1] /\ 1 \in 1 .. l
  BY SMTT(30) DEF AdIInv, AdTyped
<1>2. AdTyped'
  BY <1>1, Zenon DEF AdIInv, AdTyped
<1>3. AdDistinct'
  <2>1. \A w, j \in 1 .. l - 1 : w # j => w + 1 # j + 1
    BY <1>1, SMTT(30)
  <2>2. \A w \in 1 .. l - 1 : w + 1 # 1
    BY <1>1, SMTT(30)
  <2> HIDE DEF q, l
  <2>3. \A w, j \in 1 .. Len(q) : w # j => q[w].handle # q[j].handle
    <3> SUFFICES ASSUME NEW w \in 1 .. Len(q), NEW j \in 1 .. Len(q), w # j
                 PROVE  q[w].handle # q[j].handle
      BY Zenon
    <3>1. w \in 1 .. l - 1 /\ j \in 1 .. l - 1
      BY <1>1, Zenon
    <3>2. /\ q[w] = ad_queue[w + 1] /\ q[j] = ad_queue[j + 1] /\ w + 1 # j + 1
          /\ w + 1 \in 1 .. l /\ j + 1 \in 1 .. l
      BY <1>1, <2>1, <3>1, Zenon
    <3>3. ad_queue[w + 1].handle # ad_queue[j + 1].handle
      BY <3>2, Zenon DEF AdIInv, AdDistinct, l
    <3> QED BY <3>2, <3>3, Zenon
  <2>4. \A w \in 1 .. Len(q) : q[w].handle \notin ad_done /\ q[w].handle # ad_queue[1].handle
    <3> TAKE w \in 1 .. Len(q)
    <3>1. q[w] = ad_queue[w + 1] /\ w + 1 \in 1 .. l /\ w + 1 # 1 /\ 1 \in 1 .. l
      BY <1>1, <2>2, Zenon
    <3>2. ad_queue[w + 1].handle \notin ad_done /\ ad_queue[w + 1].handle # ad_queue[1].handle
      BY <3>1, Zenon DEF AdIInv, AdDistinct, l
    <3> QED BY <3>1, <3>2, Zenon
  <2>5. \A h \in ad_done' : h \in ad_done \/ h = ad_queue[1].handle
    BY <1>1, Zenon
  <2> QED BY <2>3, <2>4, <2>5, Zenon DEF AdDistinct, q
<1>4. AdPending(0)' => AdPending(0)
  BY <1>1, ZenonT(40) DEF AdPending
<1>5. AdLast => AdLast'
  <2> SUFFICES ASSUME AdLast, NEW w \in 1 .. Len(q), q[w].chan = 0 /\ q[w].cur
               PROVE  \E j \in 1 .. Len(q) : j >= w /\ q[j].handle = ad_chan[0].handle
    BY Zenon DEF AdLast
  <2>1. PICK j \in 1 .. l : j >= w + 1 /\ ad_queue[j].handle = ad_chan[0].handle
    BY <1>1, SMTT(30) DEF AdLast
  <2>2. j - 1 \in 1 .. l - 1 /\ j - 1 >= w /\ (j - 1) + 1 = j
    BY <1>1, <2>1, SMTT(30)
  <2>3. q[j - 1] = ad_queue[j] /\ j - 1 \in 1 .. Len(q)
    BY <1>1, <2>2, Zenon
  <2> HIDE DEF q
  <2> QED BY <2>1, <2>2, <2>3, Zenon
<1>6. ad_chan[0].state = "ACTIVE" => AdUnused(ad_next)'
  <2>1. CASE ad_chan[0].state = "ACTIVE"
    <3>1. ad_next \notin ad_done /\ \A w \in 1 .. l : ad_queue[w].handle # ad_next
      BY <2>1, Zenon DEF AdIInv, AdWaits, AdUnused
    <3>2. \A w \in 1 .. Len(q) : q[w].handle # ad_next
      BY <1>1, <3>1, Zenon
    <3>3. ad_next \notin ad_done'
      BY <1>1, <3>1, Zenon
    <3> QED BY <3>2, <3>3, Zenon DEF AdUnused
  <2> QED BY <2>1, Zenon
<1> QED BY <1>2, <1>3, <1>4, <1>5, <1>6, Zenon DEF AdIInv, AdWaits, AdTrueSuccess

(* A transfer is started.                                                    *)
LEMMA AdTransferInv ==
  ASSUME AdIInv, NEW n \in 1 .. AdBlocks, NEW link \in BOOLEAN, dma_arc_hs_transfer(n, link)
  PROVE  AdIInv'
<1> DEFINE l == Len(ad_queue)
<1>1. /\ ad_queue' = dma_arc_hs_start_hw(0, n) /\ ad_next' = (ad_next + n) % AdDesc
      /\ ad_call' = "wait" /\ ad_done' = ad_done
  BY Zenon DEF dma_arc_hs_transfer, dma_arc_hs_start
<1>2. /\ AdDesc \in Nat /\ n \in 1 .. AdDesc - 1 /\ n \in 0 .. AdDesc - 1
      /\ n - 1 \in 0 .. AdDesc - 1 /\ n \in 1 .. n /\ 0 \in Channels /\ 1 \in Channels
      /\ ad_next + n - 1 = ad_next + (n - 1) /\ n # n - 1
      /\ \A w \in 0 .. n - 1 : w \in 0 .. n /\ w \in 0 .. AdDesc - 1 /\ w # n
      /\ \A w \in 1 .. n : w - 1 \in 0 .. n - 1
  BY AdAssumption, SMTT(30) DEF Channels, AdIInv, AdTyped, Handles
<1>3. \A w \in 0 .. n : AdUnused((ad_next + w) % AdDesc)
  BY Zenon DEF dma_arc_hs_transfer, AdFresh, AdUnused
<1>4. /\ ad_queue' \in Seq(AdBlock) /\ Len(ad_queue') = l + n /\ l \in Nat
      /\ \A w \in 1 .. l : /\ ad_queue'[w].handle = ad_queue[w].handle
                           /\ ad_queue'[w].chan = 0 => ~ad_queue'[w].cur
      /\ \A w \in 1 .. n : ad_queue'[l + w].handle = (ad_next + (w - 1)) % AdDesc
  <2>1. l \in Nat
    BY SMTT(30) DEF AdIInv, AdTyped
  <2>2. \A h : [handle |-> h, chan |-> 0, cur |-> TRUE].handle = h
    BY Zenon
  <2>3. AdTyped
    BY Zenon DEF AdIInv
  <2>4. /\ ad_queue' \in Seq(AdBlock) /\ Len(ad_queue') = l + n
        /\ \A w \in 1 .. l : /\ ad_queue'[w].handle = ad_queue[w].handle
                             /\ ad_queue'[w].chan = ad_queue[w].chan
                             /\ ad_queue[w].chan = 0 => ~ad_queue'[w].cur
        /\ \A w \in 1 .. n : ad_queue'[l + w] = [handle |-> (ad_next + (w - 1)) % AdDesc, chan |-> 0, cur |-> TRUE]
    BY <1>1, <1>2, <2>3, AdStarted, Zenon
  <2> HIDE DEF l
  <2> QED BY <2>1, <2>2, <2>4, Zenon
<1>5. /\ ad_chan'[0].state = "ACTIVE" /\ ad_chan'[0].handle = (ad_next + (n - 1)) % AdDesc
      /\ AdTyped'
  <2>1. (ad_next + (n - 1)) % AdDesc \in Handles /\ (ad_next + n) % AdDesc \in Handles
    BY <1>2, AdCircle, Zenon DEF AdIInv, AdTyped
  <2> DEFINE R == [state : {"FREE", "PREPARED", "ACTIVE", "IDLE"}, handle : Handles, linked : BOOLEAN]
             first == [state |-> "ACTIVE", linked |-> link, handle |-> (ad_next + (n - 1)) % AdDesc]
  <2>2. ad_chan' = [c \in Channels |-> IF c = 0 THEN first
                     ELSE IF link THEN [ad_chan[c] EXCEPT !.state = "PREPARED"] ELSE ad_chan[c]]
    BY <1>2, Zenon DEF dma_arc_hs_transfer, dma_arc_hs_start, dma_arc_hs_get_handle_hw
  <2>3. first \in R /\ first.state = "ACTIVE" /\ first.handle = (ad_next + (n - 1)) % AdDesc
    BY <2>1, Zenon
  <2>4. \A r \in R : [r EXCEPT !.state = "PREPARED"] \in R
    BY Zenon
  <2>5. ad_chan \in [Channels -> R]
    BY Zenon DEF AdIInv, AdTyped
  <2> HIDE DEF first, R
  <2>6. ad_chan' \in [Channels -> R] /\ ad_chan'[0] = first
    BY <1>2, <2>2, <2>3, <2>4, <2>5, Zenon
  <2> QED BY <1>1, <1>4, <2>1, <2>3, <2>6, Zenon DEF AdTyped, R
<1>6. AdDistinct'
  BY <1>1, <1>2, <1>3, AdStartDistinct, Zenon DEF AdIInv
<1>7. AdUnused(ad_next)'
  <2>1. AdUnused((ad_next + n) % AdDesc)
    BY <1>2, <1>3, SMTT(30)
  <2>2. \A w \in 1 .. n : ad_queue'[l + w].handle # ad_next'
    <3> TAKE w \in 1 .. n
    <3>1. w - 1 \in 0 .. AdDesc - 1 /\ w - 1 # n /\ n \in 0 .. AdDesc - 1 /\ ad_next \in Handles
      BY <1>2, Zenon DEF AdIInv, AdTyped
    <3>2. (ad_next + (w - 1)) % AdDesc # (ad_next + n) % AdDesc
      BY <3>1, AdApart, Zenon
    <3> QED BY <1>1, <1>4, <3>2, Zenon
  <2>3. \A w \in 1 .. l : ad_queue'[w].handle # ad_next'
    BY <1>1, <1>4, <2>1, Zenon DEF AdUnused
  <2>4. \A k \in 1 .. l + n : k \in 1 .. l \/ (k - l \in 1 .. n /\ k = l + (k - l))
    BY <1>2, <1>4, SMTT(30)
  <2>5. \A k \in 1 .. l + n : ad_queue'[k].handle # ad_next'
    BY <2>2, <2>3, <2>4, Zenon
  <2> QED BY <1>1, <1>4, <2>1, <2>5, Zenon DEF AdUnused
<1>8. AdLast'
  <2> SUFFICES ASSUME NEW w \in 1 .. l + n, ad_queue'[w].chan = 0 /\ ad_queue'[w].cur
               PROVE  \E j \in 1 .. l + n : j >= w /\ ad_queue'[j].handle = ad_chan'[0].handle
    BY <1>4, Zenon DEF AdLast
  <2>1. l + n \in 1 .. l + n /\ l + n >= w
    BY <1>2, <1>4, SMTT(30)
  <2>2. ad_queue'[l + n].handle = ad_chan'[0].handle
    BY <1>2, <1>4, <1>5, Zenon
  <2> QED BY <2>1, <2>2, Zenon
<1> QED BY <1>1, <1>5, <1>6, <1>7, <1>8, Zenon DEF AdIInv, AdWaits, AdTrueSuccess

(* The interrupt handler reads a completion register: if channel 0 waits for *)
(* one of its handles, nothing of its transfer is left in the engine.        *)
LEMMA AdScanInv ==
  ASSUME AdIInv, AdIsrScan PROVE AdIInv'
<1>1. PICK bits \in SUBSET ad_done : ad_done' = ad_done \ bits /\ dma_arc_hs_process_handle(bits)
  <2> DEFINE b == {h \in ad_done : h \div AdGroup = ad_isr.group}
  <2>1. ad_done' = ad_done \ b /\ dma_arc_hs_process_handle(b)
    BY Zenon DEF AdIsrScan
  <2>2. b \in SUBSET ad_done
    BY Zenon
  <2> QED BY <2>1, <2>2, Zenon
<1>2. ad_call' = ad_call
  BY Zenon DEF AdIsrScan
<1> DEFINE R == [state : {"FREE", "PREPARED", "ACTIVE", "IDLE"}, handle : Handles, linked : BOOLEAN]
           ended == 0 \in AdFinished(bits)
<1>3. /\ ad_next \in Handles /\ (ad_next + 0) % AdDesc = ad_next
      /\ (ad_next + 1) % AdDesc \in Handles /\ (ad_next + 1 - 1) % AdDesc = ad_next
      /\ 1 \in 1 .. AdDesc - 1 /\ 0 .. 1 - 1 = {0}
  <2>1. AdDesc \in Nat /\ AdDesc >= 3
    BY AdAssumption, SMTT(30)
  <2>2. ad_next \in 0 .. AdDesc - 1
    BY Zenon DEF AdIInv, AdTyped, Handles
  <2>5. ad_next + 0 = ad_next /\ ad_next + 1 - 1 = ad_next /\ ad_next < AdDesc
    BY <2>1, <2>2, SMTT(30)
  <2>3. ad_next % AdDesc = ad_next
    BY <2>1, <2>2, SMTT(30)
  <2>4. (ad_next + 1) % AdDesc \in Handles
    BY <2>1, <2>2, AdCircle, SMTT(30) DEF Handles
  <2>6. 1 \in 1 .. AdDesc - 1 /\ 0 .. 1 - 1 = {0}
    BY <2>1, SMTT(30)
  <2> QED BY <2>2, <2>3, <2>4, <2>5, <2>6, Zenon DEF Handles
<1>4. /\ ad_chan' \in [Channels -> R]
      /\ ended => ad_chan'[0].state = "IDLE" /\ ad_chan[0].state = "ACTIVE" /\ ad_chan[0].handle \in ad_done
      /\ ~ended => ad_chan'[0] = ad_chan[0]
  <2>1. /\ \A r \in R : [r EXCEPT !.state = "IDLE"] \in R /\ [r EXCEPT !.state = "IDLE"].state = "IDLE"
        /\ \A r \in R, h \in Handles : [r EXCEPT !.state = "ACTIVE", !.handle = h] \in R
    BY Zenon
  <2>2. ad_chan \in [Channels -> R] /\ 0 \in Channels /\ 0 # 1
    BY SMTT(30) DEF AdIInv, AdTyped, Channels
  <2>3. dma_arc_hs_get_handle_hw(1) \in Handles
    BY <1>3, Zenon DEF dma_arc_hs_get_handle_hw
  <2>4. ended => ad_chan[0].state = "ACTIVE" /\ ad_chan[0].handle \in ad_done
    BY <1>1, Zenon DEF AdFinished
  <2> HIDE DEF R, ended
  <2>5. ad_chan' = [c \in Channels |->
         IF c = 1 /\ AdTriggers(bits)
         THEN [ad_chan[c] EXCEPT !.state = "ACTIVE", !.handle = dma_arc_hs_get_handle_hw(1)]
         ELSE IF c \in AdFinished(bits) THEN [ad_chan[c] EXCEPT !.state = "IDLE"]
         ELSE ad_chan[c]]
    BY <1>1, Zenon DEF dma_arc_hs_process_handle
  <2>6. ad_chan' \in [Channels -> R]
    BY <2>1, <2>2, <2>3, <2>5, Zenon
  <2>7. ad_chan'[0] = IF ended THEN [ad_chan[0] EXCEPT !.state = "IDLE"] ELSE ad_chan[0]
    BY <2>2, <2>5, Zenon DEF ended
  <2>8. ad_chan[0] \in R
    BY <2>2, Zenon
  <2>9. CASE ended
    BY <2>1, <2>4, <2>6, <2>7, <2>8, <2>9, Zenon
  <2>10. CASE ~ended
    BY <2>6, <2>7, <2>10, Zenon
  <2> QED BY <2>9, <2>10, Zenon
<1>5. ended => ~AdPending(0) /\ ad_call = "wait"
  <2> SUFFICES ASSUME ended PROVE ~AdPending(0) /\ ad_call = "wait"
    BY Zenon
  <2>1. ad_call = "wait" /\ AdLast
    BY <1>4, Zenon DEF AdIInv, AdWaits
  <2>2. \A j \in 1 .. Len(ad_queue) : ad_queue[j].handle # ad_chan[0].handle
    BY <1>4, Zenon DEF AdIInv, AdDistinct
  <2> HIDE DEF ended
  <2> QED BY <2>1, <2>2, Zenon DEF AdLast, AdPending
<1>6. CASE AdTriggers(bits)
  <2>1. ended /\ ad_queue' = dma_arc_hs_start_hw(1, 1) /\ ad_next' = (ad_next + 1) % AdDesc
    BY <1>1, <1>6, Zenon DEF AdTriggers, dma_arc_hs_process_handle
  <2>2. 1 \in Channels /\ AdTyped /\ AdDistinct /\ ad_done' \subseteq ad_done
    BY <1>1, Zenon DEF Channels, AdIInv
  <2>3. /\ ad_queue' \in Seq(AdBlock) /\ Len(ad_queue') = Len(ad_queue) + 1
        /\ \A w \in 1 .. Len(ad_queue) : ad_queue[w].chan # 1 => ad_queue'[w] = ad_queue[w]
        /\ \A w \in 1 .. Len(ad_queue) : ad_queue'[w].chan = ad_queue[w].chan
        /\ \A w \in 1 .. 1 : ad_queue'[Len(ad_queue) + w] =
              [handle |-> (ad_next + (w - 1)) % AdDesc, chan |-> 1, cur |-> TRUE]
    BY <1>3, <2>1, <2>2, AdStarted, Zenon
  <2>4. AdDistinct'
    <3>1. AdUnused(ad_next)
      BY <1>4, <2>1, Zenon DEF AdIInv, AdWaits
    <3>2. \A w \in 0 .. 1 - 1 : AdUnused((ad_next + w) % AdDesc)
      BY <1>3, <3>1, Zenon
    <3> QED BY <1>3, <2>1, <2>2, <3>2, AdStartDistinct, Zenon
  <2>5. ~AdPending(0)'
    <3>1. Len(ad_queue) \in Nat /\ \A k \in 1 .. Len(ad_queue) + 1 : k \in 1 .. Len(ad_queue) \/ k = Len(ad_queue) + 1
      BY <2>2, SMTT(30) DEF AdTyped
    <3>2. ad_queue'[Len(ad_queue) + 1].chan = 1
      BY <2>3, SMTT(30)
    <3>3. \A w \in 1 .. Len(ad_queue) : ad_queue'[w].chan = 0 => ad_queue'[w] = ad_queue[w]
      BY <2>3, SMTT(30)
    <3> QED BY <1>5, <2>1, <2>3, <3>1, <3>2, <3>3, SMTT(30) DEF AdPending
  <2>6. AdTyped'
    BY <1>3, <1>4, <2>1, <2>3, Zenon DEF AdTyped
  <2>7. ad_chan'[0].state = "IDLE" /\ ad_call' = "wait"
    BY <1>2, <1>4, <1>5, <2>1, Zenon
  <2> QED BY <2>4, <2>5, <2>6, <2>7, Zenon DEF AdIInv, AdWaits, AdTrueSuccess
<1>7. CASE ~AdTriggers(bits)
  <2>1. ad_queue' = ad_queue /\ ad_next' = ad_next
    BY <1>1, <1>7, Zenon DEF dma_arc_hs_process_handle
  <2>2. AdTyped'
    BY <1>4, <2>1, Zenon DEF AdIInv, AdTyped
  <2>3. AdDistinct'
    <3>1. \A h : h \notin ad_done => h \notin ad_done'
      BY <1>1, Zenon
    <3> QED BY <2>1, <3>1, ZenonT(40) DEF AdIInv, AdDistinct
  <2>4. AdPending(0)' <=> AdPending(0)
    BY <2>1, Zenon DEF AdPending
  <2>5. CASE ended
    BY <1>2, <1>4, <1>5, <2>2, <2>3, <2>4, <2>5, Zenon DEF AdIInv, AdWaits, AdTrueSuccess
  <2>6. CASE ~ended
    <3>1. ad_chan'[0] = ad_chan[0]
      BY <1>4, <2>6, Zenon
    <3>2. /\ AdLast => AdLast'
          /\ AdUnused(ad_next) => AdUnused(ad_next)'
      BY <1>1, <2>1, <3>1, SMTT(30) DEF AdLast, AdUnused
    <3> QED BY <1>2, <2>2, <2>3, <2>4, <3>1, <3>2, Zenon DEF AdIInv, AdWaits, AdTrueSuccess
  <2> QED BY <2>5, <2>6, Zenon
<1> QED BY <1>6, <1>7, Zenon

(* Every step of the driver, the engine and the callers keeps the invariant. *)
LEMMA AdStepInv == AdIInv /\ [AdNext]_ad_vars => AdIInv'
<1> SUFFICES ASSUME AdIInv, [AdNext]_ad_vars PROVE AdIInv'
  BY Zenon
<1>1. CASE UNCHANGED <<ad_chan, ad_next, ad_queue, ad_done, ad_call>>
  BY <1>1, ZenonT(40) DEF AdIInv, AdTyped, AdDistinct, AdWaits, AdUnused, AdLast, AdPending, AdTrueSuccess
<1>2. CASE dma_arc_hs_get_status
  <2>1. /\ ad_call = "wait" /\ ad_chan[0].state # "ACTIVE" /\ ad_call' = "ok"
        /\ UNCHANGED <<ad_chan, ad_next, ad_queue, ad_done>>
    BY <1>2, Zenon DEF dma_arc_hs_get_status
  <2> QED BY <2>1, ZenonT(40) DEF AdIInv, AdTyped, AdDistinct, AdWaits, AdUnused, AdLast, AdPending, AdTrueSuccess
<1>3. CASE AdTimeout
  <2>1. ad_call' = "timeout" /\ UNCHANGED <<ad_next, ad_queue>> /\ dma_arc_hs_stop
    BY <1>3, Zenon DEF AdTimeout
  <2> DEFINE R == [state : {"FREE", "PREPARED", "ACTIVE", "IDLE"}, handle : Handles, linked : BOOLEAN]
  <2>2. ad_chan' \in [Channels -> R] /\ ad_chan'[0].state # "ACTIVE" /\ ad_done' \subseteq ad_done
    <3>1. ad_chan \in [Channels -> R] /\ 0 \in Channels
      BY Zenon DEF AdIInv, AdTyped, Channels
    <3>2. \A r \in R : [r EXCEPT !.state = "IDLE"] \in R /\ [r EXCEPT !.state = "IDLE"].state = "IDLE"
      BY Zenon
    <3>3. CASE ad_chan[0].state = "ACTIVE"
      <4>1. /\ ad_chan' = [ad_chan EXCEPT ![0] = [ad_chan[0] EXCEPT !.state = "IDLE"]]
            /\ ad_done' = ad_done \ {ad_chan[0].handle}
        BY <2>1, <3>3, Zenon DEF dma_arc_hs_stop
      <4> HIDE DEF R
      <4> QED BY <3>1, <3>2, <4>1, Zenon
    <3>4. CASE ad_chan[0].state # "ACTIVE"
      BY <2>1, <3>1, <3>4, Zenon DEF dma_arc_hs_stop
    <3> QED BY <3>3, <3>4, Zenon
  <2> QED BY <2>1, <2>2, Zenon DEF AdIInv, AdTyped, AdDistinct, AdWaits, AdTrueSuccess
<1>4. CASE AdEngineDone \/ AdEngineError
  BY <1>4, AdPopped, Zenon DEF AdEngineDone, AdEngineError
<1>5. CASE AdIsrRead \/ AdIsrClear \/ UNCHANGED ad_vars
  BY <1>1, <1>5, Zenon DEF AdIsrRead, AdIsrClear, ad_vars
<1> QED BY <1>2, <1>3, <1>4, <1>5, AdTransferInv, AdScanInv, Zenon DEF AdNext

(* dma_arc_hs_transfer returns 0 only when every block of this transfer has  *)
(* left the engine, whatever earlier transfers timed out, for any number of  *)
(* handles and blocks.                                                       *)
THEOREM TransfersTrue == AdSpec => []AdTrueSuccess
<1>1. AdInit => AdIInv
  <2> SUFFICES ASSUME AdInit PROVE AdIInv
    BY Zenon
  <2>1. AdTyped
    BY AdAssumption, SMTT(30) DEF AdInit, AdTyped, Handles, Channels
  <2>2. Len(ad_queue) = 0 /\ ad_chan[0].state = "FREE" /\ ad_call = "none"
    BY Zenon DEF AdInit, Channels
  <2> QED BY <2>1, <2>2, SMTT(30) DEF AdIInv, AdDistinct, AdWaits, AdTrueSuccess
<1>2. AdIInv => AdTrueSuccess
  BY Zenon DEF AdIInv
<1> QED
  BY <1>1, <1>2, AdStepInv, PTL DEF AdSpec
=============================================================================
