------------------------------- MODULE Cm2Dm -------------------------------
(* Messages from the SMC firmware to the DMC firmware over SMBus.  The SMC   *)
(* side (lib/tenstorrent/bh_arc/cm2dm_msg.c) keeps one register per message  *)
(* id and a set of pending ids; the DMC side (app/dmc/src/main.c with        *)
(* lib/tenstorrent/bh_chip/bh_chip.c) polls: it reads the current message,   *)
(* acknowledges it, and acts on it unless its sequence number repeats.       *)
(* Every bus transfer can fail before or after it reached the SMC, and the   *)
(* SMC restarts on PERST and on every reset the DMC performs.  Every reset   *)
(* is taken to succeed: one whose JTAG setup fails leaves the SMC in reset,  *)
(* which is a matter of DmcReset.                                            *)
EXTENDS Integers

CONSTANTS MsgCount,     \* kCm2DmMsgCount
          SeqNumMod,    \* 256: next_seq_num is a uint8_t
          Data,         \* payloads
          NoData        \* the register of an id that was never posted

Ids == 1..MsgCount - 1                  \* kCm2DmMsgIdNull is 0
Null == 0
ResetReq == 1                           \* kCm2DmMsgIdResetReq
Seqs == 0..SeqNumMod - 1

ASSUME Cm2DmAssumption == /\ MsgCount \in Nat /\ MsgCount >= 2
                          /\ SeqNumMod \in Nat /\ SeqNumMod >= 2
                          /\ NoData \notin Data
                          /\ Data # {}

VARIABLES
  pending_messages, next_msgs,          \* cm2dm_msg_state
  next_id_rr, next_seq_num,
  curr_msg_valid, curr_msg,
  posting,              \* ids whose poster has written data, not yet the bit
  sel,                  \* next_message_id of the request handler
  pc, i, msg,           \* process_cm2dm_message: place, round, message read
  last_cm2dm_seq_num, last_cm2dm_seq_num_valid,
  perst,                \* PERST seen, bus cancelled, handle_perst still to run
  delivered,            \* history: data the DMC last acted on, for each id
  unacted               \* history: messages loaded less messages acted on

smc_vars == <<pending_messages, next_msgs, next_id_rr, next_seq_num,
              curr_msg_valid, curr_msg, posting, sel>>
last_vars == <<last_cm2dm_seq_num, last_cm2dm_seq_num_valid>>
vars == <<smc_vars, pc, i, msg, last_vars, perst, delivered, unacted>>

Message == [msg_id : Ids \cup {Null}, seq_num : Seqs, data : Data \cup {NoData}]
NoMsg == [msg_id |-> Null, seq_num |-> 0, data |-> NoData]

SmcStart ==                             \* zeroed statics of a fresh SMC image
  /\ pending_messages = {} /\ next_msgs = [id \in Ids |-> NoData]
  /\ next_id_rr = 0 /\ next_seq_num = 0
  /\ curr_msg_valid = FALSE /\ curr_msg = NoMsg
  /\ posting = {} /\ sel = Null

Init ==
  /\ SmcStart
  /\ pc = "loop" /\ i = 0 /\ msg = NoMsg
  /\ last_cm2dm_seq_num = 0 /\ last_cm2dm_seq_num_valid = FALSE
  /\ perst = FALSE
  /\ delivered = [id \in Ids |-> NoData]
  /\ unacted = 0
-----------------------------------------------------------------------------
(* SMC: PostCm2DmMsg runs in threads and interrupt handlers, one per id; it  *)
(* stores the data, then sets the pending bit.                               *)
PostData(id, d) ==
  /\ id \notin posting
  /\ next_msgs' = [next_msgs EXCEPT ![id] = d]
  /\ posting' = posting \cup {id}
  /\ UNCHANGED <<pending_messages, next_id_rr, next_seq_num, curr_msg_valid,
                 curr_msg, sel, pc, i, msg, last_vars, perst, delivered,
                 unacted>>

PostBit(id) ==
  /\ id \in posting
  /\ pending_messages' = pending_messages \cup {id}
  /\ posting' = posting \ {id}
  /\ UNCHANGED <<next_msgs, next_id_rr, next_seq_num, curr_msg_valid,
                 curr_msg, sel, pc, i, msg, last_vars, perst, delivered,
                 unacted>>

(* SMC: Cm2DmMsgReqSmbusHandler, which posters may interrupt.                *)
Search_lowestFirst(pending, rr) == pending
Search(pending, rr) ==                  \* next_id_rr, the ids searched
  LET hi_pending == {id \in pending : id >= rr}
  IN  IF hi_pending # {} THEN hi_pending ELSE pending

ReqSelect ==
  /\ pc = "select" /\ ~curr_msg_valid /\ pending_messages # {}
  /\ \E id \in Search(pending_messages, next_id_rr) :
       /\ \A other \in Search(pending_messages, next_id_rr) : id <= other
       /\ sel' = id
       /\ next_id_rr' = (id + 1) % MsgCount
  /\ pc' = "clear"
  /\ UNCHANGED <<pending_messages, next_msgs, next_seq_num, curr_msg_valid,
                 curr_msg, posting, i, msg, last_vars, perst, delivered,
                 unacted>>

ReqKeep ==                              \* nothing new to send
  /\ pc = "select" /\ (curr_msg_valid \/ pending_messages = {})
  /\ pc' = "reply"
  /\ UNCHANGED <<smc_vars, i, msg, last_vars, perst, delivered, unacted>>

ReqClear ==
  /\ pc = "clear"
  /\ pending_messages' = pending_messages \ {sel}
  /\ pc' = "load"
  /\ UNCHANGED <<next_msgs, next_id_rr, next_seq_num, curr_msg_valid,
                 curr_msg, posting, sel, i, msg, last_vars, perst, delivered,
                 unacted>>

ReqLoad ==
  /\ pc = "load"
  /\ curr_msg' = [msg_id |-> sel, seq_num |-> next_seq_num,
                  data |-> next_msgs[sel]]
  /\ next_seq_num' = (next_seq_num + 1) % SeqNumMod
  /\ curr_msg_valid' = TRUE /\ sel' = Null
  /\ unacted' = unacted + 1
  /\ pc' = "reply"
  /\ UNCHANGED <<pending_messages, next_msgs, next_id_rr, posting, i, msg,
                 last_vars, perst, delivered>>

(* SMC: Cm2DmMsgAckSmbusHandler.                                             *)
AckHandler(ack) ==
  IF curr_msg_valid /\ ack.msg_id = curr_msg.msg_id
                    /\ ack.seq_num = curr_msg.seq_num
  THEN /\ curr_msg_valid' = FALSE /\ curr_msg' = NoMsg
       /\ UNCHANGED <<pending_messages, next_msgs, next_id_rr, next_seq_num,
                      posting, sel>>
  ELSE UNCHANGED smc_vars
-----------------------------------------------------------------------------
(* DMC: process_cm2dm_message, at most MsgCount rounds of                    *)
(* bh_chip_get_cm2dm_message per poll.                                       *)
Poll ==                                 \* TT_EVENT_CM2DM_POLL
  /\ pc = "poll"
  /\ i' = 0 /\ pc' = "read"
  /\ UNCHANGED <<smc_vars, msg, last_vars, perst, delivered, unacted>>

ReadReaches ==                          \* the block read runs the handler
  /\ pc = "read" /\ ~perst
  /\ pc' = "select"
  /\ UNCHANGED <<smc_vars, i, msg, last_vars, perst, delivered, unacted>>

ReadLost ==                             \* ret != 0: the loop breaks
  /\ pc \in {"read", "reply"}
  /\ pc' = "loop"
  /\ UNCHANGED <<smc_vars, i, msg, last_vars, perst, delivered, unacted>>

Reply ==                                \* ret == 0
  /\ pc = "reply" /\ ~perst
  /\ msg' = curr_msg
  /\ pc' = IF curr_msg.msg_id = Null THEN "loop" ELSE "ack"
  /\ UNCHANGED <<smc_vars, i, last_vars, perst, delivered, unacted>>

AckReaches ==
  /\ pc = "ack" /\ ~perst
  /\ AckHandler(msg)
  /\ pc' = "got"
  /\ UNCHANGED <<i, msg, last_vars, perst, delivered, unacted>>

AckLost ==                              \* ack_ret != 0 is only logged
  /\ pc = "ack"
  /\ pc' = "got"
  /\ UNCHANGED <<smc_vars, i, msg, last_vars, perst, delivered, unacted>>

Repeat_never(m) == FALSE
Repeat(m) == last_cm2dm_seq_num_valid /\ last_cm2dm_seq_num = m.seq_num

NextRound == /\ i' = i + 1
             /\ pc' = IF i + 1 < MsgCount THEN "read" ELSE "loop"

Duplicate ==
  /\ pc = "got" /\ Repeat(msg)
  /\ NextRound
  /\ UNCHANGED <<smc_vars, msg, last_vars, perst, delivered, unacted>>

Process ==                              \* the processors other than reset
  /\ pc = "got" /\ ~Repeat(msg) /\ msg.msg_id # ResetReq
  /\ last_cm2dm_seq_num' = msg.seq_num
  /\ last_cm2dm_seq_num_valid' = TRUE
  /\ delivered' = [delivered EXCEPT ![msg.msg_id] = msg.data]
  /\ unacted' = IF perst THEN unacted ELSE unacted - 1
  /\ NextRound
  /\ UNCHANGED <<smc_vars, msg, perst>>

(* The DMC resets the chip: the SMC starts afresh before the next transfer.  *)
SmcRestarts ==
  /\ pending_messages' = {} /\ next_msgs' = [id \in Ids |-> NoData]
  /\ next_id_rr' = 0 /\ next_seq_num' = 0
  /\ curr_msg_valid' = FALSE /\ curr_msg' = NoMsg
  /\ posting' = {} /\ sel' = Null
  /\ unacted' = 0

ResetChip ==                            \* bh_chip_reset_chip, handle_perst
  /\ SmcRestarts /\ perst' = FALSE
  /\ last_cm2dm_seq_num_valid' = FALSE
  /\ UNCHANGED last_cm2dm_seq_num

ProcessReset ==                         \* process_reset_req; the loop breaks
  /\ pc = "got" /\ ~Repeat(msg) /\ msg.msg_id = ResetReq
  /\ ResetChip
  /\ pc' = "loop"
  /\ UNCHANGED <<i, msg, delivered>>

UrgentReset ==          \* thermal trip, watchdog, PERST, PGOOD: before a poll
  /\ pc = "loop"
  /\ ResetChip
  /\ pc' = "poll"
  /\ UNCHANGED <<i, msg, delivered>>

NoReset ==
  /\ pc = "loop" /\ ~perst
  /\ pc' = "poll"
  /\ UNCHANGED <<smc_vars, i, msg, last_vars, perst, delivered, unacted>>

(* PERST restarts the SMC at any moment; the interrupt handler cancels the   *)
(* bus, so that no transfer succeeds until handle_perst has run.             *)
Perst ==
  /\ SmcRestarts
  /\ perst' = TRUE
  /\ pc' = IF pc \in {"select", "clear", "load", "reply"} THEN "read" ELSE pc
  /\ UNCHANGED <<i, msg, last_vars, delivered>>

Post == \E id \in Ids : (\E d \in Data : PostData(id, d)) \/ PostBit(id)
Request == ReqSelect \/ ReqKeep \/ ReqClear \/ ReqLoad
Transfer == ReadReaches \/ ReadLost \/ Reply \/ AckReaches \/ AckLost
Act == Duplicate \/ Process \/ ProcessReset
Urgent == UrgentReset \/ NoReset
Next == Post \/ Request \/ Poll \/ Transfer \/ Act \/ Urgent \/ Perst

Spec == Init /\ [][Next]_vars

(* The scheduling the code provides: the DMC's loop runs and polls on a      *)
(* 20 ms timer, handlers and posts run to completion, a transfer ends, and   *)
(* of infinitely many transfers of a kind one succeeds.                      *)
Fairness ==
  /\ WF_vars(Urgent) /\ WF_vars(Poll) /\ WF_vars(Act)
  /\ WF_vars(Request) /\ WF_vars(Transfer)
  /\ \A id \in Ids : WF_vars(PostBit(id))
  /\ SF_vars(ReadReaches) /\ SF_vars(Reply) /\ SF_vars(AckReaches)
FairSpec == Spec /\ Fairness
-----------------------------------------------------------------------------
(* Types: the round-robin index and the DMC's round stay in range, and the   *)
(* request handler holds an id while it clears and loads it (cm2dm_msg.c).   *)
TypeOK ==
  /\ pending_messages \subseteq Ids /\ posting \subseteq Ids
  /\ next_msgs \in [Ids -> Data \cup {NoData}]
  /\ next_id_rr \in 0..MsgCount - 1 /\ next_seq_num \in Seqs
  /\ curr_msg_valid \in BOOLEAN /\ curr_msg \in Message
  /\ sel \in Ids \cup {Null} /\ (pc \in {"clear", "load"} => sel \in Ids)
  /\ pc \in {"loop", "poll", "read", "select", "clear", "load", "reply",
             "ack", "got"}
  /\ i \in 0..MsgCount /\ (i < MsgCount \/ pc \in {"loop", "poll"})
  /\ msg \in Message
  /\ last_cm2dm_seq_num \in Seqs /\ last_cm2dm_seq_num_valid \in BOOLEAN
  /\ perst \in BOOLEAN
  /\ delivered \in [Ids -> Data \cup {NoData}]
  /\ unacted \in Int

(* The DMC acts on every message the SMC takes up exactly once and in order: *)
(* when the next one is loaded all earlier ones have been acted on, and      *)
(* neither a lost acknowledgement nor a restart of the SMC makes the DMC act *)
(* on one twice or take a new message for a repeat (main.c:269).             *)
ActedOnce == unacted \in {0, 1}

(* "We might send the same data twice, but we'll always send the final       *)
(* value" (cm2dm_msg.c:88): the latest data posted for an id is still to be  *)
(* sent, on its way, or what the DMC last acted on.                          *)
Waiting(id) == id \in posting \/ id \in pending_messages \/ id = sel
InFlight(id) ==
  \/ /\ curr_msg_valid /\ unacted = 1
     /\ curr_msg.msg_id = id /\ curr_msg.data = next_msgs[id]
  \/ /\ pc = "got" /\ ~Repeat(msg)
     /\ msg.msg_id = id /\ msg.data = next_msgs[id]
FinalValueKept ==
  \A id \in Ids : \/ next_msgs[id] = NoData
                  \/ Waiting(id) \/ InFlight(id)
                  \/ delivered[id] = next_msgs[id]

(* What the two sides know of each other, and why the comparison of sequence *)
(* numbers is sound: the last number acted on is that of the current message *)
(* exactly when the DMC has acted on it, else its predecessor's; the message *)
(* the DMC holds is the SMC's current one unless just acknowledged; a        *)
(* message in flight carries the latest data or its id is waiting again.     *)
Succ(n) == (n + 1) % SeqNumMod
SeqAgrees ==
  /\ curr_msg_valid => next_seq_num = Succ(curr_msg.seq_num)
  /\ curr_msg_valid /\ last_cm2dm_seq_num_valid =>
       \/ unacted = 0 /\ last_cm2dm_seq_num = curr_msg.seq_num
       \/ unacted = 1 /\ curr_msg.seq_num = Succ(last_cm2dm_seq_num)
  /\ curr_msg_valid /\ ~last_cm2dm_seq_num_valid => unacted = 1
  /\ ~curr_msg_valid /\ pc # "got" =>
       /\ unacted = 0
       /\ last_cm2dm_seq_num_valid => next_seq_num = Succ(last_cm2dm_seq_num)
  /\ ~curr_msg_valid /\ pc = "got" =>
       /\ next_seq_num = Succ(msg.seq_num)
       /\ unacted = IF Repeat(msg) THEN 0 ELSE 1
HandlerAgrees ==
  /\ pc = "ack" /\ ~perst => curr_msg_valid
  /\ pc \in {"ack", "got"} => msg.msg_id \in Ids
  /\ pc \in {"ack", "got"} /\ curr_msg_valid => msg = curr_msg
  /\ curr_msg.msg_id = Null <=> ~curr_msg_valid
  /\ pc \in {"clear", "load"} => ~curr_msg_valid
  /\ pc \notin {"clear", "load"} => sel = Null
FlightAgrees ==
  /\ curr_msg_valid => \/ Waiting(curr_msg.msg_id)
                       \/ curr_msg.data = next_msgs[curr_msg.msg_id]
  /\ pc = "got" /\ ~perst => \/ Waiting(msg.msg_id)
                             \/ msg.data = next_msgs[msg.msg_id]
PerstAgrees ==
  perst => /\ pc \notin {"select", "clear", "load", "reply"}
           /\ ~curr_msg_valid /\ unacted = 0
           /\ \A id \in Ids : Waiting(id) \/ next_msgs[id] = NoData
SidesAgree == /\ ~perst => SeqAgrees
              /\ HandlerAgrees /\ FlightAgrees /\ PerstAgrees

(* Once an id is no longer posted its last value reaches the DMC, however    *)
(* often the other ids are posted: round robin starves no id (next_id_rr).   *)
FinalValueArrives ==
  \A id \in Ids \ {ResetReq} : \A d \in Data :
    <>[](next_msgs[id] = d /\ id \notin posting) => <>[](delivered[id] = d)
=============================================================================
