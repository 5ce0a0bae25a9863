---------------------------- MODULE SmbusTarget ----------------------------
(* The SMBus target of the SMC (drivers/smbus/target/smbus_target.c) and the *)
(* transactions the DMC sends it (lib/tenstorrent/bh_chip/bh_arc.c), byte by *)
(* byte.  The DMC may give up a transaction anywhere, without a stop, and a  *)
(* byte may be changed on the wire.  A byte is a sequence with one number;   *)
(* a PEC is the sequence of all bytes it covers, so that two PECs are equal  *)
(* when both sides covered the same bytes: the CRC-8 is taken to be ideal.   *)
EXTENDS Integers, Sequences, SequencesExt

CONSTANTS
  Def,         \* registered commands, by number: [trans_type, pec]
  Unknown,     \* the number of a command that is not registered
  MaxSize,     \* CONFIG_SMBUS_MAX_MSG_SIZE, 64
  BlockMax,    \* SMBUS_BLOCK_BYTES_MAX of the SMBus calls, 32
  SmData,      \* data bytes
  Bytes        \* what a changed byte may arrive as

WriteTypes == {"WRITE_BYTE", "WRITE_WORD", "WRITE_BLOCK"}
ReadTypes == {"READ_BYTE", "READ_WORD", "READ_BLOCK"}
Types == WriteTypes \cup ReadTypes \cup {"READ_WRITE_BLOCK"}
Commands == DOMAIN Def

ASSUME SmbusAssumption ==
  /\ MaxSize \in Nat /\ BlockMax \in Nat \ {0} /\ BlockMax < MaxSize
  /\ \A c \in Commands : Def[c] \in [trans_type : Types, pec : BOOLEAN]
  /\ Unknown \notin Commands
  /\ SmData \subseteq Nat /\ Commands \cup {Unknown} \subseteq Nat
  /\ Bytes \subseteq Nat

VARIABLES
  state, command, blocksize_r, blocksize_w,     \* smbus_target_data
  received,    \* received_data, the rcv_index bytes received so far
  send_data, send_index,
  tx,          \* the transaction of the DMC: [cmd, data]
  out,         \* bytes it has still to send
  wire,        \* bytes it has sent, as sent
  got,         \* bytes it has read
  phase,       \* what the DMC is doing
  clean,       \* history: no byte of the transaction was changed
  calls,       \* history: rcv_handler calls of this transaction
  refused      \* history: a handler returned an error

target == <<state, command, blocksize_r, blocksize_w, received, send_data, send_index>>
master == <<tx, out, wire, got, phase, clean>>
sm_vars == <<target, master, calls, refused>>

AddressW == <<100>>
AddressR == <<101>>
PEC(bytes) == FlattenSeq(bytes)         \* pec_crc_8 over them
Singles(seq) == [i \in 1..Len(seq) |-> <<seq[i]>>]
Cmd == Def[command]                       \* get_cmd_def
Is(types) == Cmd.trans_type \in types
-----------------------------------------------------------------------------
(* The DMC, as Zephyr's SMBus calls put bytes on the wire.                   *)
SizesOf(type) == IF type = "WRITE_BYTE" THEN {1}
                 ELSE IF type = "WRITE_WORD" THEN {2}
                 ELSE IF type \in {"WRITE_BLOCK", "READ_WRITE_BLOCK"} THEN 1..BlockMax
                 ELSE {0}
TypeOf(c) == IF c \in Commands THEN Def[c].trans_type ELSE "WRITE_BYTE"
PecOf(c) == c \in Commands /\ Def[c].pec
Counted(type) == type \in {"WRITE_BLOCK", "READ_WRITE_BLOCK"}
Written(c, data) ==
  LET head == <<<<c>>>> \o (IF Counted(TypeOf(c)) THEN <<<<Len(data)>>>> ELSE <<>>)
      body == head \o Singles(data)
  IN  IF PecOf(c) /\ TypeOf(c) \in WriteTypes
      THEN Append(body, PEC(<<AddressW>> \o body)) ELSE body

OnWire(byte) == {byte} \cup (IF clean THEN {<<b>> : b \in Bytes} ELSE {})

(* What an I2C controller driver makes of an error a callback returns is up  *)
(* to it: the DMC may or may not see a NACK.                                 *)
Accept == phase' = phase
Refuse == phase' \in {phase, "failed"}

reset_state_machine ==
  /\ state' = "IDLE" /\ command' = 0
  /\ blocksize_r' = 0 /\ blocksize_w' = 0
  /\ received' = <<>> /\ send_index' = 0
  /\ UNCHANGED send_data

SmInit ==
  /\ state = "IDLE" /\ command = 0 /\ blocksize_r = 0 /\ blocksize_w = 0
  /\ received = <<>> /\ send_data = <<>> /\ send_index = 0
  /\ tx = [cmd |-> Unknown, data |-> <<>>] /\ out = <<>> /\ wire = <<>> /\ got = <<>>
  /\ phase = "free" /\ clean = TRUE /\ calls = <<>> /\ refused = FALSE

smbus_write_requested(c, data) ==      \* start condition, with or without a stop
  /\ phase \in {"free", "failed", "aborted"}
  /\ reset_state_machine
  /\ tx' = [cmd |-> c, data |-> data] /\ out' = Written(c, data)
  /\ wire' = <<>> /\ got' = <<>> /\ phase' = "write"
  /\ clean' = TRUE /\ calls' = <<>> /\ refused' = FALSE
-----------------------------------------------------------------------------
(* smbus_write_handler, by state.                                            *)
Numbers(byte) == IF Len(byte) = 1 THEN {byte[1]} ELSE 0..(MaxSize + 1)

RcvCommand(byte) ==
  /\ state = "IDLE"
  /\ command' = byte[1]
  /\ IF command' \in Commands THEN state' = "CMD" /\ Accept
     ELSE state' = "WAIT_IDLE" /\ Refuse
  /\ UNCHANGED <<blocksize_r, blocksize_w, received, send_data, send_index, calls,
                 refused>>

RcvBlocksize(byte) ==
  /\ state = "CMD" /\ Is({"WRITE_BLOCK", "READ_WRITE_BLOCK"})
  /\ blocksize_w' \in Numbers(byte)
  /\ IF blocksize_w' > MaxSize THEN state' = "WAIT_IDLE" /\ Refuse
     ELSE state' = "RCV_DATA" /\ Accept
  /\ UNCHANGED <<command, blocksize_r, received, send_data, send_index, calls, refused>>

Deliver(data, next) ==                 \* rcv_handler, which may return an error
  /\ calls' = Append(calls, [cmd |-> command, data |-> data])
  /\ \/ state' = next /\ Accept /\ UNCHANGED refused
     \/ state' = "WAIT_IDLE" /\ Refuse /\ refused' = TRUE
Expect(next) == state' = next /\ Accept /\ UNCHANGED <<calls, refused>>
AfterBlock == IF Is({"READ_WRITE_BLOCK"}) THEN "CMD" ELSE "WAIT_IDLE"

RcvByte(byte) ==
  /\ state = "CMD" /\ Is({"WRITE_BYTE", "WRITE_WORD"})
  /\ received' = Append(received, byte)
  /\ blocksize_w' = IF Is({"WRITE_BYTE"}) THEN 1 ELSE 2
  /\ IF Is({"WRITE_WORD"}) THEN Expect("RCV_DATA")
     ELSE IF Cmd.pec THEN Expect("RCV_PEC")
     ELSE Deliver(SubSeq(received', 1, 1), "WAIT_IDLE")
  /\ UNCHANGED <<command, blocksize_r, send_data, send_index>>

RcvData_noPec(byte) ==
  /\ state = "RCV_DATA"
  /\ received' = Append(received, byte)
  /\ IF Len(received') # blocksize_w THEN Expect("RCV_DATA")
     ELSE Deliver(received', AfterBlock)
  /\ UNCHANGED <<command, blocksize_r, blocksize_w, send_data, send_index>>
RcvData(byte) ==
  /\ state = "RCV_DATA"
  /\ received' = Append(received, byte)
  /\ IF Len(received') # blocksize_w THEN Expect("RCV_DATA")
     ELSE IF Cmd.pec /\ ~Is({"READ_WRITE_BLOCK"}) THEN Expect("RCV_PEC")
     ELSE Deliver(received', AfterBlock)
  /\ UNCHANGED <<command, blocksize_r, blocksize_w, send_data, send_index>>

WritePec ==
  PEC(<<AddressW, <<command>>>>
      \o (IF Is({"WRITE_BLOCK"}) THEN <<<<blocksize_w>>>> ELSE <<>>)
      \o SubSeq(received, 1, blocksize_w))
RcvPec(byte) ==
  /\ state = "RCV_PEC"
  /\ IF byte = WritePec THEN Deliver(SubSeq(received, 1, blocksize_w), AfterBlock)
     ELSE state' = "WAIT_IDLE" /\ Refuse /\ UNCHANGED <<calls, refused>>
  /\ UNCHANGED <<command, blocksize_r, blocksize_w, received, send_data, send_index>>

RcvInvalid ==                          \* a read command, or nothing is expected
  /\ state = "WAIT_IDLE" \/ (state = "CMD" /\ Is(ReadTypes))
  /\ state' = "WAIT_IDLE" /\ Refuse
  /\ UNCHANGED <<command, blocksize_r, blocksize_w, received, send_data, send_index,
                 calls, refused>>

smbus_write_handler ==
  /\ phase = "write" /\ out # <<>>
  /\ \E byte \in OnWire(Head(out)) :
       /\ clean' = (clean /\ byte = Head(out))
       /\ \/ RcvCommand(byte) \/ RcvBlocksize(byte) \/ RcvByte(byte)
          \/ RcvData(byte) \/ RcvPec(byte) \/ RcvInvalid
  /\ out' = Tail(out) /\ wire' = Append(wire, Head(out))
  /\ UNCHANGED <<tx, got>>
-----------------------------------------------------------------------------
(* smbus_read_handler, by state.                                             *)
Put(byte) == \E seen \in OnWire(byte) :
               got' = Append(got, seen) /\ clean' = (clean /\ seen = byte)
NoByte == Put(<<255>>) /\ state' = "WAIT_IDLE" /\ Refuse
AfterData == IF Cmd.pec THEN "SEND_PEC" ELSE "WAIT_IDLE"
Replies == UNION {[1..n -> SmData] : n \in
             IF Is({"READ_BYTE"}) THEN {1} ELSE IF Is({"READ_WORD"}) THEN {2}
             ELSE 1..BlockMax}

SndFirst ==
  /\ state = "CMD" /\ Is(ReadTypes \cup {"READ_WRITE_BLOCK"})
  /\ \E data \in Replies :            \* send_handler
       /\ send_data' = Singles(data) /\ blocksize_r' = Len(data)
       /\ IF Is({"READ_BYTE", "READ_WORD"})
          THEN Put(<<data[1]>>) /\ send_index' = send_index + 1
          ELSE Put(<<Len(data)>>) /\ UNCHANGED send_index
  /\ state' = IF Is({"READ_BYTE"}) THEN AfterData ELSE "SEND_DATA"
  /\ Accept /\ UNCHANGED refused
SndError ==                            \* not a command to read, or a handler's error
  /\ state = "CMD" /\ NoByte
  /\ refused' = (refused \/ ~Is(WriteTypes))
  /\ UNCHANGED <<send_data, send_index, blocksize_r>>
SndData ==
  /\ state = "SEND_DATA"
  /\ Put(send_data[send_index + 1]) /\ send_index' = send_index + 1
  /\ state' = IF send_index' = blocksize_r THEN AfterData ELSE state
  /\ Accept /\ UNCHANGED <<send_data, blocksize_r, refused>>
ReadPec ==
  PEC(<<AddressW, <<command>>>>
      \o (IF Is({"READ_WRITE_BLOCK"}) THEN <<<<blocksize_w>>>> ELSE <<>>)
      \o received \o <<AddressR>>
      \o (IF Is({"READ_BYTE", "READ_WORD"}) THEN <<>> ELSE <<<<blocksize_r>>>>)
      \o send_data)
SndPec ==
  /\ state = "SEND_PEC"
  /\ Put(ReadPec) /\ state' = "WAIT_IDLE"
  /\ Accept /\ UNCHANGED <<send_data, send_index, blocksize_r, refused>>
SndInvalid ==
  /\ state \notin {"CMD", "SEND_DATA", "SEND_PEC"} /\ NoByte
  /\ UNCHANGED <<send_data, send_index, blocksize_r, refused>>

(* How many bytes the DMC reads; a block's first byte says.                  *)
ReadsBlock == TypeOf(tx.cmd) \in {"READ_BLOCK", "READ_WRITE_BLOCK"}
BadCount == ReadsBlock /\ got # <<>> /\ got[1][1] > BlockMax
Wanted == (IF TypeOf(tx.cmd) = "READ_BYTE" THEN 1
           ELSE IF TypeOf(tx.cmd) = "READ_WORD" THEN 2
           ELSE IF got = <<>> THEN 1 ELSE 1 + got[1][1])
          + (IF PecOf(tx.cmd) THEN 1 ELSE 0)
smbus_read_handler ==
  /\ phase = "read" /\ ~BadCount /\ Len(got) < Wanted
  /\ SndFirst \/ SndError \/ SndData \/ SndPec \/ SndInvalid
  /\ UNCHANGED <<command, blocksize_w, received, tx, out, wire, calls>>

Turn ==                                \* repeated start of a read
  /\ phase = "write" /\ out = <<>>
  /\ phase' = IF TypeOf(tx.cmd) \in WriteTypes THEN "done" ELSE "read"
  /\ UNCHANGED <<target, tx, out, wire, got, clean, calls, refused>>
PecAgrees == PecOf(tx.cmd) =>
  got[Len(got)] = PEC(<<AddressW>> \o wire \o <<AddressR>> \o Front(got))
ReadEnds ==
  /\ phase = "read" /\ (BadCount \/ Len(got) = Wanted)
  /\ phase' = IF ~BadCount /\ PecAgrees THEN "done" ELSE "failed"
  /\ UNCHANGED <<target, tx, out, wire, got, clean, calls, refused>>
GiveUp ==                              \* the DMC cancels its transfer
  /\ phase \in {"write", "read"} /\ phase' = "aborted"
  /\ UNCHANGED <<target, tx, out, wire, got, clean, calls, refused>>
smbus_stop_handler ==
  /\ phase \in {"done", "failed", "aborted"} /\ phase' = "free"
  /\ reset_state_machine
  /\ UNCHANGED <<tx, out, wire, got, clean, calls, refused>>

SmNext ==
  \/ \E c \in Commands \cup {Unknown} : \E n \in SizesOf(TypeOf(c)) :
       \E data \in [1..n -> SmData] : smbus_write_requested(c, data)
  \/ smbus_write_handler \/ smbus_read_handler
  \/ Turn \/ ReadEnds \/ GiveUp \/ smbus_stop_handler
SmSpec == SmInit /\ [][SmNext]_sm_vars
-----------------------------------------------------------------------------
(* Types; no byte is stored or sent beyond the buffers, changed lengths and  *)
(* abandoned transactions included.  A length that arrives as zero is never  *)
(* met by rcv_index, so that every byte that follows is stored, the PEC of a *)
(* full block too: this is why MaxSize must be above BlockMax.               *)
SmTypeOK ==
  /\ state \in {"IDLE", "CMD", "RCV_DATA", "RCV_PEC", "SEND_DATA", "SEND_PEC",
                "WAIT_IDLE"}
  /\ blocksize_r \in 0..MaxSize /\ send_index \in 0..blocksize_r
  /\ Len(received) <= MaxSize /\ Len(send_data) <= MaxSize
  /\ phase \in {"free", "write", "read", "done", "failed", "aborted"}
  /\ clean \in BOOLEAN /\ refused \in BOOLEAN

(* The handler of a write command with PEC runs at most once per transaction *)
(* and only with the command and the data the DMC sent, whatever byte was    *)
(* changed on the wire.                                                      *)
Protected(c) == Def[c].pec /\ Def[c].trans_type \in WriteTypes
ProtectedWrite ==
  \A i \in 1..Len(calls) : Protected(calls[i].cmd) =>
    i = 1 /\ calls[i] = [cmd |-> tx.cmd, data |-> Singles(tx.data)]

(* A transaction without a changed byte is served in full, whatever was      *)
(* abandoned before it: data written reaches its handler exactly once, and   *)
(* it fails only for an unknown command or an error of a handler.            *)
CleanServed ==
  clean /\ tx.cmd \in Commands =>
    /\ phase = "failed" => refused
    /\ phase = "done" /\ tx.data # <<>>
         => calls = <<[cmd |-> tx.cmd, data |-> Singles(tx.data)]>>

(* What the DMC accepts of a read command with PEC is what the send handler  *)
(* of that command gave in this transaction.                                 *)
ReadBytes == LET all == Front(got) IN IF ReadsBlock THEN Tail(all) ELSE all
ReadBack ==
  phase = "done" /\ PecOf(tx.cmd) /\ TypeOf(tx.cmd) \notin WriteTypes
    => command = tx.cmd /\ ReadBytes = send_data

(* Transfers are exact.  A command with PEC carries its data unchanged in    *)
(* both directions, or not at all, with bytes changed on the wire; and       *)
(* whatever transactions were given up before, one that is not disturbed is  *)
(* served (smbus_write_handler, smbus_read_handler).                         *)
PecProtects == ProtectedWrite /\ ReadBack /\ CleanServed
=============================================================================
