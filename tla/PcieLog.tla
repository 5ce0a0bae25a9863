------------------------------- MODULE PcieLog -------------------------------
(***************************************************************************)
(* The log backend that hands framed messages to a buffer in the host's    *)
(* memory (lib/tenstorrent/bh_arc/tt_pcie_log.c).  The log thread frames a  *)
(* message, the system work queue runs the periodic flush and the host's   *)
(* SETUP and RELEASE requests, and a mutex with timeouts keeps the two     *)
(* apart; the host's driver owns the buffer and hands it back word by word.*)
(* Sizes are in units: an entry is a header of PlHdr, its text, and a NUL. *)
(***************************************************************************)
EXTENDS Naturals, Sequences

CONSTANTS PlBufs,   \* host buffers a request can name; a smaller one is refused
          PlRoom,   \* data space of each
          PlFrame,  \* sizeof(framed_log_buffer)
          PlHdr,    \* sizeof(struct fw_log_entry_header)
          PlThresh, \* FLUSH_THRESHOLD_BYTES
          PlTexts,  \* lengths of the messages' texts
          PlMax     \* bound: messages logged

ASSUME PlAssumption ==
    /\ PlRoom \in [PlBufs -> Nat] /\ PlTexts \subseteq Nat
    /\ PlFrame \in Nat /\ PlHdr \in Nat \ {0} /\ PlThresh \in Nat /\ PlMax \in Nat
    /\ PlHdr + 1 <= PlFrame /\ PlBufs # {} /\ "none" \notin PlBufs
    /\ \A b \in PlBufs : PlHdr + 1 <= PlRoom[b]

VARIABLES pl_mem,    \* the host's buffers: [magic, owner, data, cut, done]
          pl_kmd,    \* the host's driver: [ask, buf, own], own = buffers it must keep
          pl_iova,   \* log_buffer_iova, or "none"; host_available is pl_iova # "none"
          pl_frame,  \* framed_log_buffer: entries [seq, msg, end]
          pl_pos,    \* framed_buffer_pos
          pl_seq,    \* sequence_number
          pl_said,   \* history: messages the backend was given
          pl_lock,   \* buffer_mutex: "none", "log" or "wq"
          pl_pc,     \* per thread: where it is, and where flush returns to
          pl_text,   \* length and level of the message being processed
          pl_timer, pl_work, \* flush_timer runs, flush_work is queued
          pl_got     \* the sequence number after the last one the host has read

pl_vars == <<pl_mem, pl_kmd, pl_iova, pl_frame, pl_pos, pl_seq, pl_said, pl_lock, pl_pc,
             pl_text, pl_timer, pl_work, pl_got>>

PlEntry == [seq : 0 .. PlMax - 1, msg : 1 .. PlMax, end : 0 .. PlFrame]
PlPcs == {"idle", "lock", "room", "frame", "flush", "data", "offset", "owner", "unlock",
          "work", "setup", "release"}

PlTypeOK ==
    /\ \A b \in PlBufs : /\ pl_mem[b].magic \in BOOLEAN /\ pl_mem[b].owner \in {"fw", "host"}
                         /\ pl_mem[b].data \in Seq(PlEntry) /\ pl_mem[b].cut \in BOOLEAN
    /\ pl_kmd.ask \in {"none", "setup", "release"} /\ pl_kmd.own \subseteq PlBufs
    /\ pl_iova \in PlBufs \cup {"none"}
    /\ pl_frame \in Seq(PlEntry) /\ pl_seq \in 0 .. PlMax /\ pl_said \in 0 .. PlMax
    /\ pl_lock \in {"none", "log", "wq"}
    /\ pl_pc \in [{"log", "wq"} -> [at : PlPcs, ret : PlPcs]]
    /\ pl_timer \in BOOLEAN /\ pl_work \in BOOLEAN /\ pl_got \in 0 .. PlMax

PlEmpty == [magic |-> FALSE, owner |-> "fw", data |-> <<>>, cut |-> FALSE, done |-> TRUE]

PlInit ==
    /\ pl_mem = [b \in PlBufs |-> PlEmpty]
    /\ pl_kmd = [ask |-> "none", buf |-> CHOOSE b \in PlBufs : TRUE, own |-> {}]
    /\ pl_iova = "none" /\ pl_frame = <<>> /\ pl_pos = 0 /\ pl_seq = 0 /\ pl_said = 0
    /\ pl_lock = "none" /\ pl_pc = [t \in {"log", "wq"} |-> [at |-> "idle", ret |-> "idle"]]
    /\ pl_text = [len |-> 0, err |-> FALSE]
    /\ pl_timer = FALSE /\ pl_work = FALSE /\ pl_got = 0

PlAt(t) == pl_pc[t].at
PlGo(t, at) == pl_pc' = [pl_pc EXCEPT ![t].at = at]
PlCall(t, ret) == pl_pc' = [pl_pc EXCEPT ![t] = [at |-> "flush", ret |-> ret]]
PlReturn(t) == PlGo(t, pl_pc[t].ret)

-----------------------------------------------------------------------------
(* flush_buffer_to_host, called by thread t with the mutex held. *)

PlDropFrame == pl_frame' = <<>> /\ pl_pos' = 0

PlFlushCheck(t) ==
    /\ PlAt(t) = "flush"
    /\ LET m == pl_mem[pl_iova] IN
       \/ /\ pl_pos = 0 \/ pl_iova = "none"
          /\ PlReturn(t) /\ UNCHANGED <<pl_frame, pl_pos>>
       \/ /\ pl_pos # 0 /\ pl_iova # "none" /\ (~m.magic \/ m.owner = "host")
          /\ PlDropFrame /\ PlReturn(t)
       \/ /\ pl_pos # 0 /\ pl_iova # "none" /\ m.magic /\ m.owner = "fw"
          /\ PlGo(t, "data") /\ UNCHANGED <<pl_frame, pl_pos>>
    /\ UNCHANGED <<pl_mem, pl_kmd, pl_iova, pl_seq, pl_said, pl_lock, pl_text, pl_timer, pl_work, pl_got>>

PlWriteData_ownerFirst(t) ==
    /\ PlAt(t) = "data" /\ PlGo(t, "offset")
    /\ \E n \in 0 .. Len(pl_frame) :
         /\ \A i \in 1 .. Len(pl_frame) : i <= n <=> pl_frame[i].end <= PlRoom[pl_iova]
         /\ pl_mem' = [pl_mem EXCEPT
              ![pl_iova] = [@ EXCEPT !.data = SubSeq(pl_frame, 1, n), !.cut = pl_pos > PlRoom[pl_iova],
                                     !.done = FALSE, !.owner = "host"]]
    /\ UNCHANGED <<pl_kmd, pl_iova, pl_frame, pl_pos, pl_seq, pl_said, pl_lock, pl_text, pl_timer,
                   pl_work, pl_got>>

\* The words of the frame that fit the host's space: whole entries, the last
\* one cut when the frame is longer.
PlWriteData(t) ==
    /\ PlAt(t) = "data" /\ PlGo(t, "offset")
    /\ \E n \in 0 .. Len(pl_frame) :
         /\ \A i \in 1 .. Len(pl_frame) : i <= n <=> pl_frame[i].end <= PlRoom[pl_iova]
         /\ pl_mem' = [pl_mem EXCEPT
              ![pl_iova] = [@ EXCEPT !.data = SubSeq(pl_frame, 1, n), !.cut = pl_pos > PlRoom[pl_iova],
                                     !.done = FALSE]]
    /\ UNCHANGED <<pl_kmd, pl_iova, pl_frame, pl_pos, pl_seq, pl_said, pl_lock, pl_text, pl_timer,
                   pl_work, pl_got>>
PlWriteOffset(t) ==
    /\ PlAt(t) = "offset" /\ PlGo(t, "owner")
    /\ pl_mem' = [pl_mem EXCEPT ![pl_iova].done = TRUE]
    /\ UNCHANGED <<pl_kmd, pl_iova, pl_frame, pl_pos, pl_seq, pl_said, pl_lock, pl_text, pl_timer,
                   pl_work, pl_got>>
\* Ownership to the host, the MSI, and the frame is empty again.
PlWriteOwner(t) ==
    /\ PlAt(t) = "owner" /\ PlReturn(t)
    /\ pl_mem' = [pl_mem EXCEPT ![pl_iova].owner = "host"]
    /\ PlDropFrame
    /\ UNCHANGED <<pl_kmd, pl_iova, pl_seq, pl_said, pl_lock, pl_text, pl_timer, pl_work, pl_got>>

flush_buffer_to_host(t) ==
    PlFlushCheck(t) \/ PlWriteData(t) \/ PlWriteOffset(t) \/ PlWriteOwner(t)

\* k_mutex_lock with a timeout, which can only pass while another thread holds
\* the mutex.
PlLock(t) == pl_lock = "none" /\ pl_lock' = t
PlTimeout(t) == pl_lock \notin {"none", t} /\ UNCHANGED pl_lock
PlUnlock(t) ==
    /\ PlAt(t) = "unlock" /\ pl_lock' = "none" /\ PlGo(t, "idle")
    /\ UNCHANGED <<pl_mem, pl_kmd, pl_iova, pl_frame, pl_pos, pl_seq, pl_said, pl_text, pl_timer,
                   pl_work, pl_got>>

-----------------------------------------------------------------------------
(* The log thread. *)

\* backend_process is given a message, which is not raw output.
PlMessage ==
    /\ PlAt("log") = "idle" /\ pl_said < PlMax
    /\ pl_said' = pl_said + 1
    /\ \E n \in PlTexts, e \in BOOLEAN : pl_text' = [len |-> n, err |-> e]
    /\ PlGo("log", "lock")
    /\ UNCHANGED <<pl_mem, pl_kmd, pl_iova, pl_frame, pl_pos, pl_seq, pl_lock, pl_timer, pl_work, pl_got>>
PlTake ==
    /\ PlAt("log") = "lock"
    /\ \/ /\ PlLock("log") /\ UNCHANGED pl_seq
          /\ IF pl_pos + PlThresh > PlFrame THEN PlCall("log", "room") ELSE PlGo("log", "room")
       \/ PlTimeout("log") /\ pl_seq' = pl_seq + 1 /\ PlGo("log", "idle")
    /\ UNCHANGED <<pl_mem, pl_kmd, pl_iova, pl_frame, pl_pos, pl_said, pl_text, pl_timer, pl_work, pl_got>>
\* putc_in_frame keeps one unit for the NUL and drops what does not fit.
putc_in_frame(pos, n) ==
    LET available == PlFrame - pos IN
    IF available > 1 THEN IF n < available - 1 THEN pos + n ELSE PlFrame - 1 ELSE pos
PlAppend ==
    /\ PlAt("log") = "room" /\ pl_seq' = pl_seq + 1
    /\ \/ /\ pl_pos + PlHdr + 1 > PlFrame
          /\ PlGo("log", "unlock") /\ UNCHANGED <<pl_frame, pl_pos>>
       \/ /\ pl_pos + PlHdr + 1 <= PlFrame
          /\ LET end == putc_in_frame(pl_pos + PlHdr, pl_text.len) + 1 IN
             /\ pl_frame' = Append(pl_frame, [seq |-> pl_seq, msg |-> pl_said, end |-> end])
             /\ pl_pos' = end
          /\ IF pl_text.err THEN PlCall("log", "unlock") ELSE PlGo("log", "unlock")
    /\ UNCHANGED <<pl_mem, pl_kmd, pl_iova, pl_said, pl_lock, pl_text, pl_timer, pl_work, pl_got>>
\* backend_panic flushes if it gets the mutex within its timeout, else nothing.
backend_panic ==
    /\ PlAt("log") = "idle" /\ PlLock("log") /\ PlCall("log", "unlock")
    /\ UNCHANGED <<pl_mem, pl_kmd, pl_iova, pl_frame, pl_pos, pl_seq, pl_said, pl_text, pl_timer,
                   pl_work, pl_got>>
backend_process == PlMessage \/ PlTake \/ PlAppend

-----------------------------------------------------------------------------
(* The timer and the system work queue. *)

flush_timer_callback ==
    /\ pl_timer /\ ~pl_work /\ pl_work' = TRUE
    /\ UNCHANGED <<pl_mem, pl_kmd, pl_iova, pl_frame, pl_pos, pl_seq, pl_said, pl_lock, pl_pc, pl_text,
                   pl_timer, pl_got>>
flush_work_handler ==
    /\ PlAt("wq") = "idle" /\ pl_work /\ pl_work' = FALSE
    /\ \/ PlLock("wq") /\ PlCall("wq", "unlock")
       \/ PlTimeout("wq") /\ UNCHANGED pl_pc
    /\ UNCHANGED <<pl_mem, pl_kmd, pl_iova, pl_frame, pl_pos, pl_seq, pl_said, pl_text, pl_timer, pl_got>>

\* A request answered with an error leaves the host with what it had; one that
\* succeeds leaves it with the buffer it named, or with none.  Requests the
\* handler refuses at sight (translation off, unknown, too small) change nothing.
PlAnswer(own) == pl_kmd' = [pl_kmd EXCEPT !.ask = "none", !.own = own]

setup_tt_pcie_log_backend ==
    /\ PlAt("wq") = "idle" /\ pl_kmd.ask = "setup"
    /\ \/ /\ PlLock("wq") /\ PlGo("wq", "unlock")
          /\ pl_iova' = pl_kmd.buf /\ pl_timer' = TRUE
          /\ pl_mem' = [pl_mem EXCEPT ![pl_kmd.buf] = [PlEmpty EXCEPT !.magic = TRUE]]
          /\ PlAnswer({pl_kmd.buf})
       \/ /\ PlTimeout("wq") /\ PlAnswer(pl_kmd.own \ ({pl_kmd.buf} \ {pl_iova}))
          /\ UNCHANGED <<pl_pc, pl_iova, pl_timer, pl_mem>>
    /\ UNCHANGED <<pl_frame, pl_pos, pl_seq, pl_said, pl_text, pl_work, pl_got>>
release_tt_pcie_log_backend ==
    /\ PlAt("wq") = "idle" /\ pl_kmd.ask = "release"
    /\ \/ /\ pl_iova = "none" /\ PlAnswer({})
          /\ UNCHANGED <<pl_lock, pl_pc, pl_iova, pl_timer>>
       \/ /\ pl_iova # "none" /\ PlLock("wq") /\ PlGo("wq", "unlock")
          /\ pl_iova' = "none" /\ pl_timer' = FALSE /\ PlAnswer({})
       \/ /\ pl_iova # "none" /\ PlTimeout("wq") /\ PlAnswer(pl_kmd.own)
          /\ UNCHANGED <<pl_pc, pl_iova, pl_timer>>
    /\ UNCHANGED <<pl_mem, pl_frame, pl_pos, pl_seq, pl_said, pl_text, pl_work, pl_got>>
tt_pcie_log_handler == setup_tt_pcie_log_backend \/ release_tt_pcie_log_backend

-----------------------------------------------------------------------------
(* The host's driver. *)

PlHostAsk ==
    /\ pl_kmd.ask = "none"
    /\ \/ \E b \in PlBufs :
             pl_kmd' = [ask |-> "setup", buf |-> b, own |-> pl_kmd.own \cup {b}]
       \/ pl_kmd' = [pl_kmd EXCEPT !.ask = "release"]
    /\ UNCHANGED <<pl_mem, pl_iova, pl_frame, pl_pos, pl_seq, pl_said, pl_lock, pl_pc, pl_text,
                   pl_timer, pl_work, pl_got>>
PlHostRead(b) ==
    /\ b = pl_iova /\ pl_mem[b].magic /\ pl_mem[b].owner = "host"
    /\ pl_mem' = [pl_mem EXCEPT ![b].owner = "fw"]
    /\ pl_got' = IF pl_mem[b].data = <<>> THEN pl_got
                 ELSE pl_mem[b].data[Len(pl_mem[b].data)].seq + 1
    /\ UNCHANGED <<pl_kmd, pl_iova, pl_frame, pl_pos, pl_seq, pl_said, pl_lock, pl_pc, pl_text,
                   pl_timer, pl_work>>
PlHostScribble(b) ==
    /\ pl_mem[b].magic /\ b \in pl_kmd.own /\ pl_mem' = [pl_mem EXCEPT ![b] = PlEmpty]
    /\ UNCHANGED <<pl_kmd, pl_iova, pl_frame, pl_pos, pl_seq, pl_said, pl_lock, pl_pc, pl_text,
                   pl_timer, pl_work, pl_got>>

PlNext ==
    \/ \E t \in {"log", "wq"} : flush_buffer_to_host(t) \/ PlUnlock(t)
    \/ backend_process \/ backend_panic
    \/ flush_timer_callback \/ flush_work_handler \/ tt_pcie_log_handler
    \/ PlHostAsk \/ \E b \in PlBufs : PlHostRead(b) \/ PlHostScribble(b)

PlSpec == PlInit /\ [][PlNext]_pl_vars

-----------------------------------------------------------------------------
\* A buffer the host owns holds a complete batch: its offset is written, its
\* entries follow the ones already read, and none is cut when the host gave
\* at least the space of the firmware's frame (flush_buffer_to_host).  The
\* numbers in it tell exactly what was lost: an entry's sequence number is the
\* count of the messages before it, whichever of the drops (mutex timeout, full
\* frame, a batch the host was too slow for) came before it.
PlHandedOver ==
    \A b \in PlBufs : pl_mem[b].owner = "host" =>
        /\ pl_mem[b].done
        /\ pl_mem[b].cut => PlRoom[b] < PlFrame
        /\ b = pl_iova => \A i \in DOMAIN pl_mem[b].data : pl_mem[b].data[i].seq >= pl_got
        /\ \A i \in DOMAIN pl_mem[b].data : pl_mem[b].data[i].seq + 1 = pl_mem[b].data[i].msg

=============================================================================
