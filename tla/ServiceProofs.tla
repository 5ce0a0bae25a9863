--------------------------- MODULE ServiceProofs ----------------------------
(* TLAPS proofs about services to the host and the board. A buffer of the    *)
(* PCIe log that the host owns holds a complete batch; the PLDM shell        *)
(* answers a request with the output of its own command; and a sample of a   *)
(* process detector was taken with the delay chain the message asked for.    *)
EXTENDS PcieLog, PldmShell, Pvt, TLAPS

PlThreads == {"log", "wq"}
PlItem == [seq : Nat, msg : Nat, end : Nat]
PlBuf == [magic : BOOLEAN, owner : {"fw", "host"}, data : Seq(PlItem), cut : BOOLEAN, done : BOOLEAN]
PlPcType == [PlThreads -> [at : PlPcs, ret : PlPcs]]
PlShape ==
  /\ pl_mem \in [PlBufs -> PlBuf] /\ pl_iova \in PlBufs \cup {"none"}
  /\ pl_kmd \in [ask : {"none", "setup", "release"}, buf : PlBufs, own : SUBSET PlBufs]
  /\ pl_frame \in Seq(PlItem) /\ pl_pos \in Nat /\ pl_pos <= PlFrame
  /\ pl_seq \in Nat /\ pl_said \in Nat /\ pl_got \in Nat
  /\ pl_text.len \in Nat /\ pl_pc \in PlPcType

(* Whoever is past the mutex holds it.                                       *)
PlAlone == \A t \in PlThreads : PlAt(t) \notin {"idle", "lock"} => pl_lock = t

(* The number of the message being processed is still to be used exactly     *)
(* between its arrival and its append or drop.                               *)
PlDue == PlAt("log") \in {"lock", "room"} \/
         (PlAt("log") \in {"flush", "data", "offset", "owner"} /\ pl_pc["log"].ret = "room")
PlCounted ==
  /\ pl_said = pl_seq + (IF PlDue THEN 1 ELSE 0)
  /\ PlAt("wq") \notin {"lock", "room"}
  /\ \A t \in PlThreads : PlAt(t) \in {"flush", "data", "offset", "owner"} =>
       pl_pc[t].ret = "unlock" \/ (t = "log" /\ pl_pc[t].ret = "room")

(* The entries of a frame, and those of a batch, that the host has not read. *)
PlNew(s, got, seq) == \A i \in 1 .. Len(s) : s[i].msg = s[i].seq + 1 /\ got <= s[i].seq /\ s[i].seq < seq
PlFramed == PlNew(pl_frame, pl_got, pl_seq) /\ pl_got <= pl_seq
PlGiven(b) ==
  pl_mem[b].owner = "host" =>
    /\ pl_mem[b].done /\ (pl_mem[b].cut => PlRoom[b] < PlFrame)
    /\ \A i \in 1 .. Len(pl_mem[b].data) : pl_mem[b].data[i].msg = pl_mem[b].data[i].seq + 1
    /\ b = pl_iova => /\ PlNew(pl_mem[b].data, pl_got, pl_seq)
                      /\ \A i \in 1 .. Len(pl_mem[b].data), j \in 1 .. Len(pl_frame) :
                           pl_mem[b].data[i].seq < pl_frame[j].seq

(* A flush in progress writes a buffer the firmware owns.                    *)
PlWriting ==
  \A t \in PlThreads : PlAt(t) \in {"data", "offset", "owner"} =>
    /\ pl_iova \in PlBufs /\ pl_mem[pl_iova].owner = "fw"
    /\ PlAt(t) \in {"offset", "owner"} =>
         PlNew(pl_mem[pl_iova].data, pl_got, pl_seq) /\ (pl_mem[pl_iova].cut => PlRoom[pl_iova] < PlFrame)
    /\ PlAt(t) = "owner" => pl_mem[pl_iova].done

PlIInv == PlShape /\ PlAlone /\ PlCounted /\ PlFramed /\ (\A b \in PlBufs : PlGiven(b)) /\ PlWriting

(* A thread moves on (PlGo), or calls flush_buffer_to_host (PlCall).         *)
LEMMA PlGoes ==
  ASSUME pl_pc \in PlPcType, NEW t \in PlThreads, NEW at \in PlPcs, PlGo(t, at)
  PROVE  /\ pl_pc' \in PlPcType /\ pl_pc'[t].at = at /\ pl_pc'[t].ret = pl_pc[t].ret
         /\ \A u \in PlThreads : u # t => pl_pc'[u] = pl_pc[u]
<1>1. pl_pc[t] \in [at : PlPcs, ret : PlPcs] /\ pl_pc' = [pl_pc EXCEPT ![t] = [pl_pc[t] EXCEPT !.at = at]]
  BY Zenon DEF PlPcType, PlGo
<1> DEFINE x == [pl_pc[t] EXCEPT !.at = at]
<1>2. x \in [at : PlPcs, ret : PlPcs] /\ x.at = at /\ x.ret = pl_pc[t].ret
  BY <1>1, Zenon
<1> HIDE DEF x
<1> QED BY <1>1, <1>2, Zenon DEF PlPcType, x

(* A thread calls flush_buffer_to_host, and will go on at ret.               *)
LEMMA PlCalls ==
  ASSUME pl_pc \in PlPcType, NEW t \in PlThreads, NEW ret \in PlPcs, PlCall(t, ret)
  PROVE  /\ pl_pc' \in PlPcType /\ pl_pc'[t].at = "flush" /\ pl_pc'[t].ret = ret
         /\ \A u \in PlThreads : u # t => pl_pc'[u] = pl_pc[u]
<1> DEFINE x == [at |-> "flush", ret |-> ret]
<1>1. x \in [at : PlPcs, ret : PlPcs] /\ x.at = "flush" /\ x.ret = ret
  BY Zenon DEF PlPcs
<1> HIDE DEF x
<1> QED BY <1>1, Zenon DEF PlPcType, PlCall, x

(* A later sequence number keeps the entries of before below it.             *)
LEMMA PlNewGrows ==
  \A s \in Seq(PlItem) : \A got, n, m \in Nat : n <= m /\ PlNew(s, got, n) => PlNew(s, got, m)
<1> SUFFICES ASSUME NEW s \in Seq(PlItem), NEW got \in Nat, NEW n \in Nat, NEW m \in Nat, n <= m,
                    PlNew(s, got, n), NEW i \in 1 .. Len(s)
             PROVE  s[i].msg = s[i].seq + 1 /\ got <= s[i].seq /\ s[i].seq < m
  BY Zenon DEF PlNew
<1>1. s[i] \in PlItem
  BY SMTT(30)
<1>2. s[i].seq \in Nat
  BY <1>1, Zenon DEF PlItem
<1>3. s[i].msg = s[i].seq + 1 /\ got <= s[i].seq /\ s[i].seq < n
  BY Zenon DEF PlNew
<1> QED BY <1>2, <1>3, SMTT(30)

(* Steps that leave the buffers, the frame and what the host has read alone. *)
LEMMA PlQuiet ==
  ASSUME PlIInv, UNCHANGED <<pl_mem, pl_iova, pl_frame, pl_got>>, pl_seq' \in Nat, pl_seq <= pl_seq',
         \A t \in PlThreads : pl_pc'[t].at \in {"data", "offset", "owner"} => pl_pc'[t].at = pl_pc[t].at
  PROVE  PlFramed' /\ (\A b \in PlBufs : PlGiven(b)') /\ PlWriting'
<1>0. pl_seq \in Nat /\ pl_frame \in Seq(PlItem) /\ pl_mem \in [PlBufs -> PlBuf] /\ pl_got \in Nat
  BY Zenon DEF PlIInv, PlShape
<1>1. \A s \in Seq(PlItem) : PlNew(s, pl_got, pl_seq) => PlNew(s, pl_got', pl_seq')
  BY <1>0, PlNewGrows, Zenon
<1>2. PlFramed'
  BY <1>0, <1>1, SMTT(30) DEF PlIInv, PlFramed
<1>3. \A b \in PlBufs : pl_mem[b].data \in Seq(PlItem)
  BY <1>0, Zenon DEF PlBuf
<1>4. \A b \in PlBufs : PlGiven(b)'
  BY <1>1, <1>3, Zenon DEF PlIInv, PlGiven
<1>5. PlWriting'
  BY <1>1, <1>3, Zenon DEF PlIInv, PlWriting, PlAt
<1> QED BY <1>2, <1>4, <1>5, Zenon

(* The threads' places and the mutex after thread t, which holds it or has   *)
(* just taken it, moves on within what the mutex guards.                     *)
LEMMA PlMoves ==
  ASSUME PlIInv, NEW t \in PlThreads, pl_pc'[t].at \notin {"idle", "lock"}, pl_lock' = t,
         pl_lock = t \/ pl_lock = "none",
         \A u \in PlThreads : u # t => pl_pc'[u] = pl_pc[u]
  PROVE  PlAlone'
<1>1. \A u \in PlThreads : u # t => pl_pc[u].at \in {"idle", "lock"}
  BY SMTT(30) DEF PlIInv, PlAlone, PlAt, PlThreads
<1> QED BY <1>1, Zenon DEF PlAlone, PlAt

(* The count of the messages after a step of thread t that neither counts a  *)
(* message nor uses a number.                                                *)
LEMMA PlCountKept ==
  ASSUME PlIInv, NEW t \in PlThreads, UNCHANGED <<pl_said, pl_seq>>,
         \A u \in PlThreads : u # t => pl_pc'[u] = pl_pc[u],
         t = "wq" => pl_pc'[t].at \notin {"lock", "room"},
         t = "log" => (PlDue' <=> PlDue),
         pl_pc'[t].at \in {"flush", "data", "offset", "owner"} =>
            pl_pc'[t].ret = "unlock" \/ (t = "log" /\ pl_pc'[t].ret = "room")
  PROVE  PlCounted'
<1>1. PlDue' <=> PlDue
  BY Zenon DEF PlDue, PlAt, PlThreads
<1>2. PlAt("wq")' \notin {"lock", "room"}
  BY Zenon DEF PlIInv, PlCounted, PlAt, PlThreads
<1>3. \A u \in PlThreads : PlAt(u)' \in {"flush", "data", "offset", "owner"} =>
       pl_pc'[u].ret = "unlock" \/ (u = "log" /\ pl_pc'[u].ret = "room")
  BY Zenon DEF PlIInv, PlCounted, PlAt
<1> QED BY <1>1, <1>2, <1>3, Zenon DEF PlIInv, PlCounted

(* The start: no entry, no buffer, no thread at work.                        *)
LEMMA PlInitInv == PlInit => PlIInv
<1> SUFFICES ASSUME PlInit PROVE PlIInv
  BY Zenon
<1>0. /\ PlEmpty \in PlBuf /\ PlEmpty.owner = "fw"
      /\ [at |-> "idle", ret |-> "idle"] \in [at : PlPcs, ret : PlPcs]
  BY SMTT(30) DEF PlEmpty, PlBuf, PlPcs
<1>1. \A b \in PlBufs : pl_mem[b] = PlEmpty
  BY Zenon DEF PlInit
<1>2. \A t \in PlThreads : pl_pc[t].at = "idle"
  BY Zenon DEF PlInit, PlThreads
<1>3. PlShape
  <2>1. pl_mem \in [PlBufs -> PlBuf] /\ pl_pc \in PlPcType
    BY <1>0, Zenon DEF PlInit, PlPcType, PlThreads
  <2>2. pl_kmd \in [ask : {"none", "setup", "release"}, buf : PlBufs, own : SUBSET PlBufs]
    BY PlAssumption, Zenon DEF PlInit
  <2> QED BY <2>1, <2>2, PlAssumption, SMTT(30) DEF PlInit, PlShape
<1>4. PlAlone /\ PlCounted /\ PlWriting
  <2>1. "log" \in PlThreads /\ "wq" \in PlThreads
    BY Zenon DEF PlThreads
  <2> QED BY <1>2, <2>1, SMTT(30) DEF PlInit, PlAlone, PlCounted, PlWriting, PlAt, PlDue
<1>5. PlFramed /\ \A b \in PlBufs : PlGiven(b)
  BY <1>0, <1>1, SMTT(30) DEF PlInit, PlFramed, PlNew, PlGiven
<1> QED BY <1>3, <1>4, <1>5, Zenon DEF PlIInv

(* The mutex is given back.                                                  *)
LEMMA PlUnlockInv == ASSUME PlIInv, NEW t \in PlThreads, PlUnlock(t) PROVE PlIInv'
<1>1. /\ pl_pc[t].at = "unlock" /\ pl_lock' = "none" /\ PlGo(t, "idle")
      /\ UNCHANGED <<pl_mem, pl_kmd, pl_iova, pl_frame, pl_pos, pl_seq, pl_said, pl_text, pl_got>>
  BY Zenon DEF PlUnlock, PlAt
<1>2. /\ pl_pc' \in PlPcType /\ pl_pc'[t].at = "idle" /\ pl_pc'[t].ret = pl_pc[t].ret
      /\ \A u \in PlThreads : u # t => pl_pc'[u] = pl_pc[u]
  <2>1. pl_pc \in PlPcType /\ "idle" \in PlPcs
    BY Zenon DEF PlIInv, PlShape, PlPcs
  <2> QED BY <1>1, <2>1, PlGoes, Zenon
<1>3. PlShape'
  BY <1>1, <1>2, Zenon DEF PlIInv, PlShape
<1>4. PlAlone'
  <2>1. pl_lock = t
    BY <1>1, Zenon DEF PlIInv, PlAlone, PlAt
  <2> QED BY <1>1, <1>2, <2>1, Zenon DEF PlIInv, PlAlone, PlAt, PlThreads
<1>5. PlCounted'
  <2>1. t = "log" => (PlDue' <=> PlDue)
    BY <1>1, <1>2, Zenon DEF PlDue, PlAt
  <2> QED BY <1>1, <1>2, <2>1, PlCountKept, Zenon
<1>6. PlFramed' /\ (\A b \in PlBufs : PlGiven(b)') /\ PlWriting'
  <2>1. pl_seq' \in Nat /\ pl_seq <= pl_seq'
    BY <1>1, SMTT(30) DEF PlIInv, PlShape
  <2>2. \A u \in PlThreads : pl_pc'[u].at \in {"data", "offset", "owner"} => pl_pc'[u].at = pl_pc[u].at
    BY <1>2, Zenon
  <2> QED BY <1>1, <2>1, <2>2, PlQuiet, Zenon
<1> QED BY <1>3, <1>4, <1>5, <1>6, Zenon DEF PlIInv

(* Where a flush returns to, and what is known of thread t while it flushes. *)
LEMMA PlFlushes ==
  ASSUME PlIInv, NEW t \in PlThreads, pl_pc[t].at \in {"flush", "data", "offset", "owner"}
  PROVE  /\ pl_lock = t /\ pl_pc[t].ret \in {"unlock", "room"} /\ (t = "wq" => pl_pc[t].ret = "unlock")
         /\ \A u \in PlThreads : u # t => pl_pc[u].at \in {"idle", "lock"}
         /\ pl_pc \in PlPcType
<1>1. pl_lock = t /\ pl_pc \in PlPcType
  BY Zenon DEF PlIInv, PlAlone, PlAt, PlShape
<1> QED BY <1>1, Zenon DEF PlIInv, PlAlone, PlAt, PlCounted, PlThreads

(* A step of a flush keeps the mutex and the count of the messages.          *)
LEMMA PlFlushKeeps ==
  ASSUME PlIInv, NEW t \in PlThreads, pl_pc[t].at \in {"flush", "data", "offset", "owner"},
         UNCHANGED <<pl_lock, pl_seq, pl_said>>,
         PlReturn(t) \/ \E at \in {"data", "offset", "owner"} : PlGo(t, at)
  PROVE  /\ PlAlone' /\ PlCounted' /\ pl_pc' \in PlPcType
         /\ \A u \in PlThreads : u # t => pl_pc'[u].at \in {"idle", "lock"}
         /\ PlReturn(t) => pl_pc'[t].at \in {"unlock", "room"}
         /\ \A at \in {"data", "offset", "owner"} : PlGo(t, at) => pl_pc'[t].at = at
<1>1. /\ pl_lock = t /\ pl_pc[t].ret \in {"unlock", "room"} /\ (t = "wq" => pl_pc[t].ret = "unlock")
      /\ \A u \in PlThreads : u # t => pl_pc[u].at \in {"idle", "lock"}
      /\ pl_pc \in PlPcType
  BY PlFlushes, Zenon
<1>2. PICK at \in {"data", "offset", "owner", "unlock", "room"} :
        PlGo(t, at) /\ (at = pl_pc[t].ret \/ at \in {"data", "offset", "owner"})
  BY <1>1, Zenon DEF PlReturn
<1>3. \A x \in {"data", "offset", "owner", "unlock", "room"} : x \in PlPcs
  BY Zenon DEF PlPcs
<1>4. \A x \in {"data", "offset", "owner", "unlock", "room"} : PlGo(t, x) =>
        /\ pl_pc' \in PlPcType /\ pl_pc'[t].at = x /\ pl_pc'[t].ret = pl_pc[t].ret
        /\ \A u \in PlThreads : u # t => pl_pc'[u] = pl_pc[u]
  BY <1>1, <1>3, PlGoes, Zenon
<1>5. /\ pl_pc' \in PlPcType /\ pl_pc'[t].at = at /\ pl_pc'[t].ret = pl_pc[t].ret
      /\ \A u \in PlThreads : u # t => pl_pc'[u] = pl_pc[u]
  BY <1>2, <1>4, Zenon
<1>6. PlAlone'
  BY <1>1, <1>5, PlMoves, Zenon
<1>7. PlCounted'
  <2>1. t = "log" => (PlDue' <=> PlDue)
    BY <1>1, <1>2, <1>5, Zenon DEF PlDue, PlAt
  <2>2. t = "wq" => pl_pc'[t].at \notin {"lock", "room"}
    BY <1>1, <1>2, <1>5, Zenon
  <2>3. t = "log" \/ t = "wq"
    BY Zenon DEF PlThreads
  <2> QED BY <1>1, <1>5, <2>1, <2>2, <2>3, PlCountKept, Zenon
<1>8. PlReturn(t) => pl_pc'[t].at \in {"unlock", "room"}
  BY <1>1, <1>4, Zenon DEF PlReturn
<1> QED BY <1>1, <1>4, <1>5, <1>6, <1>7, <1>8, Zenon

(* flush_buffer_to_host looks at the buffer: nothing to do, the host is too  *)
(* slow and the frame is dropped, or the write begins.                       *)
LEMMA PlCheckInv == ASSUME PlIInv, NEW t \in PlThreads, PlFlushCheck(t) PROVE PlIInv'
<1>1. /\ pl_pc[t].at = "flush"
      /\ UNCHANGED <<pl_mem, pl_kmd, pl_iova, pl_seq, pl_said, pl_lock, pl_text, pl_got>>
      /\ \/ PlReturn(t) /\ UNCHANGED <<pl_frame, pl_pos>>
         \/ PlReturn(t) /\ PlDropFrame
         \/ /\ pl_iova # "none" /\ pl_mem[pl_iova].owner = "fw" /\ PlGo(t, "data")
            /\ UNCHANGED <<pl_frame, pl_pos>>
  BY Zenon DEF PlFlushCheck, PlAt
<1>2. /\ PlAlone' /\ PlCounted' /\ pl_pc' \in PlPcType
      /\ \A u \in PlThreads : u # t => pl_pc'[u].at \in {"idle", "lock"}
      /\ PlReturn(t) => pl_pc'[t].at \in {"unlock", "room"}
      /\ PlGo(t, "data") => pl_pc'[t].at = "data"
  BY <1>1, PlFlushKeeps, Zenon
<1>3. CASE PlReturn(t) /\ UNCHANGED <<pl_frame, pl_pos>>
  <2>1. PlShape'
    BY <1>1, <1>2, <1>3, Zenon DEF PlIInv, PlShape
  <2>2. pl_seq' \in Nat /\ pl_seq <= pl_seq'
    BY <1>1, SMTT(30) DEF PlIInv, PlShape
  <2>3. \A u \in PlThreads : pl_pc'[u].at \notin {"data", "offset", "owner"}
    BY <1>2, <1>3, Zenon
  <2>4. PlFramed' /\ (\A b \in PlBufs : PlGiven(b)') /\ PlWriting'
    BY <1>1, <1>3, <2>2, <2>3, PlQuiet, Zenon
  <2> QED BY <1>2, <2>1, <2>4, Zenon DEF PlIInv
<1>4. CASE PlReturn(t) /\ PlDropFrame
  <2>1. pl_frame' = <<>> /\ pl_pos' = 0
    BY <1>4, Zenon DEF PlDropFrame
  <2>2. PlShape'
    BY <1>1, <1>2, <2>1, PlAssumption, SMTT(30) DEF PlIInv, PlShape
  <2>3. PlFramed' /\ (\A b \in PlBufs : PlGiven(b)')
    BY <1>1, <2>1, SMTT(30) DEF PlIInv, PlFramed, PlGiven, PlNew
  <2>4. PlWriting'
    BY <1>2, <1>4, Zenon DEF PlWriting, PlAt
  <2> QED BY <1>2, <2>2, <2>3, <2>4, Zenon DEF PlIInv
<1>5. CASE /\ pl_iova # "none" /\ pl_mem[pl_iova].owner = "fw" /\ PlGo(t, "data")
           /\ UNCHANGED <<pl_frame, pl_pos>>
  <2>1. PlShape'
    BY <1>1, <1>2, <1>5, Zenon DEF PlIInv, PlShape
  <2>2. PlFramed' /\ (\A b \in PlBufs : PlGiven(b)')
    BY <1>1, <1>5, Zenon DEF PlIInv, PlFramed, PlGiven
  <2>3. PlWriting'
    <3>1. pl_iova' \in PlBufs /\ pl_mem'[pl_iova'].owner = "fw"
      BY <1>1, <1>5, Zenon DEF PlIInv, PlShape
    <3> QED BY <1>2, <1>5, <3>1, Zenon DEF PlWriting, PlAt
  <2> QED BY <1>2, <2>1, <2>2, <2>3, Zenon DEF PlIInv
<1> QED BY <1>1, <1>3, <1>4, <1>5, Zenon

(* A buffer that is written over, in the array of buffers.                   *)
LEMMA PlSetBuf ==
  ASSUME NEW b \in PlBufs, NEW x \in PlBuf, pl_mem \in [PlBufs -> PlBuf], pl_mem' = [pl_mem EXCEPT ![b] = x]
  PROVE  /\ pl_mem' \in [PlBufs -> PlBuf] /\ pl_mem'[b] = x
         /\ \A c \in PlBufs : c # b => pl_mem'[c] = pl_mem[c]
  BY Zenon

(* The other buffers of a step that writes one the firmware owns.            *)
LEMMA PlOthersGiven ==
  ASSUME PlIInv, NEW b \in PlBufs, pl_mem' \in [PlBufs -> PlBuf], UNCHANGED <<pl_iova, pl_got, pl_seq>>,
         pl_frame' \in {pl_frame, <<>>}, \A c \in PlBufs : c # b => pl_mem'[c] = pl_mem[c]
  PROVE  \A c \in PlBufs : c # b => PlGiven(c)'
<1> SUFFICES ASSUME NEW c \in PlBufs, c # b PROVE PlGiven(c)'
  BY Zenon
<1>1. pl_mem'[c] = pl_mem[c] /\ PlGiven(c)
  BY Zenon DEF PlIInv
<1>2. CASE pl_frame' = pl_frame
  BY <1>1, <1>2, Zenon DEF PlGiven
<1>3. CASE pl_frame' = <<>>
  BY <1>1, <1>3, SMTT(30) DEF PlGiven
<1> QED BY <1>2, <1>3, Zenon

(* The frame's whole entries are written to the buffer.                      *)
LEMMA PlDataInv == ASSUME PlIInv, NEW t \in PlThreads, PlWriteData(t) PROVE PlIInv'
<1>1. PICK n \in 0 .. Len(pl_frame) :
        /\ pl_pc[t].at = "data" /\ PlGo(t, "offset")
        /\ pl_mem' = [pl_mem EXCEPT
              ![pl_iova] = [@ EXCEPT !.data = SubSeq(pl_frame, 1, n), !.cut = pl_pos > PlRoom[pl_iova],
                                     !.done = FALSE]]
        /\ UNCHANGED <<pl_kmd, pl_iova, pl_frame, pl_pos, pl_seq, pl_said, pl_lock, pl_text, pl_got>>
  BY Zenon DEF PlWriteData, PlAt
<1>2. /\ PlAlone' /\ PlCounted' /\ pl_pc' \in PlPcType /\ pl_pc'[t].at = "offset"
      /\ \A u \in PlThreads : u # t => pl_pc'[u].at \in {"idle", "lock"}
  BY <1>1, PlFlushKeeps, Zenon
<1>3. /\ pl_mem \in [PlBufs -> PlBuf] /\ pl_iova \in PlBufs /\ pl_mem[pl_iova].owner = "fw"
      /\ pl_frame \in Seq(PlItem) /\ pl_pos \in Nat /\ pl_pos <= PlFrame /\ PlRoom[pl_iova] \in Nat
  BY <1>1, PlAssumption, Zenon DEF PlIInv, PlShape, PlWriting, PlAt
<1> DEFINE d == SubSeq(pl_frame, 1, n)
           cut == pl_pos > PlRoom[pl_iova]
           x == [pl_mem[pl_iova] EXCEPT !.data = d, !.cut = cut, !.done = FALSE]
<1>4. d \in Seq(PlItem) /\ Len(d) = n /\ n <= Len(pl_frame) /\ \A i \in 1 .. n : d[i] = pl_frame[i]
  BY <1>3, SMTT(30)
<1>5. cut \in BOOLEAN /\ (cut => PlRoom[pl_iova] < PlFrame)
  BY <1>3, PlAssumption, SMTT(30)
<1>6. PlNew(d, pl_got, pl_seq)
  BY <1>3, <1>4, SMTT(30) DEF PlIInv, PlFramed, PlNew
<1> HIDE DEF d, cut
<1>7. x \in PlBuf /\ x.owner = "fw" /\ x.data = d /\ x.cut = cut
  BY <1>3, <1>4, <1>5, Zenon DEF PlBuf
<1>8. pl_mem' = [pl_mem EXCEPT ![pl_iova] = x]
  BY <1>1, Zenon DEF d, cut
<1> HIDE DEF x
<1>9. /\ pl_mem' \in [PlBufs -> PlBuf] /\ pl_mem'[pl_iova] = x
      /\ \A c \in PlBufs : c # pl_iova => pl_mem'[c] = pl_mem[c]
  BY <1>3, <1>7, <1>8, PlSetBuf, Zenon
<1>10. PlShape'
  BY <1>1, <1>2, <1>9, Zenon DEF PlIInv, PlShape
<1>11. PlFramed'
  BY <1>1, Zenon DEF PlIInv, PlFramed
<1>12. \A b \in PlBufs : PlGiven(b)'
  <2>1. \A c \in PlBufs : c # pl_iova => PlGiven(c)'
    BY <1>1, <1>3, <1>9, PlOthersGiven, Zenon
  <2>2. \A c \in PlBufs : c = pl_iova => PlGiven(c)'
    BY <1>7, <1>9, Zenon DEF PlGiven
  <2> QED BY <2>1, <2>2, Zenon
<1>13. PlWriting'
  <2>1. pl_mem'[pl_iova'] = x /\ pl_iova' \in PlBufs /\ pl_iova' = pl_iova
    BY <1>1, <1>3, <1>9, Zenon
  <2>2. PlNew(pl_mem'[pl_iova'].data, pl_got', pl_seq')
    BY <1>1, <1>6, <1>7, <2>1, Zenon
  <2>3. pl_mem'[pl_iova'].owner = "fw" /\ (pl_mem'[pl_iova'].cut => PlRoom[pl_iova'] < PlFrame)
    BY <1>5, <1>7, <2>1, Zenon
  <2> QED BY <1>2, <2>1, <2>2, <2>3, Zenon DEF PlWriting, PlAt
<1> QED BY <1>2, <1>10, <1>11, <1>12, <1>13, Zenon DEF PlIInv

(* The offset is written: the batch is complete.                             *)
LEMMA PlOffsetInv == ASSUME PlIInv, NEW t \in PlThreads, PlWriteOffset(t) PROVE PlIInv'
<1> DEFINE m == pl_mem[pl_iova]
           x == [m EXCEPT !.done = TRUE]
<1>1. /\ pl_pc[t].at = "offset" /\ PlGo(t, "owner") /\ pl_mem' = [pl_mem EXCEPT ![pl_iova] = x]
      /\ UNCHANGED <<pl_kmd, pl_iova, pl_frame, pl_pos, pl_seq, pl_said, pl_lock, pl_text, pl_got>>
  BY Zenon DEF PlWriteOffset, PlAt
<1>2. /\ PlAlone' /\ PlCounted' /\ pl_pc' \in PlPcType /\ pl_pc'[t].at = "owner"
      /\ \A u \in PlThreads : u # t => pl_pc'[u].at \in {"idle", "lock"}
  BY <1>1, PlFlushKeeps, Zenon
<1>3. /\ pl_mem \in [PlBufs -> PlBuf] /\ pl_iova \in PlBufs /\ m.owner = "fw" /\ m \in PlBuf
      /\ PlNew(m.data, pl_got, pl_seq) /\ (m.cut => PlRoom[pl_iova] < PlFrame)
  BY <1>1, Zenon DEF PlIInv, PlShape, PlWriting, PlAt
<1> HIDE DEF m
<1>4. x \in PlBuf /\ x.owner = "fw" /\ x.data = m.data /\ x.cut = m.cut /\ x.done
  BY <1>3, Zenon DEF PlBuf
<1> HIDE DEF x
<1>5. /\ pl_mem' \in [PlBufs -> PlBuf] /\ pl_mem'[pl_iova] = x
      /\ \A c \in PlBufs : c # pl_iova => pl_mem'[c] = pl_mem[c]
  BY <1>1, <1>3, <1>4, PlSetBuf, Zenon
<1>6. PlShape' /\ PlFramed'
  BY <1>1, <1>2, <1>5, Zenon DEF PlIInv, PlShape, PlFramed
<1>7. \A b \in PlBufs : PlGiven(b)'
  <2>1. \A c \in PlBufs : c # pl_iova => PlGiven(c)'
    BY <1>1, <1>3, <1>5, PlOthersGiven, Zenon
  <2>2. \A c \in PlBufs : c = pl_iova => PlGiven(c)'
    BY <1>4, <1>5, Zenon DEF PlGiven
  <2> QED BY <2>1, <2>2, Zenon
<1>8. PlWriting'
  <2>1. pl_mem'[pl_iova'] = x /\ pl_iova' \in PlBufs /\ pl_iova' = pl_iova
    BY <1>1, <1>3, <1>5, Zenon
  <2>2. PlNew(pl_mem'[pl_iova'].data, pl_got', pl_seq')
    BY <1>1, <1>3, <1>4, <2>1, Zenon
  <2>3. /\ pl_mem'[pl_iova'].owner = "fw" /\ pl_mem'[pl_iova'].done
        /\ pl_mem'[pl_iova'].cut => PlRoom[pl_iova'] < PlFrame
    BY <1>3, <1>4, <2>1, Zenon
  <2> QED BY <1>2, <2>1, <2>2, <2>3, Zenon DEF PlWriting, PlAt
<1> QED BY <1>2, <1>6, <1>7, <1>8, Zenon DEF PlIInv

(* The batch is handed over and the frame is empty again.                    *)
LEMMA PlOwnerInv == ASSUME PlIInv, NEW t \in PlThreads, PlWriteOwner(t) PROVE PlIInv'
<1> DEFINE m == pl_mem[pl_iova]
           x == [m EXCEPT !.owner = "host"]
<1>1. /\ pl_pc[t].at = "owner" /\ PlReturn(t) /\ pl_mem' = [pl_mem EXCEPT ![pl_iova] = x]
      /\ pl_frame' = <<>> /\ pl_pos' = 0
      /\ UNCHANGED <<pl_kmd, pl_iova, pl_seq, pl_said, pl_lock, pl_text, pl_got>>
  BY Zenon DEF PlWriteOwner, PlAt, PlDropFrame
<1>2. /\ PlAlone' /\ PlCounted' /\ pl_pc' \in PlPcType /\ pl_pc'[t].at \in {"unlock", "room"}
      /\ \A u \in PlThreads : u # t => pl_pc'[u].at \in {"idle", "lock"}
  BY <1>1, PlFlushKeeps, Zenon
<1>3. /\ pl_mem \in [PlBufs -> PlBuf] /\ pl_iova \in PlBufs /\ m.done /\ m \in PlBuf
      /\ PlNew(m.data, pl_got, pl_seq) /\ (m.cut => PlRoom[pl_iova] < PlFrame)
  BY <1>1, Zenon DEF PlIInv, PlShape, PlWriting, PlAt
<1> HIDE DEF m
<1>4. x \in PlBuf /\ x.data = m.data /\ x.cut = m.cut /\ x.done
  <2>1. "host" \in {"fw", "host"}
    BY Zenon
  <2> QED BY <1>3, <2>1, Zenon DEF PlBuf
<1> HIDE DEF x
<1>5. /\ pl_mem' \in [PlBufs -> PlBuf] /\ pl_mem'[pl_iova] = x
      /\ \A c \in PlBufs : c # pl_iova => pl_mem'[c] = pl_mem[c]
  BY <1>1, <1>3, <1>4, PlSetBuf, Zenon
<1>6. PlShape' /\ PlFramed'
  <2>1. PlFramed'
    BY <1>1, SMTT(30) DEF PlIInv, PlFramed, PlNew
  <2> QED BY <1>1, <1>2, <1>5, <2>1, PlAssumption, SMTT(30) DEF PlIInv, PlShape
<1>7. \A b \in PlBufs : PlGiven(b)'
  <2>1. \A c \in PlBufs : c # pl_iova => PlGiven(c)'
    BY <1>1, <1>3, <1>5, PlOthersGiven, Zenon
  <2>2. \A c \in PlBufs : c = pl_iova => PlGiven(c)'
    <3> SUFFICES ASSUME NEW c \in PlBufs, c = pl_iova PROVE PlGiven(c)'
      BY Zenon
    <3>1. pl_mem'[c].data = m.data /\ pl_mem'[c].done /\ (pl_mem'[c].cut => PlRoom[c] < PlFrame)
      BY <1>3, <1>4, <1>5, Zenon
    <3>2. PlNew(pl_mem'[c].data, pl_got', pl_seq')
      BY <1>1, <1>3, <3>1, Zenon
    <3>3. \A i \in 1 .. Len(pl_mem'[c].data) : pl_mem'[c].data[i].msg = pl_mem'[c].data[i].seq + 1
      BY <3>2, Zenon DEF PlNew
    <3> QED BY <1>1, <3>1, <3>2, <3>3, SMTT(30) DEF PlGiven
  <2> QED BY <2>1, <2>2, Zenon
<1>8. PlWriting'
  BY <1>2, Zenon DEF PlWriting, PlAt
<1> QED BY <1>2, <1>6, <1>7, <1>8, Zenon DEF PlIInv

(* A message arrives: its number is due.                                     *)
LEMMA PlMessageInv == ASSUME PlIInv, PlMessage PROVE PlIInv'
<1>1. /\ pl_pc["log"].at = "idle" /\ pl_said' = pl_said + 1 /\ PlGo("log", "lock") /\ pl_text'.len \in Nat
      /\ UNCHANGED <<pl_mem, pl_kmd, pl_iova, pl_frame, pl_pos, pl_seq, pl_lock, pl_got>>
  BY PlAssumption, SMTT(30) DEF PlMessage, PlAt
<1>2. /\ pl_pc' \in PlPcType /\ pl_pc'["log"].at = "lock" /\ "log" \in PlThreads
      /\ \A u \in PlThreads : u # "log" => pl_pc'[u] = pl_pc[u]
  <2>1. pl_pc \in PlPcType /\ "lock" \in PlPcs /\ "log" \in PlThreads
    BY Zenon DEF PlIInv, PlShape, PlPcs, PlThreads
  <2> QED BY <1>1, <2>1, PlGoes, Zenon
<1>3. PlShape'
  BY <1>1, <1>2, SMTT(30) DEF PlIInv, PlShape
<1>4. PlAlone'
  BY <1>1, <1>2, Zenon DEF PlIInv, PlAlone, PlAt
<1>5. PlCounted'
  <2>1. PlDue' /\ ~PlDue
    BY <1>1, <1>2, Zenon DEF PlDue, PlAt
  <2>2. PlAt("wq")' \notin {"lock", "room"}
    BY <1>2, Zenon DEF PlIInv, PlCounted, PlAt, PlThreads
  <2>3. \A u \in PlThreads : PlAt(u)' \in {"flush", "data", "offset", "owner"} =>
          pl_pc'[u].ret = "unlock" \/ (u = "log" /\ pl_pc'[u].ret = "room")
    BY <1>2, Zenon DEF PlIInv, PlCounted, PlAt
  <2>4. pl_said' = pl_seq' + 1
    BY <1>1, <2>1, SMTT(30) DEF PlIInv, PlCounted, PlShape
  <2> QED BY <2>1, <2>2, <2>3, <2>4, Zenon DEF PlCounted
<1>6. PlFramed' /\ (\A b \in PlBufs : PlGiven(b)') /\ PlWriting'
  <2>1. pl_seq' \in Nat /\ pl_seq <= pl_seq'
    BY <1>1, SMTT(30) DEF PlIInv, PlShape
  <2>2. \A u \in PlThreads : pl_pc'[u].at \in {"data", "offset", "owner"} => pl_pc'[u].at = pl_pc[u].at
    BY <1>2, Zenon
  <2> QED BY <1>1, <2>1, <2>2, PlQuiet, Zenon
<1> QED BY <1>3, <1>4, <1>5, <1>6, Zenon DEF PlIInv

(* A thread that was idle takes the mutex and calls the flush, or goes on.   *)
LEMMA PlEntersInv ==
  ASSUME PlIInv, NEW t \in PlThreads, pl_pc[t].at \in {"idle", "lock"}, pl_lock = "none", pl_lock' = t,
         NEW ret \in {"unlock", "room"}, ret = "room" <=> pl_pc[t].at = "lock",
         PlCall(t, ret) \/ PlGo(t, ret),
         UNCHANGED <<pl_mem, pl_kmd, pl_iova, pl_frame, pl_pos, pl_seq, pl_said, pl_text, pl_got>>
  PROVE  PlIInv'
<1>0. pl_pc \in PlPcType /\ ret \in PlPcs
  BY Zenon DEF PlIInv, PlShape, PlPcs
<1>1. /\ pl_pc' \in PlPcType /\ \A u \in PlThreads : u # t => pl_pc'[u] = pl_pc[u]
      /\ (pl_pc'[t].at = "flush" /\ pl_pc'[t].ret = ret) \/ pl_pc'[t].at = ret
  BY <1>0, PlCalls, PlGoes, Zenon
<1>2. PlShape'
  BY <1>1, Zenon DEF PlIInv, PlShape
<1>3. PlAlone'
  BY <1>1, PlMoves, Zenon
<1>4. PlCounted'
  <2>1. t = "log" => (PlDue' <=> PlDue)
    BY <1>1, Zenon DEF PlDue, PlAt
  <2>2. t = "wq" => ret = "unlock"
    BY Zenon DEF PlIInv, PlCounted, PlAt
  <2>3. t = "log" \/ t = "wq"
    BY Zenon DEF PlThreads
  <2> QED BY <1>1, <2>1, <2>2, <2>3, PlCountKept, Zenon
<1>5. PlFramed' /\ (\A b \in PlBufs : PlGiven(b)') /\ PlWriting'
  <2>1. pl_seq' \in Nat /\ pl_seq <= pl_seq'
    BY SMTT(30) DEF PlIInv, PlShape
  <2>2. \A u \in PlThreads : pl_pc'[u].at \in {"data", "offset", "owner"} => pl_pc'[u].at = pl_pc[u].at
    BY <1>1, Zenon
  <2> QED BY <2>1, <2>2, PlQuiet, Zenon
<1> QED BY <1>2, <1>3, <1>4, <1>5, Zenon DEF PlIInv

(* The message's number is used: counted as lost, or given to its entry.     *)
LEMMA PlUsed ==
  ASSUME PlIInv, pl_seq' = pl_seq + 1, UNCHANGED pl_said, PlDue, ~PlDue',
         \A u \in PlThreads : u # "log" => pl_pc'[u] = pl_pc[u],
         pl_pc'["log"].at \in {"flush", "data", "offset", "owner"} => pl_pc'["log"].ret = "unlock"
  PROVE  PlCounted'
<1>1. PlAt("wq")' \notin {"lock", "room"}
  BY Zenon DEF PlIInv, PlCounted, PlAt, PlThreads
<1>2. \A u \in PlThreads : PlAt(u)' \in {"flush", "data", "offset", "owner"} =>
        pl_pc'[u].ret = "unlock" \/ (u = "log" /\ pl_pc'[u].ret = "room")
  BY Zenon DEF PlIInv, PlCounted, PlAt
<1>3. pl_said' = pl_seq'
  BY Zenon DEF PlIInv, PlCounted, PlShape
<1>4. pl_seq' \in Nat
  BY SMTT(30) DEF PlIInv, PlShape
<1> QED BY <1>1, <1>2, <1>3, <1>4, SMTT(30) DEF PlCounted

(* The log thread gets the mutex, or its timeout loses the message.          *)
LEMMA PlTakeInv == ASSUME PlIInv, PlTake PROVE PlIInv'
<1>0. "log" \in PlThreads /\ "lock" \in PlPcs /\ "idle" \in PlPcs /\ pl_pc \in PlPcType
  BY Zenon DEF PlThreads, PlPcs, PlIInv, PlShape
<1>1. /\ pl_pc["log"].at = "lock"
      /\ UNCHANGED <<pl_mem, pl_kmd, pl_iova, pl_frame, pl_pos, pl_said, pl_text, pl_got>>
      /\ \/ /\ pl_lock = "none" /\ pl_lock' = "log" /\ UNCHANGED pl_seq
            /\ PlCall("log", "room") \/ PlGo("log", "room")
         \/ UNCHANGED pl_lock /\ pl_seq' = pl_seq + 1 /\ PlGo("log", "idle")
  BY Zenon DEF PlTake, PlAt, PlLock, PlTimeout
<1>2. CASE /\ pl_lock = "none" /\ pl_lock' = "log" /\ UNCHANGED pl_seq
           /\ PlCall("log", "room") \/ PlGo("log", "room")
  BY <1>0, <1>1, <1>2, PlEntersInv, Zenon
<1>3. CASE UNCHANGED pl_lock /\ pl_seq' = pl_seq + 1 /\ PlGo("log", "idle")
  <2>1. /\ pl_pc' \in PlPcType /\ pl_pc'["log"].at = "idle"
        /\ \A u \in PlThreads : u # "log" => pl_pc'[u] = pl_pc[u]
    BY <1>0, <1>3, PlGoes, Zenon
  <2>2. pl_seq' \in Nat /\ pl_seq <= pl_seq'
    BY <1>3, SMTT(30) DEF PlIInv, PlShape
  <2>3. PlShape'
    BY <1>1, <2>1, <2>2, Zenon DEF PlIInv, PlShape
  <2>4. PlAlone'
    BY <1>3, <2>1, Zenon DEF PlIInv, PlAlone, PlAt
  <2>5. PlCounted'
    <3>1. PlDue /\ ~PlDue'
      BY <1>1, <2>1, Zenon DEF PlDue, PlAt
    <3> QED BY <1>1, <1>3, <2>1, <3>1, PlUsed, Zenon
  <2>6. \A u \in PlThreads : pl_pc'[u].at \in {"data", "offset", "owner"} => pl_pc'[u].at = pl_pc[u].at
    BY <2>1, Zenon
  <2>7. PlFramed' /\ (\A b \in PlBufs : PlGiven(b)') /\ PlWriting'
    BY <1>1, <2>2, <2>6, PlQuiet, Zenon
  <2> QED BY <2>3, <2>4, <2>5, <2>7, Zenon DEF PlIInv
<1> QED BY <1>1, <1>2, <1>3, Zenon

(* putc_in_frame stays in the frame and leaves room for the NUL.             *)
LEMMA PlPut ==
  \A pos, n \in Nat : pos <= PlFrame - 1 => putc_in_frame(pos, n) \in Nat /\ putc_in_frame(pos, n) <= PlFrame - 1
  BY PlAssumption, SMTT(30) DEF putc_in_frame

(* The message is framed under its number, or lost to a full frame.          *)
LEMMA PlAppendInv == ASSUME PlIInv, PlAppend PROVE PlIInv'
<1>0. "log" \in PlThreads /\ "unlock" \in PlPcs /\ pl_pc \in PlPcType
  BY Zenon DEF PlThreads, PlPcs, PlIInv, PlShape
<1> DEFINE end == putc_in_frame(pl_pos + PlHdr, pl_text.len) + 1
           e == [seq |-> pl_seq, msg |-> pl_said, end |-> end]
<1>1. /\ pl_pc["log"].at = "room" /\ pl_seq' = pl_seq + 1
      /\ UNCHANGED <<pl_mem, pl_kmd, pl_iova, pl_said, pl_lock, pl_text, pl_got>>
      /\ PlCall("log", "unlock") \/ PlGo("log", "unlock")
      /\ \/ UNCHANGED <<pl_frame, pl_pos>>
         \/ pl_pos + PlHdr + 1 <= PlFrame /\ pl_frame' = Append(pl_frame, e) /\ pl_pos' = end
  BY Zenon DEF PlAppend, PlAt
<1>2. /\ pl_pc' \in PlPcType /\ \A u \in PlThreads : u # "log" => pl_pc'[u] = pl_pc[u]
      /\ (pl_pc'["log"].at = "flush" /\ pl_pc'["log"].ret = "unlock") \/ pl_pc'["log"].at = "unlock"
  BY <1>0, <1>1, PlCalls, PlGoes, Zenon
<1>3. /\ pl_seq \in Nat /\ pl_seq' \in Nat /\ pl_seq <= pl_seq' /\ pl_said = pl_seq + 1 /\ pl_got \in Nat
      /\ pl_got <= pl_seq /\ PlDue /\ ~PlDue'
  <2>1. PlDue /\ ~PlDue'
    BY <1>1, <1>2, Zenon DEF PlDue, PlAt
  <2> QED BY <1>1, <2>1, SMTT(30) DEF PlIInv, PlShape, PlCounted, PlFramed
<1>4. PlAlone'
  <2>1. pl_lock = "log"
    BY <1>0, <1>1, Zenon DEF PlIInv, PlAlone, PlAt
  <2> QED BY <1>0, <1>1, <1>2, <2>1, PlMoves, Zenon
<1>5. PlCounted'
  BY <1>1, <1>2, <1>3, PlUsed, Zenon
<1>6. \A u \in PlThreads : pl_pc'[u].at \notin {"data", "offset", "owner"}
  <2>1. \A u \in PlThreads : u # "log" => pl_pc[u].at \in {"idle", "lock"}
    BY <1>0, <1>1, Zenon DEF PlIInv, PlAlone, PlAt, PlThreads
  <2> QED BY <1>2, <2>1, Zenon
<1>7. CASE UNCHANGED <<pl_frame, pl_pos>>
  <2>1. PlShape'
    BY <1>1, <1>2, <1>3, <1>7, Zenon DEF PlIInv, PlShape
  <2>2. PlFramed' /\ (\A b \in PlBufs : PlGiven(b)') /\ PlWriting'
    BY <1>1, <1>3, <1>6, <1>7, PlQuiet, Zenon
  <2> QED BY <1>4, <1>5, <2>1, <2>2, Zenon DEF PlIInv
<1>8. CASE pl_pos + PlHdr + 1 <= PlFrame /\ pl_frame' = Append(pl_frame, e) /\ pl_pos' = end
  <2>1. end \in Nat /\ end <= PlFrame
    <3>1. pl_pos + PlHdr \in Nat /\ pl_pos + PlHdr <= PlFrame - 1 /\ pl_text.len \in Nat /\ PlFrame \in Nat
      BY <1>8, PlAssumption, SMTT(30) DEF PlIInv, PlShape
    <3> HIDE DEF end
    <3>2. \A y \in Nat : y <= PlFrame - 1 => y + 1 \in Nat /\ y + 1 <= PlFrame
      BY <3>1, SMTT(30)
    <3> QED BY <3>1, <3>2, PlPut, Zenon DEF end
  <2> HIDE DEF end
  <2>2. e \in PlItem /\ e.seq = pl_seq /\ e.msg = pl_seq + 1
    BY <1>3, <2>1, SMTT(30) DEF PlItem
  <2> HIDE DEF e
  <2>3. /\ pl_frame \in Seq(PlItem) /\ Len(pl_frame) \in Nat /\ pl_frame' \in Seq(PlItem)
        /\ Len(pl_frame') = Len(pl_frame) + 1 /\ pl_frame'[Len(pl_frame) + 1] = e
        /\ \A i \in 1 .. Len(pl_frame) : pl_frame'[i] = pl_frame[i]
    BY <1>8, <2>2, SMTT(30) DEF PlIInv, PlShape
  <2>4. PlShape'
    BY <1>1, <1>2, <1>3, <1>8, <2>1, <2>3, Zenon DEF PlIInv, PlShape
  <2>5. \A s \in Seq(PlItem) : PlNew(s, pl_got, pl_seq) => PlNew(s, pl_got', pl_seq')
    BY <1>1, <1>3, PlNewGrows, Zenon
  <2>6. PlFramed'
    <3>1. PlNew(pl_frame, pl_got', pl_seq')
      BY <2>3, <2>5, Zenon DEF PlIInv, PlFramed
    <3>2. PlNew(pl_frame', pl_got', pl_seq')
      BY <1>1, <1>3, <2>2, <2>3, <3>1, SMTT(30) DEF PlNew
    <3> QED BY <1>1, <1>3, <3>2, SMTT(30) DEF PlFramed
  <2>7. \A b \in PlBufs : PlGiven(b)'
    <3> SUFFICES ASSUME NEW b \in PlBufs, pl_mem[b].owner = "host" PROVE PlGiven(b)'
      BY <1>1, Zenon DEF PlGiven
    <3>0. pl_mem[b].data \in Seq(PlItem) /\ PlGiven(b) /\ pl_mem'[b] = pl_mem[b] /\ pl_iova' = pl_iova
      BY <1>1, Zenon DEF PlIInv, PlShape, PlBuf
    <3>1. b = pl_iova => PlNew(pl_mem[b].data, pl_got', pl_seq')
      BY <2>5, <3>0, Zenon DEF PlGiven
    <3>2. b = pl_iova => \A i \in 1 .. Len(pl_mem[b].data), j \in 1 .. Len(pl_frame') :
                           pl_mem[b].data[i].seq < pl_frame'[j].seq
      <4>1. b = pl_iova => \A i \in 1 .. Len(pl_mem[b].data) : pl_mem[b].data[i].seq < e.seq
        BY <2>2, <3>0, Zenon DEF PlGiven, PlNew
      <4>2. \A j \in 1 .. Len(pl_frame') : pl_frame'[j] = e \/ (j \in 1 .. Len(pl_frame) /\ pl_frame'[j] = pl_frame[j])
        BY <2>3, SMTT(30)
      <4>3. b = pl_iova => \A i \in 1 .. Len(pl_mem[b].data), j \in 1 .. Len(pl_frame) :
                             pl_mem[b].data[i].seq < pl_frame[j].seq
        BY <3>0, Zenon DEF PlGiven
      <4> QED BY <4>1, <4>2, <4>3, Zenon
    <3> QED BY <3>0, <3>1, <3>2, Zenon DEF PlGiven
  <2>8. PlWriting'
    BY <1>6, Zenon DEF PlWriting, PlAt
  <2> QED BY <1>4, <1>5, <2>4, <2>6, <2>7, <2>8, Zenon DEF PlIInv
<1> QED BY <1>1, <1>7, <1>8, Zenon

(* A step that leaves the log, the buffers and the threads alone.            *)
LEMMA PlIdleInv ==
  ASSUME PlIInv, pl_kmd' \in [ask : {"none", "setup", "release"}, buf : PlBufs, own : SUBSET PlBufs],
         UNCHANGED <<pl_mem, pl_iova, pl_frame, pl_pos, pl_seq, pl_said, pl_lock, pl_pc, pl_text, pl_got>>
  PROVE  PlIInv'
<1>1. PlShape'
  BY Zenon DEF PlIInv, PlShape
<1>2. PlAlone'
  BY Zenon DEF PlIInv, PlAlone, PlAt
<1>3. PlDue' <=> PlDue
  BY Zenon DEF PlDue, PlAt
<1>4. PlCounted'
  BY <1>3, Zenon DEF PlIInv, PlCounted, PlAt
<1>5. pl_seq \in Nat
  BY Zenon DEF PlIInv, PlShape
<1>6. PlFramed' /\ (\A b \in PlBufs : PlGiven(b)') /\ PlWriting'
  BY <1>5, PlQuiet, SMTT(30)
<1> QED BY <1>1, <1>2, <1>4, <1>6, Zenon DEF PlIInv

(* The flush of a panic and the periodic one begin.                          *)
LEMMA PlBeginsInv == ASSUME PlIInv, backend_panic \/ flush_work_handler \/ flush_timer_callback PROVE PlIInv'
<1>0. /\ "log" \in PlThreads /\ "wq" \in PlThreads /\ "idle" # "lock"
      /\ pl_kmd \in [ask : {"none", "setup", "release"}, buf : PlBufs, own : SUBSET PlBufs]
  BY Zenon DEF PlThreads, PlIInv, PlShape
<1>1. CASE backend_panic
  <2>1. /\ pl_pc["log"].at = "idle" /\ pl_lock = "none" /\ pl_lock' = "log" /\ PlCall("log", "unlock")
        /\ UNCHANGED <<pl_mem, pl_kmd, pl_iova, pl_frame, pl_pos, pl_seq, pl_said, pl_text, pl_got>>
    BY <1>1, Zenon DEF backend_panic, PlAt, PlLock
  <2> QED BY <1>0, <2>1, PlEntersInv, Zenon
<1>2. CASE flush_work_handler
  <2>1. /\ pl_pc["wq"].at = "idle"
        /\ UNCHANGED <<pl_mem, pl_kmd, pl_iova, pl_frame, pl_pos, pl_seq, pl_said, pl_text, pl_got>>
        /\ \/ pl_lock = "none" /\ pl_lock' = "wq" /\ PlCall("wq", "unlock")
           \/ UNCHANGED <<pl_lock, pl_pc>>
    BY <1>2, Zenon DEF flush_work_handler, PlAt, PlLock, PlTimeout
  <2>2. CASE pl_lock = "none" /\ pl_lock' = "wq" /\ PlCall("wq", "unlock")
    BY <1>0, <2>1, <2>2, PlEntersInv, Zenon
  <2>3. CASE UNCHANGED <<pl_lock, pl_pc>>
    BY <1>0, <2>1, <2>3, PlIdleInv, Zenon
  <2> QED BY <2>1, <2>2, <2>3, Zenon
<1>3. CASE flush_timer_callback
  <2>1. UNCHANGED <<pl_mem, pl_kmd, pl_iova, pl_frame, pl_pos, pl_seq, pl_said, pl_lock, pl_pc, pl_text, pl_got>>
    BY <1>3, Zenon DEF flush_timer_callback
  <2> QED BY <1>0, <2>1, PlIdleInv, Zenon
<1> QED BY <1>1, <1>2, <1>3, Zenon

(* An answer to the driver, and its requests, keep the shape of both.        *)
LEMMA PlAnswers ==
  \A k \in [ask : {"none", "setup", "release"}, buf : PlBufs, own : SUBSET PlBufs], own \in SUBSET PlBufs :
     /\ [k EXCEPT !.ask = "none", !.own = own] \in [ask : {"none", "setup", "release"}, buf : PlBufs, own : SUBSET PlBufs]
     /\ [k EXCEPT !.ask = "release"] \in [ask : {"none", "setup", "release"}, buf : PlBufs, own : SUBSET PlBufs]
  BY Zenon

(* The work queue's thread has taken the mutex to give the log a new buffer, *)
(* or none.                                                                  *)
PlSwapped ==
  /\ pl_pc["wq"].at = "idle" /\ pl_lock = "none" /\ pl_lock' = "wq" /\ PlGo("wq", "unlock")
  /\ pl_iova' \in PlBufs \cup {"none"} /\ pl_mem' \in [PlBufs -> PlBuf]
  /\ pl_kmd' \in [ask : {"none", "setup", "release"}, buf : PlBufs, own : SUBSET PlBufs]
  /\ \A b \in PlBufs : pl_mem'[b] = pl_mem[b] \/ pl_mem'[b].owner = "fw"
  /\ \A b \in PlBufs : b = pl_iova' => pl_mem'[b].owner = "fw"
  /\ UNCHANGED <<pl_frame, pl_pos, pl_seq, pl_said, pl_text, pl_got>>

(* No flush is in progress then, and what the log holds stays.               *)
LEMMA PlSwapInv == ASSUME PlIInv, PlSwapped PROVE PlIInv'
<1>0. "wq" \in PlThreads /\ "unlock" \in PlPcs /\ pl_pc \in PlPcType
  BY Zenon DEF PlThreads, PlPcs, PlIInv, PlShape
<1>1. /\ pl_pc' \in PlPcType /\ pl_pc'["wq"].at = "unlock"
      /\ \A u \in PlThreads : u # "wq" => pl_pc'[u] = pl_pc[u]
  BY <1>0, PlGoes, Zenon DEF PlSwapped
<1>2. PlShape'
  BY <1>1, Zenon DEF PlIInv, PlShape, PlSwapped
<1>3. PlAlone'
  <2>1. pl_lock = "none" /\ pl_lock' = "wq"
    BY Zenon DEF PlSwapped
  <2> QED BY <1>0, <1>1, <2>1, PlMoves, Zenon
<1>4. PlCounted'
  <2>1. UNCHANGED <<pl_said, pl_seq>>
    BY Zenon DEF PlSwapped
  <2> QED BY <1>0, <1>1, <2>1, PlCountKept, Zenon
<1>5. PlFramed'
  BY Zenon DEF PlIInv, PlFramed, PlSwapped
<1>6. ASSUME NEW b \in PlBufs PROVE PlGiven(b)'
  <2>1. CASE pl_mem'[b].owner = "fw"
    BY <2>1, Zenon DEF PlGiven
  <2>2. CASE pl_mem'[b].owner # "fw"
    <3>1. pl_mem'[b] = pl_mem[b] /\ b # pl_iova' /\ PlGiven(b)
      BY <2>2, Zenon DEF PlIInv, PlSwapped
    <3> QED BY <3>1, Zenon DEF PlGiven
  <2> QED BY <2>1, <2>2, Zenon
<1>7. PlWriting'
  <2>1. \A u \in PlThreads : pl_pc[u].at \in {"idle", "lock"}
    BY Zenon DEF PlIInv, PlAlone, PlAt, PlThreads, PlSwapped
  <2>2. \A u \in PlThreads : pl_pc'[u].at \notin {"data", "offset", "owner"}
    BY <1>1, <2>1, Zenon
  <2> QED BY <2>2, Zenon DEF PlWriting, PlAt
<1> QED BY <1>2, <1>3, <1>4, <1>5, <1>6, <1>7, Zenon DEF PlIInv

(* A buffer's fields at its setup, and after its magic number is gone.       *)
LEMMA PlBlank ==
  /\ PlEmpty \in PlBuf /\ PlEmpty.owner = "fw" /\ PlEmpty.data = <<>> /\ PlEmpty.cut = FALSE /\ PlEmpty.done = TRUE
  /\ [PlEmpty EXCEPT !.magic = TRUE] \in PlBuf /\ [PlEmpty EXCEPT !.magic = TRUE].owner = "fw"
<1>1. <<>> \in Seq(PlItem)
  BY SMTT(30)
<1>2. PlEmpty \in PlBuf /\ PlEmpty.owner = "fw" /\ PlEmpty.data = <<>> /\ PlEmpty.cut = FALSE /\ PlEmpty.done = TRUE
  BY <1>1, Zenon DEF PlEmpty, PlBuf
<1>3. \A r \in PlBuf : [r EXCEPT !.magic = TRUE] \in PlBuf /\ [r EXCEPT !.magic = TRUE].owner = r.owner
  BY Zenon DEF PlBuf
<1> QED BY <1>2, <1>3, Zenon

(* tt_pcie_log_handler gives the log a buffer, takes it, or fails.           *)
LEMMA PlHandlerInv == ASSUME PlIInv, tt_pcie_log_handler PROVE PlIInv'
<1> DEFINE K == [ask : {"none", "setup", "release"}, buf : PlBufs, own : SUBSET PlBufs]
<1>0. pl_kmd \in K /\ pl_kmd.buf \in PlBufs /\ pl_kmd.own \in SUBSET PlBufs
  BY Zenon DEF PlIInv, PlShape
<1>1. \A own \in SUBSET PlBufs : PlAnswer(own) => pl_kmd' \in K
  BY <1>0, PlAnswers, Zenon DEF PlAnswer
<1> HIDE DEF K
<1>2. CASE setup_tt_pcie_log_backend
  <2> DEFINE e == [PlEmpty EXCEPT !.magic = TRUE]
  <2>1. /\ pl_pc["wq"].at = "idle" /\ UNCHANGED <<pl_frame, pl_pos, pl_seq, pl_said, pl_text, pl_got>>
        /\ \/ /\ pl_lock = "none" /\ pl_lock' = "wq" /\ PlGo("wq", "unlock") /\ pl_iova' = pl_kmd.buf
              /\ pl_mem' = [pl_mem EXCEPT ![pl_kmd.buf] = e] /\ PlAnswer({pl_kmd.buf})
           \/ /\ UNCHANGED <<pl_lock, pl_pc, pl_iova, pl_mem>>
              /\ PlAnswer(pl_kmd.own \ ({pl_kmd.buf} \ {pl_iova}))
    BY <1>2, Zenon DEF setup_tt_pcie_log_backend, PlAt, PlLock, PlTimeout
  <2>2. e \in PlBuf /\ e.owner = "fw"
    BY PlBlank, Zenon
  <2> HIDE DEF e
  <2>3. {pl_kmd.buf} \in SUBSET PlBufs /\ pl_kmd.own \ ({pl_kmd.buf} \ {pl_iova}) \in SUBSET PlBufs
    BY <1>0, Zenon
  <2>4. pl_kmd' \in K
    BY <1>1, <2>1, <2>3, Zenon
  <2>5. CASE UNCHANGED <<pl_lock, pl_pc, pl_iova, pl_mem>>
    BY <2>1, <2>4, <2>5, PlIdleInv, Zenon DEF K
  <2>6. CASE /\ pl_lock = "none" /\ pl_lock' = "wq" /\ PlGo("wq", "unlock") /\ pl_iova' = pl_kmd.buf
             /\ pl_mem' = [pl_mem EXCEPT ![pl_kmd.buf] = e]
    <3>1. /\ pl_mem' \in [PlBufs -> PlBuf]
          /\ \A b \in PlBufs : pl_mem'[b] = IF b = pl_kmd.buf THEN e ELSE pl_mem[b]
      BY <1>0, <2>2, <2>6, Zenon DEF PlIInv, PlShape
    <3>2. /\ \A b \in PlBufs : pl_mem'[b] = pl_mem[b] \/ pl_mem'[b].owner = "fw"
          /\ \A b \in PlBufs : b = pl_iova' => pl_mem'[b].owner = "fw"
          /\ pl_iova' \in PlBufs \cup {"none"}
      BY <1>0, <2>2, <2>6, <3>1, Zenon
    <3> QED BY <2>1, <2>4, <2>6, <3>1, <3>2, PlSwapInv, Zenon DEF K, PlSwapped
  <2> QED BY <2>1, <2>5, <2>6, Zenon
<1>3. CASE release_tt_pcie_log_backend
  <2>1. /\ pl_pc["wq"].at = "idle" /\ UNCHANGED <<pl_mem, pl_frame, pl_pos, pl_seq, pl_said, pl_text, pl_got>>
        /\ \/ pl_lock = "none" /\ pl_lock' = "wq" /\ PlGo("wq", "unlock") /\ pl_iova' = "none"
           \/ UNCHANGED <<pl_lock, pl_pc, pl_iova>>
        /\ PlAnswer({}) \/ PlAnswer(pl_kmd.own)
    BY <1>3, Zenon DEF release_tt_pcie_log_backend, PlAt, PlLock, PlTimeout
  <2>2. {} \in SUBSET PlBufs
    BY Zenon
  <2>4. pl_kmd' \in K
    BY <1>0, <1>1, <2>1, <2>2, Zenon
  <2>5. CASE UNCHANGED <<pl_lock, pl_pc, pl_iova>>
    BY <2>1, <2>4, <2>5, PlIdleInv, Zenon DEF K
  <2>6. CASE pl_lock = "none" /\ pl_lock' = "wq" /\ PlGo("wq", "unlock") /\ pl_iova' = "none"
    <3>1. /\ pl_mem' \in [PlBufs -> PlBuf] /\ pl_iova' \in PlBufs \cup {"none"}
          /\ \A b \in PlBufs : pl_mem'[b] = pl_mem[b] /\ b # pl_iova'
      BY <2>1, <2>6, PlAssumption, Zenon DEF PlIInv, PlShape
    <3> QED BY <2>1, <2>4, <2>6, <3>1, PlSwapInv, Zenon DEF K, PlSwapped
  <2> QED BY <2>1, <2>5, <2>6, Zenon
<1> QED BY <1>2, <1>3, Zenon DEF tt_pcie_log_handler

(* The driver's requests.                                                    *)
LEMMA PlAskInv == ASSUME PlIInv, PlHostAsk PROVE PlIInv'
<1> DEFINE K == [ask : {"none", "setup", "release"}, buf : PlBufs, own : SUBSET PlBufs]
<1>0. pl_kmd \in K /\ pl_kmd.own \in SUBSET PlBufs
  BY Zenon DEF PlIInv, PlShape
<1>1. \A b \in PlBufs : [ask |-> "setup", buf |-> b, own |-> pl_kmd.own \cup {b}] \in K
  BY <1>0, Zenon
<1>2. [pl_kmd EXCEPT !.ask = "release"] \in K
  <2>1. {} \in SUBSET PlBufs
    BY Zenon
  <2> QED BY <1>0, <2>1, PlAnswers, Zenon
<1>3. pl_kmd' \in K
  BY <1>1, <1>2, Zenon DEF PlHostAsk
<1>4. UNCHANGED <<pl_mem, pl_iova, pl_frame, pl_pos, pl_seq, pl_said, pl_lock, pl_pc, pl_text, pl_got>>
  BY Zenon DEF PlHostAsk
<1> QED BY <1>3, <1>4, PlIdleInv, Zenon

(* The host takes back a buffer of its own and zeroes the magic number.      *)
LEMMA PlScribbleInv == ASSUME PlIInv, NEW b \in PlBufs, PlHostScribble(b) PROVE PlIInv'
<1>1. /\ pl_mem' = [pl_mem EXCEPT ![b] = PlEmpty]
      /\ UNCHANGED <<pl_kmd, pl_iova, pl_frame, pl_pos, pl_seq, pl_said, pl_lock, pl_pc, pl_text, pl_got>>
  BY Zenon DEF PlHostScribble
<1>2. /\ pl_mem' \in [PlBufs -> PlBuf] /\ pl_mem'[b] = PlEmpty
      /\ \A c \in PlBufs : c # b => pl_mem'[c] = pl_mem[c]
  BY <1>1, PlBlank, Zenon DEF PlIInv, PlShape
<1>3. PlShape'
  BY <1>1, <1>2, Zenon DEF PlIInv, PlShape
<1>4. PlAlone'
  BY <1>1, Zenon DEF PlIInv, PlAlone, PlAt
<1>5. PlCounted'
  <2>1. PlDue' <=> PlDue
    BY <1>1, Zenon DEF PlDue, PlAt
  <2> QED BY <1>1, <2>1, Zenon DEF PlIInv, PlCounted, PlAt
<1>6. PlFramed'
  BY <1>1, Zenon DEF PlIInv, PlFramed
<1>7. ASSUME NEW c \in PlBufs PROVE PlGiven(c)'
  <2>1. CASE c = b
    BY <1>2, <2>1, PlBlank, Zenon DEF PlGiven
  <2>2. CASE c # b
    <3>1. pl_mem'[c] = pl_mem[c] /\ PlGiven(c)
      BY <1>2, <2>2, Zenon DEF PlIInv
    <3> QED BY <1>1, <3>1, Zenon DEF PlGiven
  <2> QED BY <2>1, <2>2, Zenon
<1>8. PlWriting'
  <2> SUFFICES ASSUME NEW u \in PlThreads, pl_pc[u].at \in {"data", "offset", "owner"}
               PROVE  /\ pl_iova \in PlBufs /\ pl_mem'[pl_iova].owner = "fw"
                      /\ pl_pc[u].at \in {"offset", "owner"} =>
                           /\ PlNew(pl_mem'[pl_iova].data, pl_got, pl_seq)
                           /\ pl_mem'[pl_iova].cut => PlRoom[pl_iova] < PlFrame
                      /\ pl_pc[u].at = "owner" => pl_mem'[pl_iova].done
    BY <1>1, ZenonT(40) DEF PlWriting, PlAt
  <2>1. /\ pl_iova \in PlBufs /\ pl_mem[pl_iova].owner = "fw"
        /\ pl_pc[u].at \in {"offset", "owner"} =>
              PlNew(pl_mem[pl_iova].data, pl_got, pl_seq) /\ (pl_mem[pl_iova].cut => PlRoom[pl_iova] < PlFrame)
        /\ pl_pc[u].at = "owner" => pl_mem[pl_iova].done
    BY Zenon DEF PlIInv, PlWriting, PlAt
  <2>2. CASE pl_iova = b
    <3>1. PlNew(<<>>, pl_got, pl_seq)
      BY SMTT(30) DEF PlNew
    <3> QED BY <1>2, <2>1, <2>2, <3>1, PlBlank, Zenon
  <2>3. CASE pl_iova # b
    BY <1>2, <2>1, <2>3, Zenon
  <2> QED BY <2>2, <2>3, Zenon
<1> QED BY <1>3, <1>4, <1>5, <1>6, <1>7, <1>8, Zenon DEF PlIInv

(* The host reads a batch it was given, and gives the buffer back.           *)
LEMMA PlReadInv == ASSUME PlIInv, NEW b \in PlBufs, PlHostRead(b) PROVE PlIInv'
<1>1. /\ b = pl_iova /\ pl_mem[b].owner = "host"
      /\ pl_mem' = [pl_mem EXCEPT ![b] = [pl_mem[b] EXCEPT !.owner = "fw"]]
      /\ pl_got' = IF pl_mem[b].data = <<>> THEN pl_got ELSE pl_mem[b].data[Len(pl_mem[b].data)].seq + 1
      /\ UNCHANGED <<pl_kmd, pl_iova, pl_frame, pl_pos, pl_seq, pl_said, pl_lock, pl_pc, pl_text>>
  BY Zenon DEF PlHostRead
<1>2. /\ pl_mem' \in [PlBufs -> PlBuf] /\ pl_mem'[b].owner = "fw"
      /\ \A c \in PlBufs : c # b => pl_mem'[c] = pl_mem[c]
  <2>1. \A r \in PlBuf : [r EXCEPT !.owner = "fw"] \in PlBuf /\ [r EXCEPT !.owner = "fw"].owner = "fw"
    BY Zenon DEF PlBuf
  <2>2. pl_mem \in [PlBufs -> PlBuf] /\ pl_mem[b] \in PlBuf
    BY Zenon DEF PlIInv, PlShape
  <2> DEFINE x == [pl_mem[b] EXCEPT !.owner = "fw"]
  <2>3. x \in PlBuf /\ x.owner = "fw" /\ pl_mem' = [pl_mem EXCEPT ![b] = x]
    BY <1>1, <2>1, <2>2, Zenon
  <2> HIDE DEF x
  <2> QED BY <2>2, <2>3, Zenon
<1>3. /\ pl_mem[b].data \in Seq(PlItem) /\ pl_got \in Nat /\ pl_seq \in Nat /\ pl_frame \in Seq(PlItem)
      /\ PlGiven(b) /\ PlFramed
  BY Zenon DEF PlIInv, PlShape, PlBuf
<1>4. /\ pl_got' \in Nat /\ pl_got' <= pl_seq
      /\ \A j \in 1 .. Len(pl_frame) : pl_got' <= pl_frame[j].seq
  <2>1. CASE pl_mem[b].data = <<>>
    BY <1>1, <1>3, <2>1, Zenon DEF PlFramed, PlNew
  <2>2. CASE pl_mem[b].data # <<>>
    <3>1. Len(pl_mem[b].data) \in 1 .. Len(pl_mem[b].data) /\ pl_mem[b].data[Len(pl_mem[b].data)] \in PlItem
      BY <1>3, <2>2, SMTT(30)
    <3> DEFINE n == pl_mem[b].data[Len(pl_mem[b].data)].seq
    <3>4. \A i \in 1 .. Len(pl_mem[b].data) : pl_mem[b].data[i].seq < pl_seq
      BY <1>1, <1>3, Zenon DEF PlGiven, PlNew
    <3>5. \A i \in 1 .. Len(pl_mem[b].data), j \in 1 .. Len(pl_frame) : pl_mem[b].data[i].seq < pl_frame[j].seq
      BY <1>1, <1>3, Zenon DEF PlGiven
    <3>6. \A x \in PlItem : x.seq \in Nat
      BY Zenon DEF PlItem
    <3>7. pl_got' = n + 1
      BY <1>1, <2>2, Zenon
    <3>2. n \in Nat /\ n < pl_seq /\ (\A j \in 1 .. Len(pl_frame) : n < pl_frame[j].seq) /\ pl_got' = n + 1
      BY <3>1, <3>4, <3>5, <3>6, <3>7, Zenon
    <3> HIDE DEF n
    <3>3. \A j \in 1 .. Len(pl_frame) : pl_frame[j].seq \in Nat
      <4>1. \A s \in Seq(PlItem) : \A j \in 1 .. Len(s) : s[j] \in PlItem
        BY SMTT(30)
      <4> QED BY <1>3, <3>6, <4>1, Zenon
    <3> QED BY <1>3, <3>2, <3>3, SMTT(30)
  <2> QED BY <2>1, <2>2, Zenon
<1>5. PlShape'
  BY <1>1, <1>2, <1>4, Zenon DEF PlIInv, PlShape
<1>6. PlAlone'
  BY <1>1, Zenon DEF PlIInv, PlAlone, PlAt
<1>7. PlCounted'
  <2>1. PlDue' <=> PlDue
    BY <1>1, Zenon DEF PlDue, PlAt
  <2> QED BY <1>1, <2>1, Zenon DEF PlIInv, PlCounted, PlAt
<1>8. PlFramed'
  BY <1>1, <1>3, <1>4, Zenon DEF PlFramed, PlNew
<1>9. ASSUME NEW c \in PlBufs PROVE PlGiven(c)'
  <2>1. CASE c = b
    BY <1>2, <2>1, Zenon DEF PlGiven
  <2>2. CASE c # b
    <3>1. pl_mem'[c] = pl_mem[c] /\ PlGiven(c) /\ c # pl_iova'
      BY <1>1, <1>2, <2>2, Zenon DEF PlIInv
    <3> QED BY <3>1, Zenon DEF PlGiven
  <2> QED BY <2>1, <2>2, Zenon
<1>10. PlWriting'
  <2>1. \A u \in PlThreads : pl_pc[u].at \notin {"data", "offset", "owner"}
    BY <1>1, Zenon DEF PlIInv, PlWriting, PlAt
  <2> QED BY <1>1, <2>1, Zenon DEF PlWriting, PlAt
<1> QED BY <1>5, <1>6, <1>7, <1>8, <1>9, <1>10, Zenon DEF PlIInv

(* Every step of the log, its flushes, its requests and the host.            *)
LEMMA PlStepInv == ASSUME PlIInv, [PlNext]_pl_vars PROVE PlIInv'
<1>1. CASE \E t \in {"log", "wq"} : flush_buffer_to_host(t) \/ PlUnlock(t)
  <2>1. PICK t \in PlThreads : flush_buffer_to_host(t) \/ PlUnlock(t)
    BY <1>1, Zenon DEF PlThreads
  <2>2. PlFlushCheck(t) \/ PlWriteData(t) \/ PlWriteOffset(t) \/ PlWriteOwner(t) \/ PlUnlock(t)
    BY <2>1, Zenon DEF flush_buffer_to_host
  <2> QED BY <2>2, PlCheckInv, PlDataInv, PlOffsetInv, PlOwnerInv, PlUnlockInv, Zenon
<1>2. CASE backend_process
  BY <1>2, PlMessageInv, PlTakeInv, PlAppendInv, Zenon DEF backend_process
<1>3. CASE backend_panic \/ flush_timer_callback \/ flush_work_handler
  BY <1>3, PlBeginsInv, Zenon
<1>4. CASE tt_pcie_log_handler
  BY <1>4, PlHandlerInv, Zenon
<1>5. CASE PlHostAsk
  BY <1>5, PlAskInv, Zenon
<1>6. CASE \E b \in PlBufs : PlHostRead(b) \/ PlHostScribble(b)
  BY <1>6, PlReadInv, PlScribbleInv, Zenon
<1>7. CASE UNCHANGED pl_vars
  <2>1. UNCHANGED <<pl_mem, pl_kmd, pl_iova, pl_frame, pl_pos, pl_seq, pl_said, pl_lock, pl_pc, pl_text, pl_got>>
    BY <1>7, Zenon DEF pl_vars
  <2>2. pl_kmd \in [ask : {"none", "setup", "release"}, buf : PlBufs, own : SUBSET PlBufs]
    BY Zenon DEF PlIInv, PlShape
  <2> QED BY <2>1, <2>2, PlIdleInv, Zenon
<1> QED BY <1>1, <1>2, <1>3, <1>4, <1>5, <1>6, <1>7, Zenon DEF PlNext

(* The entries of a batch, by their places.                                  *)
LEMMA PlEntries == \A s \in Seq(PlItem) : DOMAIN s = 1 .. Len(s) /\ \A i \in DOMAIN s : s[i].seq \in Nat
<1>1. \A s \in Seq(PlItem) : DOMAIN s = 1 .. Len(s)
  BY SMTT(30)
<1>2. \A s \in Seq(PlItem) : \A i \in 1 .. Len(s) : s[i] \in PlItem
  BY SMTT(30)
<1>3. \A x \in PlItem : x.seq \in Nat
  BY Zenon DEF PlItem
<1> QED BY <1>1, <1>2, <1>3, Zenon

(* What flush_buffer_to_host hands to the host is a complete batch of        *)
(* entries it has not read, numbered by the messages before them, whatever   *)
(* drops, timeouts, panics and changes of buffer came between, for any       *)
(* buffers, sizes and messages (PlHandedOver).                               *)
THEOREM BatchesWhole == PlSpec => []PlHandedOver
<1>1. PlIInv => PlHandedOver
  <2> SUFFICES ASSUME PlIInv, NEW b \in PlBufs, pl_mem[b].owner = "host"
               PROVE  /\ pl_mem[b].done
                      /\ pl_mem[b].cut => PlRoom[b] < PlFrame
                      /\ b = pl_iova => \A i \in DOMAIN pl_mem[b].data : pl_mem[b].data[i].seq >= pl_got
                      /\ \A i \in DOMAIN pl_mem[b].data : pl_mem[b].data[i].seq + 1 = pl_mem[b].data[i].msg
    BY Zenon DEF PlHandedOver
  <2>0. pl_mem[b].data \in Seq(PlItem) /\ PlGiven(b) /\ pl_got \in Nat
    BY Zenon DEF PlIInv, PlShape, PlBuf
  <2>1. /\ DOMAIN pl_mem[b].data = 1 .. Len(pl_mem[b].data) /\ PlGiven(b) /\ pl_got \in Nat
        /\ \A i \in DOMAIN pl_mem[b].data : pl_mem[b].data[i].seq \in Nat
    BY <2>0, PlEntries, Zenon
  <2> QED BY <2>1, Zenon DEF PlGiven, PlNew
<1> QED BY <1>1, PlInitInv, PlStepInv, PTL DEF PlSpec

-----------------------------------------------------------------------------
PsEntry == [id : PsIds, fate : {"refused", "accepted", "canceled", "stopped", "over"}]

(* The context's command is the last one accepted, while it is queued the    *)
(* shell has not had it, and while it runs it is the worker's; the output    *)
(* kept is that of the command answered for, once it has run.                *)
PsHeld ==
  /\ ps_next \in Nat \ {0} /\ ps_taken \in Seq(PsEntry) /\ Len(ps_taken) = ps_next - 1
  /\ ps_ran \subseteq 1 .. Len(ps_taken)
  /\ ps_run.pc # "idle" <=> ps_state = "RUNNING"
  /\ ps_state \in {"QUEUED", "RUNNING"} =>
       /\ ps_cmd \in 1 .. Len(ps_taken) /\ ps_taken[ps_cmd].id = ps_id
       /\ ps_taken[ps_cmd].fate = "accepted"
  /\ ps_state = "QUEUED" => ps_cmd \notin ps_ran
  /\ ps_state = "RUNNING" => ps_run.cmd = ps_cmd
  /\ ps_run.pc \in {"good", "bad"} => ps_run.cmd \in ps_ran
  /\ ps_out \in [of : Nat, len : Nat]
  /\ ps_run \in [cmd : Nat, len : Nat, pc : {"idle", "execute", "good", "bad"}]
  /\ ps_state \in {"DONE", "FAILED"} /\ ps_out.len > 0 =>
       ps_out.of \in ps_ran /\ ps_taken[ps_out.of].id = ps_id
PsIInv == PsHeld /\ PsOwnOutput

(* The shell starts with no request and no output.                           *)
LEMMA PsInitInv == PsInit => PsIInv
  BY SMTT(30) DEF PsInit, PsIInv, PsHeld, PsOwnOutput, PsNone, PsAwake, PsNoOut

(* A ShellExec, refused or taken.                                            *)
LEMMA PsExecInv ==
  ASSUME PsIInv, NEW id \in PsIds, tt_pldm_shell_handle_exec(id) PROVE PsIInv'
<1> USE DEF PsIInv, PsHeld
<1>1. PICK f \in {"refused", "accepted"} : 
        /\ ps_taken' = Append(ps_taken, [id |-> id, fate |-> f])
        /\ PsBusy => f = "refused" /\ UNCHANGED <<ps_state, ps_id, ps_cmd, ps_out>>
        /\ ~PsBusy => /\ ps_id' = id /\ ps_cmd' = ps_next
                      /\ \/ ps_state' = "IDLE" /\ f = "refused"
                         \/ ps_state' = "QUEUED" /\ f = "accepted"
  BY Zenon DEF tt_pldm_shell_handle_exec
<1>2. /\ ps_next' = ps_next + 1 /\ ps_answer'.op = "exec" /\ UNCHANGED <<ps_run, ps_ran>>
  BY SMTT(30) DEF tt_pldm_shell_handle_exec
<1>3. /\ ps_taken' \in Seq(PsEntry) /\ Len(ps_taken') = Len(ps_taken) + 1
      /\ \A c \in 1 .. Len(ps_taken) : ps_taken'[c] = ps_taken[c]
      /\ ps_taken'[Len(ps_taken) + 1] = [id |-> id, fate |-> f]
  BY <1>1, SMTT(30) DEF PsEntry
<1>4. PsHeld'
  <2>1. CASE PsBusy
    BY <1>1, <1>2, <1>3, <2>1, SMTT(30) DEF PsBusy
  <2>2. CASE ~PsBusy
    <3>1. ps_out' = [ps_out EXCEPT !.len = 0]
      BY <2>2, Zenon DEF tt_pldm_shell_handle_exec
    <3>2. ps_out' \in [of : Nat, len : Nat] /\ ps_out'.len = 0
      BY <3>1, Zenon
    <3> QED BY <1>1, <1>2, <1>3, <2>2, <3>2, SMTT(30) DEF PsBusy
  <2> QED BY <2>1, <2>2, Zenon
<1>5. PsOwnOutput'
  BY <1>2, <1>3, Zenon DEF PsOwnOutput
<1> QED BY <1>4, <1>5, Zenon

(* Replacing the fate of one command.                                        *)
LEMMA PsFate ==
  ASSUME ps_taken \in Seq(PsEntry), NEW c \in 1 .. Len(ps_taken),
         NEW f \in {"canceled", "stopped", "over"},
         ps_taken' = [ps_taken EXCEPT ![c].fate = f]
  PROVE  /\ ps_taken' \in Seq(PsEntry) /\ Len(ps_taken') = Len(ps_taken)
         /\ \A i \in 1 .. Len(ps_taken) : /\ ps_taken'[i].id = ps_taken[i].id
                                          /\ i # c => ps_taken'[i] = ps_taken[i]
         /\ ps_taken'[c].fate = f
<1> DEFINE e == ps_taken[c]
           new == [e EXCEPT !.fate = f]
<1>1. e \in PsEntry
  BY SMTT(30)
<1> HIDE DEF e
<1>2. new \in PsEntry /\ new.id = e.id /\ new.fate = f
  BY <1>1, Zenon DEF PsEntry
<1>3. ps_taken' = [ps_taken EXCEPT ![c] = new]
  BY Zenon DEF e
<1> HIDE DEF new
<1>4. /\ ps_taken' \in Seq(PsEntry) /\ Len(ps_taken') = Len(ps_taken)
      /\ \A i \in 1 .. Len(ps_taken) : ps_taken'[i] = IF i = c THEN new ELSE ps_taken[i]
  BY <1>2, <1>3, SMTT(30)
<1> QED BY <1>2, <1>4, Zenon DEF e

(* tt_pldm_shell_handle_cancel marks the request; its output stays its own.  *)
LEMMA PsCancelInv ==
  ASSUME PsIInv, NEW id \in PsIds, tt_pldm_shell_handle_cancel(id) PROVE PsIInv'
<1> USE DEF PsIInv, PsHeld
<1>1. ps_answer'.op = "cancel" /\ UNCHANGED <<ps_id, ps_cmd, ps_run, ps_next, ps_ran>>
  BY DEF tt_pldm_shell_handle_cancel
<1>2. CASE UNCHANGED <<ps_state, ps_out, ps_taken>>
  BY <1>1, <1>2, ZenonT(40) DEF PsOwnOutput
<1>3. CASE /\ ps_state = "QUEUED" /\ ps_state' = "CANCELED"
           /\ ps_out' = [of |-> ps_out.of, len |-> PsMin(0, PsOut)]
           /\ ps_taken' = [ps_taken EXCEPT ![ps_cmd].fate = "canceled"]
  <2>1. /\ ps_taken' \in Seq(PsEntry) /\ Len(ps_taken') = Len(ps_taken)
        /\ \A i \in 1 .. Len(ps_taken) : /\ ps_taken'[i].id = ps_taken[i].id
                                         /\ i # ps_cmd => ps_taken'[i] = ps_taken[i]
    BY <1>3, PsFate, Zenon
  <2>2. PsHeld'
    BY <1>1, <1>3, <2>1, PsAssumption DEF PsMin
  <2>3. PsOwnOutput'
    BY <1>1, <1>3, <2>1, SMTT(30) DEF PsOwnOutput
  <2> QED BY <2>2, <2>3, Zenon
<1> QED BY <1>2, <1>3 DEF tt_pldm_shell_handle_cancel, tt_pldm_shell_store_result

(* tt_pldm_shell_handle_get_result reads from the output of the request it   *)
(* names, and changes none.                                                  *)
LEMMA PsResultInv ==
  ASSUME PsIInv, NEW id \in PsIds, NEW offset \in 0 .. PsOut, NEW want \in PsReads,
         tt_pldm_shell_handle_get_result(id, offset, want)
  PROVE  PsIInv'
<1> USE DEF PsIInv, PsHeld
<1>1. UNCHANGED <<ps_state, ps_id, ps_cmd, ps_out, ps_run, ps_next, ps_taken, ps_ran>>
  BY Zenon DEF tt_pldm_shell_handle_get_result
<1>2. PsHeld'
  BY <1>1
<1>3. PsOwnOutput'
  <2>1. CASE ps_answer'.cc = "INVALID_DATA"
    BY <1>1, <2>1, Zenon DEF PsOwnOutput
  <2>2. CASE PsKnown(id) /\ offset <= ps_out.len /\ ps_answer' = PsResult(id, offset, want)
    <3> DEFINE allowed == IF want = 0 THEN PsChunk ELSE PsMin(PsChunk, want)
               over == ps_state \in {"DONE", "FAILED"}
               n == IF over THEN PsMin(ps_out.len - offset, allowed) ELSE 0
               result == [op |-> "result", cc |-> "SUCCESS", id |-> id, state |-> ps_state,
                          offset |-> offset, of |-> ps_out.of, n |-> n, total |-> ps_out.len,
                          more |-> (over /\ offset + n < ps_out.len) \/ PsBusy]
    <3>1. allowed \in Nat /\ allowed <= PsChunk
      BY PsAssumption, SMTT(30) DEF PsMin
    <3>2. ps_answer' = result
      BY <2>2, Zenon DEF PsResult
    <3> HIDE DEF allowed
    <3>3. n \in Nat /\ (n > 0 => over) /\ n <= PsChunk /\ offset + n <= ps_out.len
      BY <2>2, <3>1, PsAssumption, SMTT(30) DEF PsMin
    <3> HIDE DEF n
    <3>4. /\ result.n = n /\ result.offset = offset /\ result.total = ps_out.len
          /\ result.of = ps_out.of /\ result.id = id
          /\ result.more = ((over /\ offset + n < ps_out.len) \/ PsBusy)
      BY Zenon
    <3> HIDE DEF result
    <3>5. over => ~PsBusy
      BY Zenon DEF PsBusy
    <3>6. n > 0 => /\ ps_out.of \in ps_ran /\ ps_taken[ps_out.of].id = id
      BY <2>2, <3>3, SMTT(30) DEF PsKnown
    <3> HIDE DEF over
    <3>7. n > 0 => (result.more <=> offset + n < ps_out.len)
      BY <3>3, <3>4, <3>5, Zenon
    <3> QED BY <1>1, <3>2, <3>3, <3>4, <3>6, <3>7, Zenon DEF PsOwnOutput
  <2> QED BY <2>1, <2>2, PsAssumption, SMTT(30) DEF tt_pldm_shell_handle_get_result
<1> QED BY <1>2, <1>3, ZenonT(40)

(* The work item writes the output of the request it was submitted for.      *)
LEMMA PsWorkInv ==
  ASSUME PsIInv, tt_pldm_shell_execute_work PROVE PsIInv'
<1> USE DEF PsIInv, PsHeld
<1>1. CASE PsAccept
  <2>1. UNCHANGED <<ps_id, ps_cmd, ps_next, ps_taken, ps_ran, ps_answer>> /\ ps_run.pc = "idle"
    BY <1>1, Zenon DEF PsAccept
  <2>2. \/ UNCHANGED <<ps_state, ps_out, ps_run>>
        \/ /\ ps_state' = "CANCELED" /\ ps_out' = [of |-> ps_out.of, len |-> PsMin(0, PsOut)]
           /\ UNCHANGED ps_run /\ ps_state = "QUEUED"
        \/ /\ ps_state = "QUEUED" /\ ps_state' = "RUNNING" /\ UNCHANGED ps_out
           /\ ps_run' = [cmd |-> ps_cmd, len |-> 0, pc |-> "execute"]
    BY <1>1 DEF PsAccept, tt_pldm_shell_store_result
  <2> QED BY <2>1, <2>2, PsAssumption, SMTT(30) DEF PsOwnOutput, PsMin
<1>2. CASE PsStore
  <2>1. /\ UNCHANGED <<ps_id, ps_cmd, ps_next, ps_ran, ps_answer>> /\ ps_run.pc \in {"good", "bad"}
        /\ ps_run' = PsAwake
        /\ \E f \in {"stopped", "over"} : ps_taken' = [ps_taken EXCEPT ![ps_run.cmd].fate = f]
        /\ ps_state' \in {"CANCELED", "DONE", "FAILED"}
    BY <1>2, Zenon DEF PsStore, tt_pldm_shell_store_result
  <2>6. \E len \in {0, ps_run.len} :
          ps_out' = [of |-> IF len > 0 THEN ps_run.cmd ELSE ps_out.of, len |-> PsMin(len, PsOut)]
    <3>1. CASE ps_cancel
      <4>1. ps_out' = [of |-> IF 0 > 0 THEN 0 ELSE ps_out.of, len |-> PsMin(0, PsOut)]
        BY <1>2, <3>1, Zenon DEF PsStore, tt_pldm_shell_store_result
      <4> QED BY <4>1, SMTT(30)
    <3>2. CASE ~ps_cancel
      BY <1>2, <3>2, Zenon DEF PsStore, tt_pldm_shell_store_result
    <3> QED BY <3>1, <3>2, Zenon
  <2>7. ps_out' \in [of : Nat, len : Nat] /\ (ps_out'.len > 0 => ps_out'.of = ps_run.cmd)
    BY <2>6, PsAssumption DEF PsMin
  <2>2. ps_state = "RUNNING" /\ ps_run.cmd = ps_cmd /\ ps_cmd \in 1 .. Len(ps_taken)
    BY <2>1
  <2>3. /\ ps_taken' \in Seq(PsEntry) /\ Len(ps_taken') = Len(ps_taken)
        /\ \A i \in 1 .. Len(ps_taken) : /\ ps_taken'[i].id = ps_taken[i].id
                                         /\ i # ps_cmd => ps_taken'[i] = ps_taken[i]
        /\ ps_taken'[ps_cmd].fate \in {"stopped", "over"}
    BY <2>1, <2>2, PsFate, ZenonT(40)
  <2>4. PsHeld'
    BY <2>1, <2>2, <2>3, <2>7 DEF PsAwake
  <2>5. PsOwnOutput'
    BY <2>1, <2>2, <2>3 DEF PsOwnOutput
  <2> QED BY <2>4, <2>5, Zenon
<1>3. ASSUME NEW len \in PsLens, NEW good \in BOOLEAN, PsExecute(len, good) PROVE PsIInv'
  <2>1. /\ UNCHANGED <<ps_state, ps_id, ps_cmd, ps_out, ps_next, ps_taken, ps_answer>>
        /\ ps_run.pc = "execute" /\ ps_ran' = ps_ran \cup {ps_run.cmd}
        /\ \E pc \in {"good", "bad"} : ps_run' = [ps_run EXCEPT !.len = len, !.pc = pc]
    BY <1>3, Zenon DEF PsExecute
  <2>2. /\ ps_run' \in [cmd : Nat, len : Nat, pc : {"idle", "execute", "good", "bad"}]
        /\ ps_run'.pc \in {"good", "bad"} /\ ps_run'.cmd = ps_run.cmd
    BY <2>1, PsAssumption, Zenon
  <2>3. ps_state = "RUNNING" /\ ps_run.cmd = ps_cmd /\ ps_cmd \in 1 .. Len(ps_taken)
        /\ ps_taken[ps_cmd].fate = "accepted"
    BY <2>1
  <2>4. PsHeld'
    BY <2>1, <2>2, <2>3
  <2>5. PsOwnOutput'
    BY <2>1, <2>3 DEF PsOwnOutput
  <2> QED BY <2>4, <2>5, Zenon
<1> QED BY <1>1, <1>2, <1>3, Zenon DEF tt_pldm_shell_execute_work

(* Bytes that ShellGetResult returns under an id are bytes of a command      *)
(* accepted under this id that has run, and a command that was refused or    *)
(* canceled while queued never runs (PsOwnOutput), for any ids, output sizes *)
(* and reads.                                                                *)
THEOREM OutputIsOwn == PsSpec => []PsOwnOutput
<1>1. PsIInv /\ [PsNext]_ps_vars => PsIInv'
  <2>1. PsIInv /\ UNCHANGED ps_vars => PsIInv'
    BY Zenon DEF PsIInv, PsHeld, PsOwnOutput, ps_vars
  <2> QED BY <2>1, PsExecInv, PsCancelInv, PsResultInv, PsWorkInv DEF PsNext
<1>2. PsIInv => PsOwnOutput
  BY DEF PsIInv
<1> QED
  BY <1>1, <1>2, PsInitInv, PTL DEF PsSpec

-----------------------------------------------------------------------------
(* The request in progress: every detector's latched sample was taken with   *)
(* the selected chain; that chain is the one the message asked for once      *)
(* sampling has begun, and the samples so far are of it; a message's request *)
(* that goes on has met no fault.                                            *)
PvEntry == [raw : Int, ok : BOOLEAN, at : Nat]
PvJob == [pc : {"idle", "chain", "sample", "done", "error"}, buf : Seq(PvEntry)]
PvFields == /\ pv_job \in PvJob /\ pv_new \in Int
            /\ pv_req.kind \in {"none", "TS", "PD", "VM", "AVG"} /\ pv_req.id \in Nat
            /\ pv_delta \in [PvIds -> Int] /\ pv_osc \in [PvIds -> Int] /\ pv_now \in Nat
PvLength == /\ pv_job.pc \in {"idle", "chain"} => pv_job.buf = <<>>
            /\ pv_job.pc = "sample" => Len(pv_job.buf) < PvCount
            /\ pv_job.pc = "done" => Len(pv_job.buf) = PvCount
PvOfChain ==
  /\ \A i \in PvIds : pv_osc[i] = pv_sel
  /\ pv_req.kind = "PD" => pv_new = pv_req.chain /\ pv_req.chain \in PvChains
  /\ pv_req.kind = "PD" /\ pv_job.pc \in {"sample", "done"} =>
       pv_sel = pv_req.chain /\ \A k \in 1 .. Len(pv_job.buf) : pv_job.buf[k].raw = pv_req.chain
  /\ pv_req.kind \in {"TS", "PD", "VM"} => \A k \in 1 .. Len(pv_job.buf) : pv_job.buf[k].ok
PvIInv == PvFields /\ PvLength /\ PvOfChain /\ PvChainMeasured

(* A count is reported as it was sampled: the conversion of a raw sample to  *)
(* a frequency and back (pvt_tt_bh_raw_to_freq, pvt_tt_bh_freq_to_raw) is    *)
(* exact for every sample of 16 bits.                                        *)
LEMMA PvFreqRoundTrip == \A raw \in Nat : raw <= 65535 => PvTold("PD", raw) = raw
<1> SUFFICES ASSUME NEW raw \in Nat, raw <= 65535 PROVE PvTold("PD", raw) = raw
  OBVIOUS
<1>1. PvRound(20 * raw, 20) = raw
  BY DEF PvRound
<1> QED BY <1>1 DEF PvTold, pvt_tt_bh_raw_to_freq, pvt_tt_bh_freq_to_raw, PvClamp

(* So is the number of a chain, which stands for a count taken with it.      *)
LEMMA PvChainTold == \A chain \in PvChains : PvTold("PD", chain) = chain
<1> SUFFICES ASSUME NEW chain \in PvChains PROVE PvTold("PD", chain) = chain
  OBVIOUS
<1>1. chain \in Nat /\ chain <= 65535
  BY PvAssumption
<1> HIDE DEF PvTold
<1> QED BY <1>1, PvFreqRoundTrip

(* A sample put at the end of the buffer (PvPut).                            *)
LEMMA PvAppended == \A s \in Seq(PvEntry) : \A e \in PvEntry :
  /\ Append(s, e) \in Seq(PvEntry) /\ Len(Append(s, e)) = Len(s) + 1
  /\ Append(s, e)[Len(s) + 1] = e /\ \A k \in 1 .. Len(s) : Append(s, e)[k] = s[k]
  OBVIOUS

(* The state after start-up's variables are set.                             *)
LEMMA PvInitInv == PvInit => PvIInv
<1> SUFFICES ASSUME PvInit PROVE PvIInv
  OBVIOUS
<1>1. PvFields
  BY PvAssumption, SMTT(30) DEF PvInit, PvFields, PvNoReq, PvNoJob, PvJob, PvUnset, PvIds
<1>2. PvLength
  BY SMTT(30) DEF PvInit, PvLength, PvNoJob
<1>3. PvOfChain
  BY SMTT(30) DEF PvInit, PvOfChain, PvNoReq, PvNoJob
<1>4. PvChainMeasured
  BY DEF PvInit, PvChainMeasured, PvNone
<1> QED BY <1>1, <1>2, <1>3, <1>4 DEF PvIInv

(* The identifiers of pvt_tt_bh_init's calibration are numbers.              *)
LEMMA PvDeltaInt == \A f \in Nat : PvDelta(f) \in Int
<1> SUFFICES ASSUME NEW f \in Nat PROVE PvDelta(f) \in Int
  OBVIOUS
<1>1. \A x \in Int : PvClamp(x) \in Int
  BY DEF PvClamp
<1>2. PvRound(PvCelsius(25) - 8309 * 4096 + 26250 * 2048, 26250) \in Int
  BY DEF PvRound, PvCelsius
<1>3. pvt_tt_bh_temp_to_raw(PvCelsius(25)) \in Int
  BY <1>1, <1>2 DEF pvt_tt_bh_temp_to_raw
<1> QED BY <1>3 DEF PvDelta

(* pvt_tt_bh_init leaves no chain selected and nothing sampled.              *)
LEMMA PvStart ==
  ASSUME PvIInv, NEW zeros \in BOOLEAN, NEW walks \in BOOLEAN, NEW fuse \in [PvIds -> PvFuses],
         pvt_tt_bh_init(zeros, walks, fuse)
  PROVE  PvIInv'
<1>1. UNCHANGED <<pv_osc, pv_sel, pv_new, pv_req, pv_job, pv_answer, pv_now>>
  BY DEF pvt_tt_bh_init
<1>2. pv_delta' \in [PvIds -> Int]
  <2>1. \A i \in PvIds : PvDelta(fuse[i]) \in Int
    BY PvDeltaInt, PvAssumption, ZenonT(40)
  <2>2. [i \in PvIds |-> PvDelta(fuse[i])] \in [PvIds -> Int]
    BY <2>1
  <2> QED BY <2>2, Zenon DEF pvt_tt_bh_init, PvIInv, PvFields
<1> QED BY <1>1, <1>2, Zenon DEF PvIInv, PvFields, PvLength, PvOfChain, PvChainMeasured

(* A request that is submitted has no sample yet.                            *)
LEMMA PvSubmitted ==
  ASSUME PvIInv, NEW kind \in {"TS", "PD", "VM", "AVG"}, NEW id \in Nat, NEW chain, NEW stale, NEW at,
         pvt_tt_bh_submit([kind |-> kind, id |-> id, chain |-> chain, stale |-> stale, at |-> at]),
         kind = "PD" => chain \in PvChains /\ pv_new' = chain, pv_new' \in Int,
         pv_answer' = PvNone, UNCHANGED <<pv_delta, pv_osc, pv_sel, pv_now>>
  PROVE  PvIInv'
<1>1. pv_req'.kind = kind /\ pv_req'.id = id /\ pv_req'.chain = chain
  BY DEF pvt_tt_bh_submit
<1>2. pv_job'.pc = (IF kind = "PD" THEN "chain" ELSE "sample") /\ pv_job'.buf = <<>>
  BY SMTT(30) DEF pvt_tt_bh_submit
<1>3. PvFields'
  <2>1. pv_job' \in PvJob
    BY SMTT(30) DEF pvt_tt_bh_submit, PvJob
  <2> QED BY <1>1, <2>1 DEF PvIInv, PvFields
<1>4. PvLength'
  BY <1>2, PvAssumption, SMTT(30) DEF PvLength
<1>5. PvOfChain'
  BY <1>1, <1>2, SMTT(30) DEF PvIInv, PvOfChain
<1>6. PvChainMeasured'
  BY Zenon DEF PvChainMeasured, PvNone
<1> QED BY <1>3, <1>4, <1>5, <1>6 DEF PvIInv

(* A message of the host becomes the request in progress.                    *)
LEMMA PvMessageInv ==
  ASSUME PvIInv, NEW kind \in {"TS", "PD", "VM"}, NEW id \in 0 .. PvCount, NEW chain \in PvChains,
         PvMessage(kind, id, chain)
  PROVE  PvIInv'
<1>1. id \in Nat /\ pv_new' \in Int /\ kind \in {"TS", "PD", "VM", "AVG"}
  BY PvAssumption, SMTT(30) DEF PvMessage, PvIInv, PvFields
<1> QED BY <1>1, PvSubmitted, ZenonT(40) DEF PvMessage

(* ReadTelemetryInternal asks for the averages of the telemetry; chains stay *)
(* as they are.                                                              *)
LEMMA PvReadInv ==
  ASSUME PvIInv, NEW s \in PvStale, ReadTelemetryInternal(s) PROVE PvIInv'
<1>1. UNCHANGED <<pv_delta, pv_osc, pv_sel, pv_new, pv_now>> /\ pv_answer' = PvNone
  BY DEF ReadTelemetryInternal
<1>2. CASE UNCHANGED <<pv_req, pv_job>>
  <2>1. PvChainMeasured'
    BY <1>1, SMTT(30) DEF PvChainMeasured, PvNone
  <2> QED BY <1>1, <1>2, <2>1, ZenonT(40) DEF PvIInv, PvFields, PvLength, PvOfChain
<1>3. CASE pvt_tt_bh_submit([kind |-> "AVG", id |-> 0, chain |-> 0, stale |-> s, at |-> pv_now])
  <2>1. pv_new' \in Int /\ 0 \in Nat
    BY <1>1, SMTT(30) DEF PvIInv, PvFields
  <2> QED BY <1>1, <1>3, <2>1, PvSubmitted
<1> QED BY <1>2, <1>3, SMTT(30) DEF ReadTelemetryInternal

(* select_delay_chain_and_start_pd_conv selects the chain asked for, unless  *)
(* it is the one recorded as selected.                                       *)
LEMMA PvSelectInv ==
  ASSUME PvIInv, select_delay_chain_and_start_pd_conv PROVE PvIInv'
<1>1. /\ pv_job.pc = "chain" /\ pv_sel' = pv_new
      /\ pv_osc' = IF pv_new = pv_sel THEN pv_osc ELSE [i \in PvIds |-> pv_new]
      /\ UNCHANGED <<pv_delta, pv_new, pv_req, pv_answer, pv_now>>
  BY Zenon DEF select_delay_chain_and_start_pd_conv
<1>2. pv_job' \in PvJob /\ pv_job'.pc = "sample" /\ pv_job'.buf = pv_job.buf
  <2>1. pv_job \in PvJob /\ pv_job' = [pv_job EXCEPT !.pc = "sample"] /\ "sample" \in {"idle", "chain", "sample", "done", "error"}
    BY Zenon DEF select_delay_chain_and_start_pd_conv, PvIInv, PvFields
  <2> QED BY <2>1, Zenon DEF PvJob
<1>3. pv_job.buf = <<>>
  BY <1>1, Zenon DEF PvIInv, PvLength
<1>4. PvFields'
  <2>1. pv_osc' \in [PvIds -> Int]
    BY <1>1, Zenon DEF PvIInv, PvFields
  <2> QED BY <1>1, <1>2, <2>1, Zenon DEF PvIInv, PvFields
<1>5. PvLength'
  BY <1>2, <1>3, PvAssumption DEF PvLength
<1>6. PvOfChain'
  <2>1. \A i \in PvIds : pv_osc'[i] = pv_sel'
    BY <1>1, Zenon DEF PvIInv, PvOfChain
  <2> QED BY <1>1, <1>2, <1>3, <2>1, SMTT(30) DEF PvIInv, PvOfChain
<1> QED BY <1>1, <1>4, <1>5, <1>6, Zenon DEF PvIInv, PvChainMeasured

(* A sample is added, or the request fails at a fault.                       *)
LEMMA PvPutInv ==
  ASSUME PvIInv, pv_job.pc = "sample", NEW value \in Int, NEW ok \in BOOLEAN, PvPut(value, ok),
         pv_req.kind # "AVG" => ok, pv_req.kind = "PD" => value = pv_sel,
         UNCHANGED <<pv_delta, pv_osc, pv_sel, pv_new, pv_req, pv_answer, pv_now>>
  PROVE  PvIInv'
<1> DEFINE e == [raw |-> value, ok |-> ok, at |-> pv_now]
           n == Len(pv_job.buf) + 1
<1>1. pv_job' = [pc |-> IF n < PvCount THEN "sample" ELSE "done", buf |-> Append(pv_job.buf, e)]
  BY Zenon DEF PvPut
<1>2. pv_job \in PvJob /\ pv_job.buf \in Seq(PvEntry) /\ Len(pv_job.buf) \in Nat /\ Len(pv_job.buf) < PvCount
  BY DEF PvIInv, PvFields, PvJob, PvLength
<1>3. e \in PvEntry /\ e.raw = value /\ e.ok = ok
  BY DEF PvEntry, PvIInv, PvFields
<1> HIDE DEF e
<1>4. /\ pv_job'.buf = Append(pv_job.buf, e) /\ pv_job'.buf \in Seq(PvEntry) /\ Len(pv_job'.buf) = n
      /\ pv_job'.buf[n] = e /\ \A k \in 1 .. Len(pv_job.buf) : pv_job'.buf[k] = pv_job.buf[k]
  BY <1>1, <1>2, <1>3, PvAppended, Zenon
<1>5. pv_job'.pc = IF n < PvCount THEN "sample" ELSE "done"
  BY <1>1, Zenon
<1>6. pv_job' \in PvJob
  <2>1. pv_job'.pc \in {"sample", "done"}
    BY <1>5, Zenon
  <2> QED BY <1>1, <1>4, <2>1, Zenon DEF PvJob
<1>7. PvFields'
  BY <1>6, Zenon DEF PvIInv, PvFields
<1>8. PvLength'
  BY <1>2, <1>4, <1>5, PvAssumption DEF PvLength
<1>9. PvOfChain'
  <2>1. \A k \in 1 .. Len(pv_job'.buf) : k = n \/ k \in 1 .. Len(pv_job.buf)
    <3>1. \A len \in Nat : \A k \in 1 .. (len + 1) : k = len + 1 \/ k \in 1 .. len
      BY SMTT(30)
    <3> QED BY <1>2, <1>4, <3>1, Zenon
  <2>2. pv_req.kind \in {"TS", "PD", "VM"} => \A k \in 1 .. Len(pv_job'.buf) : pv_job'.buf[k].ok
    <3>1. pv_req.kind \in {"TS", "PD", "VM"} => e.ok /\ \A k \in 1 .. Len(pv_job.buf) : pv_job.buf[k].ok
      BY <1>3, Zenon DEF PvIInv, PvOfChain
    <3> QED BY <1>4, <2>1, <3>1, Zenon
  <2>3. pv_req.kind = "PD" =>
          pv_sel = pv_req.chain /\ \A k \in 1 .. Len(pv_job'.buf) : pv_job'.buf[k].raw = pv_req.chain
    <3>1. pv_req.kind = "PD" => /\ pv_sel = pv_req.chain /\ e.raw = pv_req.chain
                                /\ \A k \in 1 .. Len(pv_job.buf) : pv_job.buf[k].raw = pv_req.chain
      BY <1>3, Zenon DEF PvIInv, PvOfChain
    <3> QED BY <1>4, <2>1, <3>1, Zenon
  <2> QED BY <2>2, <2>3, Zenon DEF PvIInv, PvOfChain
<1> QED BY <1>7, <1>8, <1>9, Zenon DEF PvIInv, PvChainMeasured

(* A sample of a process detector is of the selected chain.                  *)
LEMMA PvSampleInv ==
  ASSUME PvIInv, NEW raw \in PvRaws, NEW status \in PvStatuses(pv_req.kind), pvt_tt_bh_submit_sample(raw, status)
  PROVE  PvIInv'
<1>1. /\ pv_job.pc = "sample" /\ pv_req.kind # "AVG"
      /\ UNCHANGED <<pv_delta, pv_osc, pv_sel, pv_new, pv_req, pv_answer, pv_now>>
      /\ \/ pv_job' = [pv_job EXCEPT !.pc = "error"]
         \/ PvPut(PvSampled(Len(pv_job.buf), raw), TRUE)
  BY Zenon DEF pvt_tt_bh_submit_sample
<1>2. CASE pv_job' = [pv_job EXCEPT !.pc = "error"]
  <2>1. pv_job' \in PvJob /\ pv_job'.pc = "error" /\ pv_job'.buf = pv_job.buf
    <3>1. pv_job \in PvJob /\ "error" \in {"idle", "chain", "sample", "done", "error"}
      BY DEF PvIInv, PvFields
    <3> QED BY <1>2, <3>1, Zenon DEF PvJob
  <2> QED BY <1>1, <2>1, Zenon DEF PvIInv, PvFields, PvLength, PvOfChain, PvChainMeasured
<1>3. CASE PvPut(PvSampled(Len(pv_job.buf), raw), TRUE)
  <2>1. Len(pv_job.buf) \in PvIds
    BY <1>1, PvAssumption DEF PvIInv, PvFields, PvLength, PvJob, PvIds
  <2>2. PvSampled(Len(pv_job.buf), raw) \in Int
    BY <2>1, PvAssumption DEF PvIInv, PvFields, PvSampled, read_pd, read_ts, PvU16
  <2>3. pv_req.kind = "PD" => PvSampled(Len(pv_job.buf), raw) = pv_sel
    BY <2>1 DEF PvSampled, read_pd, PvIInv, PvOfChain
  <2> QED BY <1>1, <1>3, <2>2, <2>3, PvPutInv, Zenon
<1> QED BY <1>1, <1>2, <1>3, Zenon

(* An average of the temperature sensors concerns no delay chain.            *)
LEMMA PvAverageInv ==
  ASSUME PvIInv, NEW raw \in PvRaws \cup PvJunk, NEW status \in PvStatuses("TS"), read_ts_avg(raw, status)
  PROVE  PvIInv'
<1>1. /\ pv_job.pc = "sample" /\ pv_req.kind = "AVG"
      /\ UNCHANGED <<pv_delta, pv_osc, pv_sel, pv_new, pv_req, pv_answer, pv_now>>
      /\ PvPut(read_ts(Len(pv_job.buf), raw), status = "ReadOk")
  BY Zenon DEF read_ts_avg
<1>2. Len(pv_job.buf) \in PvIds
  BY <1>1, PvAssumption DEF PvIInv, PvFields, PvLength, PvJob, PvIds
<1>3. read_ts(Len(pv_job.buf), raw) \in Int /\ (status = "ReadOk") \in BOOLEAN
  BY <1>2, PvAssumption DEF PvIInv, PvFields, read_ts, PvU16
<1> QED BY <1>1, <1>3, PvPutInv, Zenon

(* Between two messages there is no request and no sample.                   *)
LEMMA PvAtRest == /\ PvNoJob \in PvJob /\ PvNoJob.pc = "idle" /\ PvNoJob.buf = <<>>
                  /\ PvNoReq.kind = "none" /\ PvNoReq.id \in Nat
  BY SMTT(30) DEF PvNoJob, PvNoReq, PvJob

(* The answer to a message.                                                  *)
LEMMA PvRespondInv ==
  ASSUME PvIInv, NEW junk \in PvJunk, PvRespond(junk) PROVE PvIInv'
<1> DEFINE has == pv_req.id \in PvIds
           sample == IF has THEN pv_job.buf[pv_req.id + 1].raw ELSE junk
           told == IF has THEN PvTold(pv_req.kind, sample) ELSE junk
<1>1. pv_answer' = IF pv_job.pc = "error" THEN [kind |-> pv_req.kind, cc |-> "error"]
                   ELSE [kind |-> pv_req.kind, cc |-> "ok", known |-> has, chain |-> pv_req.chain,
                         raw |-> told, sample |-> sample, ok |-> PvGood]
  BY Zenon DEF PvRespond
<1>2. /\ pv_req.kind \in {"TS", "PD", "VM"} /\ pv_job.pc \in {"done", "error"}
      /\ pv_req' = PvNoReq /\ pv_job' = PvNoJob
      /\ UNCHANGED <<pv_delta, pv_osc, pv_sel, pv_new, pv_now>>
  BY Zenon DEF PvRespond
<1>3. PvFields' /\ PvLength' /\ PvOfChain'
  BY <1>2, PvAtRest, SMTT(30) DEF PvIInv, PvFields, PvLength, PvOfChain
<1>4. PvGood
  BY <1>2, SMTT(30) DEF PvIInv, PvOfChain, PvGood, PvFields, PvJob
<1>5. pv_req.kind = "PD" /\ pv_job.pc = "done" /\ has => told = pv_req.chain
  <2> SUFFICES ASSUME pv_req.kind = "PD", pv_job.pc = "done", has PROVE told = pv_req.chain
    BY Zenon
  <2>1. pv_req.id + 1 \in 1 .. Len(pv_job.buf)
    BY PvAssumption DEF PvIds, PvIInv, PvLength
  <2>2. sample = pv_req.chain /\ pv_req.chain \in PvChains
    BY <2>1, Zenon DEF PvIInv, PvOfChain
  <2> QED BY <2>2, PvChainTold, Zenon
<1> HIDE DEF has, sample, told
<1>6. PvChainMeasured'
  <2>1. CASE pv_job.pc = "error"
    BY <1>1, <2>1, Zenon DEF PvChainMeasured
  <2>2. CASE pv_job.pc = "done"
    <3>1. pv_answer'.ok
      BY <1>4, <1>1, <2>2, Zenon
    <3>2. pv_answer'.kind = "PD" /\ pv_answer'.known => pv_answer'.raw = pv_answer'.chain
      BY <1>5, <1>1, <2>2, Zenon
    <3> QED BY <3>1, <3>2, Zenon DEF PvChainMeasured
  <2> QED BY <1>2, <2>1, <2>2, Zenon
<1> QED BY <1>3, <1>6, Zenon DEF PvIInv

(* Each step preserves the invariant.                                        *)
LEMMA PvStepInv == PvIInv /\ [PvNext]_pv_vars => PvIInv'
<1> SUFFICES ASSUME PvIInv, [PvNext]_pv_vars PROVE PvIInv'
  OBVIOUS
<1>1. CASE \E zeros, walks \in BOOLEAN, fuse \in [PvIds -> PvFuses] : pvt_tt_bh_init(zeros, walks, fuse)
  BY <1>1, PvStart, Zenon
<1>2. CASE \E kind \in {"TS", "PD", "VM"}, id \in 0..PvCount, chain \in PvChains : PvMessage(kind, id, chain)
  BY <1>2, PvMessageInv, Zenon
<1>3. CASE \E s \in PvStale : ReadTelemetryInternal(s)
  BY <1>3, PvReadInv, Zenon
<1>4. CASE select_delay_chain_and_start_pd_conv
  BY <1>4, PvSelectInv, Zenon
<1>5. CASE \E raw \in PvRaws, status \in PvStatuses(pv_req.kind) : pvt_tt_bh_submit_sample(raw, status)
  BY <1>5, PvSampleInv, Zenon
<1>6. CASE \E raw \in PvRaws \cup PvJunk, status \in PvStatuses("TS") : read_ts_avg(raw, status)
  BY <1>6, PvAverageInv, Zenon
<1>7. CASE \E junk \in PvJunk : PvRespond(junk)
  BY <1>7, PvRespondInv, Zenon
<1>8. CASE PvUpdate
  <2>1. pv_req' = PvNoReq /\ pv_job' = PvNoJob /\ UNCHANGED <<pv_delta, pv_osc, pv_sel, pv_new, pv_answer, pv_now>>
    BY <1>8, Zenon DEF PvUpdate
  <2> QED BY <2>1, PvAtRest, Zenon DEF PvIInv, PvFields, PvLength, PvOfChain, PvChainMeasured
<1>9. CASE PvTick
  <2>1. pv_now' \in Nat
    BY <1>9 DEF PvTick, PvIInv, PvFields
  <2> QED BY <1>9, <2>1, Zenon DEF PvTick, PvIInv, PvFields, PvLength, PvOfChain, PvChainMeasured
<1>10. CASE UNCHANGED pv_vars
  BY <1>10, Zenon DEF pv_vars, PvIInv, PvFields, PvLength, PvOfChain, PvChainMeasured
<1> QED BY <1>1, <1>2, <1>3, <1>4, <1>5, <1>6, <1>7, <1>8, <1>9, <1>10 DEF PvNext

(* A READ message that succeeds answers with a sample read without a fault,  *)
(* and a READ_PD with a count taken with the chain it asked for              *)
(* (pvt_tt_bh_submit_sample, select_delay_chain_and_start_pd_conv), for any  *)
(* number of sensors and whatever other messages selected or failed before.  *)
THEOREM SamplesOfChain == PvSpec => []PvChainMeasured
<1>1. PvInit => PvIInv
  BY PvInitInv
<1>2. PvIInv /\ [PvNext]_pv_vars => PvIInv'
  BY PvStepInv
<1>3. PvIInv => PvChainMeasured
  BY DEF PvIInv
<1> QED BY <1>1, <1>2, <1>3, PTL DEF PvSpec
=============================================================================
