-------------------------- MODULE RemoteBootProofs --------------------------
(* TLAPS proofs about RemoteBoot, first half: the inductive invariant, the   *)
(* boot of the remote processors and the controller's side of the commands.  *)
EXTENDS RemoteBoot, TLAPS

RbTileType == [core : BOOLEAN, straps : BOOLEAN, image : {"junk", "zero", "firmware"},
               parms : {"junk", "zero", "set"}, magic : BOOLEAN, code : {"zero", "trained", "gaveup"},
               fresh : BOOLEAN]
RbOps == {"none", "PING", "D2D_INIT", "D2D_START"}
RbPcs == {"attach", "locate", "load", "boot", "send", "poll", "link", "up", "failed"}
RbCtlType == [pc : RbPcs, p : 1 .. RbProcs, c : 1 .. RbChunks, tries : Int, k : Nat]
RbJobPcs == {"idle", "fetch", "size", "hold", "probe", "clear", "copy", "verify", "config", "magic"}
RbJobType == [pc : RbJobPcs, op : RbOps, tile : Nat]
RbShape ==
  /\ RbTypeOK
  /\ rb_ctl \in RbCtlType
  /\ rb_pend \in [op : RbOps, tile : Nat]
  /\ rb_job \in RbJobType
  /\ rb_fifo \in Seq([op : RbOps, ok : BOOLEAN])
  /\ rb_tile \in [RbTile -> RbTileType]

(* How far the images have come: all before the processor being written, and *)
(* of that one the messages before the current; nothing starts before boot.  *)
RbLoaded ==
  /\ rb_ctl.pc \in {"attach", "locate", "load"} => rb_live = {}
  /\ rb_ctl.pc \in {"attach", "locate"} => rb_ctl.c = 1
  /\ rb_ctl.pc = "locate" => rb_ctl.p = 1
  /\ rb_ctl.pc = "load" =>
       /\ \A q \in 1 .. RbProcs : q < rb_ctl.p => rb_mem[q] = 1 .. RbChunks
       /\ \A d \in 1 .. RbChunks : d < rb_ctl.c => d \in rb_mem[rb_ctl.p]
  /\ rb_ctl.pc \in {"boot", "send", "poll", "link", "up"} \/ rb_live # {} =>
       \A q \in 1 .. RbProcs : rb_mem[q] = 1 .. RbChunks

(* What the job has done to its tile: its core is held, the clear has dropped *)
(* the magic word and ended the late transfers, the image is verified before *)
(* the table is written.                                                     *)
RbWorking ==
  LET t == rb_job.tile IN
  /\ rb_job.pc \notin {"idle", "fetch"} => rb_job.op = "D2D_INIT" /\ t \in RbTile
  /\ rb_job.pc = "idle" <=> rb_job.op = "none"
  /\ rb_job.pc \in {"probe", "clear", "copy", "verify", "config", "magic"} => ~rb_tile[t].core
  /\ rb_job.pc \in {"copy", "verify", "config", "magic"} =>
       ~rb_tile[t].magic /\ rb_tile[t].code = "zero" /\ ~rb_dma[t]
  /\ rb_job.pc \in {"config", "magic"} => rb_tile[t].image = "firmware"
  /\ rb_job.pc = "magic" => rb_tile[t].parms = "set"
  /\ \A u \in RbTile : rb_dma[u] => ~rb_tile[u].core

(* A tile fit to be started: the verified image with its table, no transfer  *)
(* outstanding, and no link trained by anything else.                        *)
RbFit(t) ==
  /\ t \in RbTile /\ rb_tile[t].image = "firmware" /\ rb_tile[t].parms = "set" /\ ~rb_dma[t]
  /\ rb_tile[t].code = "trained" => rb_tile[t].fresh
RbAllFit == \A i \in 1 .. RbN : RbFit(RbAsk[i])

(* One command is under way at a time: queued, in the hands of the worker or *)
(* answered, and only the last response can be other than that of a ping.    *)
RbUnderWay(op) == (rb_work /\ rb_pend.op = op) \/ rb_job.op = op
RbCarried ==
  /\ rb_work => rb_pend.op # "none"
  /\ rb_job.op \in {"D2D_INIT", "D2D_START"} =>
       ~rb_work /\ rb_pend.op = rb_job.op /\ (rb_job.pc # "fetch" => rb_job.tile = rb_pend.tile)
  /\ rb_ctl.pc \notin {"poll", "failed"} =>
       /\ ~RbUnderWay("D2D_INIT") /\ ~RbUnderWay("D2D_START")
       /\ \A i \in 1 .. Len(rb_fifo) : rb_fifo[i].op = "PING"
  /\ rb_ctl.pc = "poll" =>
       /\ rb_pend = RbCommand(rb_ctl.k)
       /\ \A i \in 1 .. Len(rb_fifo) :
            rb_fifo[i].op # "PING" => /\ i = Len(rb_fifo) /\ rb_fifo[i].op = rb_pend.op
                                      /\ ~rb_work /\ rb_job.op = "none"
                                      /\ rb_fifo[i].ok => rb_pend \in rb_done
  /\ RbUnderWay("D2D_START") => RbAllFit /\ \E i \in 1 .. RbN : rb_pend.tile = RbAsk[i]
  /\ rb_told.op = "LINK" =>
       rb_ctl.pc \in {"link", "up", "failed"} /\ ~RbUnderWay("D2D_INIT") /\ rb_told.tile \in RbTile

(* How far the caller has come, when it has not given up.                    *)
RbReached ==
  /\ rb_ctl.pc \in {"send", "poll"} => rb_ctl.k <= 2 * RbN
  /\ rb_ctl.pc = "link" => rb_ctl.k > 2 * RbN /\ rb_ctl.k <= 3 * RbN
  /\ rb_ctl.pc \in {"send", "poll"} /\ rb_ctl.k <= RbN =>
       \A i \in 1 .. RbN : i < rb_ctl.k =>
          RbFit(RbAsk[i]) \/ (rb_ctl.pc = "poll" /\ RbAsk[i] = RbAsk[rb_ctl.k])
  /\ rb_ctl.pc \in {"send", "poll", "link"} /\ rb_ctl.k > RbN =>
       /\ RbAllFit
       /\ \A i \in 1 .. RbN : i < rb_ctl.k - RbN => rb_tile[RbAsk[i]].core
  /\ rb_ctl.pc = "poll" => \A i \in 1 .. Len(rb_fifo) : rb_fifo[i].ok =>
       /\ rb_fifo[i].op = "D2D_INIT" => RbFit(rb_pend.tile)
       /\ rb_fifo[i].op = "D2D_START" => rb_tile[rb_pend.tile].core

RbIInv == RbShape /\ RbLoaded /\ RbWorking /\ RbCarried /\ RbReached /\ RbRunsWhole /\ RbAnswerTrue

(* The boot starts with nothing loaded, no command and no transfer.          *)
LEMMA RbInitInv == RbInit => RbIInv
<1> SUFFICES ASSUME RbInit PROVE RbIInv
  BY Zenon
<1>1. /\ rb_ctl = [pc |-> "attach", p |-> 1, c |-> 1, tries |-> RbTries, k |-> 1]
      /\ rb_ready = {} /\ rb_mem = [p \in 1..RbProcs |-> {}] /\ rb_live = {}
      /\ rb_pend = RbNoCmd /\ rb_work = FALSE /\ rb_job = RbNoJob /\ rb_fifo = <<>>
      /\ rb_dma = [t \in RbTile |-> FALSE] /\ rb_told = RbNoCmd
  BY Zenon DEF RbInit
<1>2. /\ rb_tile \in [RbTile -> RbTileType]
      /\ \A t \in RbTile : (rb_tile[t].core /\ rb_tile[t].magic) =>
                              rb_tile[t].image = "firmware" /\ rb_tile[t].parms = "set"
  <2> DEFINE kept(m) == [core |-> FALSE, straps |-> FALSE, image |-> "junk", parms |-> "junk",
                         magic |-> m, code |-> IF m THEN "trained" ELSE "zero", fresh |-> FALSE]
             old == [core |-> TRUE, straps |-> TRUE, image |-> "firmware", parms |-> "set",
                     magic |-> TRUE, code |-> "trained", fresh |-> FALSE]
  <2>1. \A m \in BOOLEAN : kept(m) \in RbTileType /\ ~kept(m).core
    BY Zenon DEF RbTileType
  <2>2. old \in RbTileType /\ old.image = "firmware" /\ old.parms = "set"
    BY Zenon DEF RbTileType
  <2>3. rb_tile \in [RbTile -> {kept(m) : m \in BOOLEAN} \cup {old}]
    BY Zenon DEF RbInit
  <2> HIDE DEF kept, old
  <2> QED BY <2>1, <2>2, <2>3, Zenon
<1>3. RbShape
  <2>1. rb_ctl \in RbCtlType
    BY <1>1, RbAssumption, SMTT(30) DEF RbCtlType, RbPcs
  <2>2. rb_pend \in [op : RbOps, tile : Nat] /\ rb_fifo \in Seq([op : RbOps, ok : BOOLEAN])
    BY <1>1, SMTT(30) DEF RbOps, RbNoCmd
  <2>3. RbTypeOK
    BY <1>1, Zenon DEF RbTypeOK, RbNoJob
  <2> QED BY <1>1, <1>2, <2>1, <2>2, <2>3, Zenon DEF RbShape, RbOps, RbNoJob, RbJobType, RbJobPcs
<1>4. RbLoaded
  BY <1>1, RbAssumption, Zenon DEF RbLoaded
<1>5. RbWorking
  BY <1>1, Zenon DEF RbWorking, RbNoJob
<1>6. RbCarried
  BY <1>1, SMTT(30) DEF RbCarried, RbNoJob, RbNoCmd, RbUnderWay
<1>7. RbReached
  BY <1>1, Zenon DEF RbReached
<1>8. RbRunsWhole /\ RbAnswerTrue
  BY <1>1, <1>2, Zenon DEF RbRunsWhole, RbAnswerTrue, RbNoCmd
<1> QED
  BY <1>3, <1>4, <1>5, <1>6, <1>7, <1>8, Zenon DEF RbIInv

(* At least one tile is asked for, and tiles are numbers.                    *)
LEMMA RbLength == RbN \in Nat \ {0} /\ \A i \in 1 .. RbN : RbAsk[i] \in Nat
  BY RbAssumption, SMTT(30) DEF RbN

(* The fields of the controller's record.                                    *)
LEMMA RbCtlFields == \A r \in RbCtlType :
  r.pc \in RbPcs /\ r.p \in 1 .. RbProcs /\ r.c \in 1 .. RbChunks /\ r.tries \in Int /\ r.k \in Nat
  BY Zenon DEF RbCtlType

(* The controller's record with another pc,                                  *)
LEMMA RbSetPc == \A r \in RbCtlType : \A x \in RbPcs :
  /\ [r EXCEPT !.pc = x] \in RbCtlType
  /\ [r EXCEPT !.pc = x].pc = x /\ [r EXCEPT !.pc = x].p = r.p /\ [r EXCEPT !.pc = x].c = r.c
  /\ [r EXCEPT !.pc = x].k = r.k
  BY Zenon DEF RbCtlType

(* with another processor,                                                   *)
LEMMA RbSetP == \A r \in RbCtlType : \A x \in 1 .. RbProcs :
  /\ [r EXCEPT !.p = x] \in RbCtlType
  /\ [r EXCEPT !.p = x].pc = r.pc /\ [r EXCEPT !.p = x].p = x /\ [r EXCEPT !.p = x].c = r.c
  /\ [r EXCEPT !.p = x].k = r.k
  BY Zenon DEF RbCtlType

(* and with other tries left.                                                *)
LEMMA RbSetTries == \A r \in RbCtlType : \A x \in Int :
  /\ [r EXCEPT !.tries = x] \in RbCtlType
  /\ [r EXCEPT !.tries = x].pc = r.pc /\ [r EXCEPT !.tries = x].p = r.p /\ [r EXCEPT !.tries = x].c = r.c
  /\ [r EXCEPT !.tries = x].k = r.k
  BY Zenon DEF RbCtlType

(* Bringing up the processors, up to the first command.                      *)
LEMMA RbBootStep ==
  ASSUME RbShape, RbLoaded,
         \/ \E b \in BOOLEAN : tt_smc_remoteproc_init(b) \/ tt_mimir_remote_boot_init(b)
         \/ \E b, c \in BOOLEAN : occp_run_transaction(b, c) \/ occp_execute_image(b, c)
  PROVE  /\ RbLoaded' /\ rb_ctl' \in RbCtlType
         /\ rb_ctl.pc \in {"attach", "locate", "load", "boot"}
         /\ rb_ctl'.pc \in {"attach", "locate", "load", "boot", "failed"} \/ (rb_ctl'.pc = "send" /\ rb_ctl'.k = 0)
         /\ rb_ready' \subseteq 1 .. RbProcs /\ rb_live' \subseteq 1 .. RbProcs
         /\ rb_mem' \in [1 .. RbProcs -> SUBSET (1 .. RbChunks)]
         /\ UNCHANGED rb_remote /\ UNCHANGED rb_told
<1> USE RbAssumption
<1>0. /\ rb_ctl \in RbCtlType /\ rb_ready \subseteq 1 .. RbProcs /\ rb_live \subseteq 1 .. RbProcs
      /\ rb_mem \in [1 .. RbProcs -> SUBSET (1 .. RbChunks)]
  BY Zenon DEF RbShape, RbTypeOK
<1>1. ASSUME NEW b \in BOOLEAN, tt_smc_remoteproc_init(b)
      PROVE  /\ RbLoaded' /\ rb_ctl' \in RbCtlType /\ rb_ctl.pc = "attach"
             /\ rb_ctl'.pc \in {"attach", "locate"} /\ rb_ready' \subseteq 1 .. RbProcs
             /\ UNCHANGED <<rb_mem, rb_live>>
  <2>1. /\ rb_ctl' \in RbCtlType /\ rb_ctl'.c = rb_ctl.c
        /\ rb_ctl'.pc = IF rb_ctl.p < RbProcs THEN rb_ctl.pc ELSE "locate"
        /\ rb_ctl'.p = IF rb_ctl.p < RbProcs THEN rb_ctl.p + 1 ELSE 1
    <3>1. CASE rb_ctl.p < RbProcs
      <4>1. rb_ctl.p + 1 \in 1 .. RbProcs
        BY <1>0, <3>1, SMTT(30) DEF RbCtlType
      <4>2. rb_ctl' = [rb_ctl EXCEPT !.p = rb_ctl.p + 1]
        BY <1>1, <3>1, Zenon DEF tt_smc_remoteproc_init
      <4> QED BY <1>0, <3>1, <4>1, <4>2, RbSetP, ZenonT(40)
    <3>2. CASE ~(rb_ctl.p < RbProcs)
      <4>1. 1 \in 1 .. RbProcs /\ "locate" \in RbPcs
        BY SMTT(30) DEF RbPcs
      <4>2. rb_ctl' = [rb_ctl EXCEPT !.pc = "locate", !.p = 1]
        BY <1>1, <3>2, Zenon DEF tt_smc_remoteproc_init
      <4> QED BY <1>0, <3>2, <4>1, <4>2, Zenon DEF RbCtlType
    <3> QED BY <3>1, <3>2, Zenon
  <2>2. /\ rb_ctl.pc = "attach" /\ UNCHANGED <<rb_mem, rb_live>>
        /\ rb_ready' = IF b THEN rb_ready \cup {rb_ctl.p} ELSE rb_ready
    BY <1>1, Zenon DEF tt_smc_remoteproc_init
  <2> QED BY <1>0, <2>1, <2>2, Zenon DEF RbLoaded, RbCtlType
<1>2. ASSUME NEW b \in BOOLEAN, tt_mimir_remote_boot_init(b)
      PROVE  /\ RbLoaded' /\ rb_ctl' \in RbCtlType /\ rb_ctl.pc \in {"locate", "load"}
             /\ rb_ctl'.pc \in {"load", "failed"}
  <2>0. rb_ctl.pc \in {"locate", "load"} /\ UNCHANGED <<rb_mem, rb_live>>
    BY <1>2, Zenon DEF tt_mimir_remote_boot_init, rb_boot
  <2>1. \E x \in {"load", "failed"} : rb_ctl' = [rb_ctl EXCEPT !.pc = x] /\ (rb_ctl.pc = "load" => x = "failed")
    BY <1>2, Zenon DEF tt_mimir_remote_boot_init, rb_boot
  <2>2. /\ rb_ctl' \in RbCtlType /\ rb_ctl'.c = rb_ctl.c /\ rb_ctl'.p = rb_ctl.p
        /\ rb_ctl'.pc \in {"load", "failed"} /\ (rb_ctl.pc = "load" => rb_ctl'.pc = "failed")
    <3>1. PICK x \in {"load", "failed"} : rb_ctl' = [rb_ctl EXCEPT !.pc = x] /\ (rb_ctl.pc = "load" => x = "failed")
      BY <2>1, Zenon
    <3>2. x \in RbPcs
      BY Zenon DEF RbPcs
    <3>3. rb_ctl' \in RbCtlType /\ rb_ctl'.c = rb_ctl.c /\ rb_ctl'.p = rb_ctl.p /\ rb_ctl'.pc = x
      BY <1>0, <3>1, <3>2, RbSetPc, Zenon
    <3> QED BY <3>1, <3>3, Zenon
  <2>3. RbLoaded'
    <3>1. rb_ctl.p \in 1 .. RbProcs /\ rb_ctl.c \in 1 .. RbChunks
      BY <1>0, RbCtlFields, Zenon
    <3> QED BY <2>0, <2>2, <3>1, SMTT(30) DEF RbLoaded
  <2> QED BY <2>0, <2>2, <2>3, Zenon
<1>3. ASSUME NEW b \in BOOLEAN, NEW c \in BOOLEAN, occp_run_transaction(b, c)
      PROVE  /\ RbLoaded' /\ rb_ctl' \in RbCtlType /\ rb_ctl.pc = "load"
             /\ rb_ctl'.pc \in {"load", "boot", "failed"}
             /\ rb_mem' \in [1 .. RbProcs -> SUBSET (1 .. RbChunks)]
  <2>0. /\ rb_ctl.pc = "load" /\ rb_live' = rb_live
        /\ rb_mem' = IF b THEN [rb_mem EXCEPT ![rb_ctl.p] = @ \cup {rb_ctl.c}] ELSE rb_mem
        /\ c => b
    BY <1>3, Zenon DEF occp_run_transaction, occp_tx_rx
  <2>1.    rb_ctl' = IF c THEN RbAdvance
                     ELSE IF rb_ctl.tries <= 1 THEN [rb_ctl EXCEPT !.pc = "failed"]
                     ELSE [rb_ctl EXCEPT !.tries = @ - 1]
    BY <1>3, Zenon DEF occp_run_transaction, occp_tx_rx
  <2>2. rb_mem' \in [1 .. RbProcs -> SUBSET (1 .. RbChunks)]
    BY <1>0, <2>0, Zenon DEF RbCtlType
  <2>3. CASE c
    <3>1. /\ rb_ctl' \in RbCtlType
          /\ rb_ctl'.c = IF rb_ctl.c < RbChunks THEN rb_ctl.c + 1 ELSE 1
          /\ rb_ctl'.p = IF rb_ctl.c < RbChunks THEN rb_ctl.p ELSE IF rb_ctl.p < RbProcs THEN rb_ctl.p + 1 ELSE 1
          /\ rb_ctl'.pc = IF rb_ctl.c < RbChunks \/ rb_ctl.p < RbProcs THEN rb_ctl.pc ELSE "boot"
      <4> DEFINE c1 == IF rb_ctl.c < RbChunks THEN rb_ctl.c + 1 ELSE 1
                 p1 == IF rb_ctl.c < RbChunks THEN rb_ctl.p ELSE IF rb_ctl.p < RbProcs THEN rb_ctl.p + 1 ELSE 1
                 pc1 == IF rb_ctl.c < RbChunks \/ rb_ctl.p < RbProcs THEN rb_ctl.pc ELSE "boot"
      <4>1. c1 \in 1 .. RbChunks /\ p1 \in 1 .. RbProcs
        BY <1>0, SMTT(30) DEF RbCtlType
      <4>2. pc1 \in RbPcs
        BY <2>0, Zenon DEF RbPcs
      <4>3. rb_ctl' = [rb_ctl EXCEPT !.tries = RbTries, !.c = c1, !.p = p1, !.pc = pc1]
        BY <2>1, <2>3, Zenon DEF RbAdvance
      <4>5. RbTries \in Int
        BY SMTT(30)
      <4> HIDE DEF c1, p1, pc1
      <4>4. rb_ctl' \in RbCtlType /\ rb_ctl'.c = c1 /\ rb_ctl'.p = p1 /\ rb_ctl'.pc = pc1
        BY <1>0, <4>1, <4>2, <4>3, <4>5, Zenon DEF RbCtlType
      <4> QED BY <4>4, Zenon DEF c1, p1, pc1
    <3>2. rb_mem' = [rb_mem EXCEPT ![rb_ctl.p] = @ \cup {rb_ctl.c}]
      BY <2>0, <2>3, Zenon
    <3>0. /\ rb_ctl.p \in 1 .. RbProcs /\ rb_ctl.c \in 1 .. RbChunks
          /\ rb_mem \in [1 .. RbProcs -> SUBSET (1 .. RbChunks)]
      BY <1>0, RbCtlFields, Zenon
    <3>3. rb_ctl.c = RbChunks => rb_mem'[rb_ctl.p] = 1 .. RbChunks
      <4>1. rb_mem'[rb_ctl.p] = rb_mem[rb_ctl.p] \cup {rb_ctl.c}
        BY <3>0, <3>2, Zenon
      <4>2. rb_mem[rb_ctl.p] \subseteq 1 .. RbChunks
        BY <3>0, Zenon
      <4>3. \A d \in 1 .. RbChunks : d < rb_ctl.c => d \in rb_mem[rb_ctl.p]
        BY <2>0, Zenon DEF RbLoaded
      <4> QED BY <3>0, <4>1, <4>2, <4>3, SMTT(30)
    <3>4. RbLoaded'
      <4>0. /\ rb_live' = {} /\ rb_ctl'.pc \in {"load", "boot"}
            /\ \A q \in 1 .. RbProcs : q < rb_ctl.p => rb_mem[q] = 1 .. RbChunks
            /\ \A d \in 1 .. RbChunks : d < rb_ctl.c => d \in rb_mem[rb_ctl.p]
        BY <2>0, <3>1, Zenon DEF RbLoaded
      <4>1. \A q \in 1 .. RbProcs : q < rb_ctl.p => rb_mem'[q] = 1 .. RbChunks
        BY <3>0, <3>2, <4>0, SMTT(30)
      <4>2. CASE rb_ctl.c < RbChunks
        <5>1. rb_ctl'.pc = "load" /\ rb_ctl'.p = rb_ctl.p /\ rb_ctl'.c = rb_ctl.c + 1
          BY <2>0, <3>1, <4>2, Zenon
        <5>2. \A d \in 1 .. RbChunks : d < rb_ctl'.c => d \in rb_mem'[rb_ctl'.p]
          BY <3>0, <3>2, <4>0, <5>1, SMTT(30)
        <5> QED BY <4>0, <4>1, <5>1, <5>2, Zenon DEF RbLoaded
      <4>3. CASE ~(rb_ctl.c < RbChunks)
        <5>1. rb_ctl.c = RbChunks /\ rb_ctl'.c = 1
          BY <3>0, <3>1, <4>3, SMTT(30)
        <5>2. \A q \in 1 .. RbProcs : q <= rb_ctl.p => rb_mem'[q] = 1 .. RbChunks
          BY <3>0, <3>3, <4>1, <5>1, SMTT(30)
        <5>3. CASE rb_ctl.p < RbProcs
          <6>1. rb_ctl'.pc = "load" /\ rb_ctl'.p = rb_ctl.p + 1
            BY <2>0, <3>1, <4>3, <5>3, Zenon
          <6> QED BY <3>0, <4>0, <5>1, <5>2, <6>1, SMTT(30) DEF RbLoaded
        <5>4. CASE ~(rb_ctl.p < RbProcs)
          <6>1. rb_ctl'.pc = "boot" /\ rb_ctl.p = RbProcs
            BY <3>0, <3>1, <4>3, <5>4, SMTT(30)
          <6> QED BY <3>0, <4>0, <5>2, <6>1, SMTT(30) DEF RbLoaded
        <5> QED BY <5>3, <5>4, Zenon
      <4> QED BY <4>2, <4>3, Zenon
    <3> QED BY <2>0, <2>2, <3>1, <3>4, Zenon
  <2>4. CASE ~c
    <3>1. /\ rb_ctl' \in RbCtlType /\ rb_ctl'.c = rb_ctl.c /\ rb_ctl'.p = rb_ctl.p
          /\ rb_ctl'.pc \in {"load", "failed"}
      <4>1. rb_ctl.tries - 1 \in Int
        BY <1>0, SMTT(30) DEF RbCtlType
      <4>2. "failed" \in RbPcs
        BY Zenon DEF RbPcs
      <4>3. CASE rb_ctl' = [rb_ctl EXCEPT !.pc = "failed"]
        BY <1>0, <4>2, <4>3, RbSetPc, ZenonT(40)
      <4>4. CASE rb_ctl' = [rb_ctl EXCEPT !.tries = rb_ctl.tries - 1]
        BY <1>0, <2>0, <4>1, <4>4, RbSetTries, Zenon
      <4> QED BY <2>1, <2>4, <4>3, <4>4, Zenon
    <3> QED BY <1>0, <2>0, <2>2, <3>1, ZenonT(40) DEF RbLoaded, RbCtlType
  <2> QED BY <2>3, <2>4, Zenon
<1>4. ASSUME NEW b \in BOOLEAN, NEW c \in BOOLEAN, occp_execute_image(b, c)
      PROVE  /\ RbLoaded' /\ rb_ctl' \in RbCtlType /\ rb_ctl.pc = "boot"
             /\ rb_ctl'.pc \in {"boot", "failed"} \/ (rb_ctl'.pc = "send" /\ rb_ctl'.k = 0)
             /\ rb_live' \subseteq 1 .. RbProcs
  <2>0. /\ rb_ctl.pc = "boot" /\ rb_mem' = rb_mem
        /\ rb_live' = IF b THEN rb_live \cup {rb_ctl.p} ELSE rb_live
    BY <1>4, Zenon DEF occp_execute_image
  <2>1.    rb_ctl' = IF ~c THEN [rb_ctl EXCEPT !.pc = "failed"]
                     ELSE IF rb_ctl.p < RbProcs THEN [rb_ctl EXCEPT !.p = @ + 1]
                     ELSE [rb_ctl EXCEPT !.pc = "send", !.k = 0, !.tries = RbPings]
    BY <1>4, Zenon DEF occp_execute_image
  <2>2. /\ rb_ctl' \in RbCtlType
        /\ rb_ctl'.pc \in {"boot", "failed"} \/ (rb_ctl'.pc = "send" /\ rb_ctl'.k = 0)
    <3>1. "failed" \in RbPcs /\ (rb_ctl.p < RbProcs => rb_ctl.p + 1 \in 1 .. RbProcs)
      BY <1>0, SMTT(30) DEF RbPcs, RbCtlType
    <3>2. CASE rb_ctl' = [rb_ctl EXCEPT !.pc = "failed"]
      BY <1>0, <3>1, <3>2, RbSetPc, ZenonT(40)
    <3>3. CASE rb_ctl.p < RbProcs /\ rb_ctl' = [rb_ctl EXCEPT !.p = rb_ctl.p + 1]
      BY <1>0, <2>0, <3>1, <3>3, RbSetP, ZenonT(40)
    <3>4. CASE rb_ctl' = [rb_ctl EXCEPT !.pc = "send", !.k = 0, !.tries = RbPings]
      <4>1. "send" \in RbPcs /\ 0 \in Nat /\ RbPings \in Int
        BY SMTT(30) DEF RbPcs
      <4> QED BY <1>0, <3>4, <4>1, Zenon DEF RbCtlType
    <3> QED BY <2>1, <3>2, <3>3, <3>4, Zenon
  <2> QED BY <1>0, <2>0, <2>2, Zenon DEF RbLoaded, RbCtlType
<1> QED
  <2> USE DEF rb_boot
  <2>1. UNCHANGED rb_remote /\ UNCHANGED rb_told
    BY Zenon DEF tt_smc_remoteproc_init, tt_mimir_remote_boot_init, occp_run_transaction, occp_execute_image
  <2>2. CASE \E b \in BOOLEAN : tt_smc_remoteproc_init(b)
    BY <1>0, <1>1, <2>1, <2>2, Zenon
  <2>3. CASE \E b \in BOOLEAN : tt_mimir_remote_boot_init(b)
    <3>1. UNCHANGED rb_boot
      BY <2>3, Zenon DEF tt_mimir_remote_boot_init
    <3> QED BY <1>0, <1>2, <2>1, <2>3, <3>1, Zenon
  <2>4. CASE \E b, c \in BOOLEAN : occp_run_transaction(b, c)
    <3>1. UNCHANGED <<rb_ready, rb_live>>
      BY <2>4, Zenon DEF occp_run_transaction
    <3> QED BY <1>0, <1>3, <2>1, <2>4, <3>1, Zenon
  <2>5. CASE \E b, c \in BOOLEAN : occp_execute_image(b, c)
    <3>1. UNCHANGED <<rb_ready, rb_mem>>
      BY <2>5, Zenon DEF occp_execute_image
    <3> QED BY <1>0, <1>4, <2>1, <2>5, <3>1, Zenon
  <2> QED BY <2>2, <2>3, <2>4, <2>5, Zenon

(* The boot of the remote processors: attaching them, their images in chunks *)
(* by occp_run_transaction, and their start by occp_execute_image.           *)
LEMMA RbBootInv ==
  ASSUME RbIInv,
         \/ \E b \in BOOLEAN : tt_smc_remoteproc_init(b) \/ tt_mimir_remote_boot_init(b)
         \/ \E b, c \in BOOLEAN : occp_run_transaction(b, c) \/ occp_execute_image(b, c)
  PROVE  RbIInv'
<1>1. /\ RbLoaded' /\ rb_ctl' \in RbCtlType
      /\ rb_ctl.pc \in {"attach", "locate", "load", "boot"}
      /\ rb_ctl'.pc \in {"attach", "locate", "load", "boot", "failed"} \/ (rb_ctl'.pc = "send" /\ rb_ctl'.k = 0)
      /\ rb_ready' \subseteq 1 .. RbProcs /\ rb_live' \subseteq 1 .. RbProcs
      /\ rb_mem' \in [1 .. RbProcs -> SUBSET (1 .. RbChunks)]
      /\ UNCHANGED rb_remote /\ UNCHANGED rb_told
  BY RbBootStep, Zenon DEF RbIInv
<1>2. UNCHANGED <<rb_pend, rb_work, rb_job, rb_fifo, rb_tile, rb_dma, rb_done, rb_told>>
  BY <1>1, Zenon DEF rb_remote
<1>3. RbShape'
  <2>1. rb_ctl'.pc \in {"attach", "locate", "load", "boot", "send", "poll", "link", "up", "failed"}
    BY <1>1, Zenon
  <2>2. RbTypeOK'
    BY <1>1, <1>2, <2>1, Zenon DEF RbIInv, RbShape, RbTypeOK
  <2> QED BY <1>1, <1>2, <2>2, Zenon DEF RbIInv, RbShape
<1>4. RbWorking'
  BY <1>2, Zenon DEF RbIInv, RbWorking
<1>5. RbCarried'
  <2>1. /\ rb_ctl.pc \notin {"poll", "failed", "link", "up"} /\ rb_ctl'.pc # "poll"
    BY <1>1, Zenon
  <2>2. /\ rb_work => rb_pend.op # "none"
        /\ rb_job.op \in {"D2D_INIT", "D2D_START"} =>
             ~rb_work /\ rb_pend.op = rb_job.op /\ (rb_job.pc # "fetch" => rb_job.tile = rb_pend.tile)
        /\ ~RbUnderWay("D2D_INIT") /\ ~RbUnderWay("D2D_START")
        /\ \A i \in 1 .. Len(rb_fifo) : rb_fifo[i].op = "PING"
        /\ rb_told.op # "LINK"
    BY <2>1, Zenon DEF RbIInv, RbCarried
  <2> QED BY <1>2, <2>1, <2>2, Zenon DEF RbCarried, RbUnderWay
<1>6. RbReached'
  BY <1>1, RbLength, SMTT(30) DEF RbReached
<1>7. RbRunsWhole' /\ RbAnswerTrue'
  BY <1>1, <1>2, Zenon DEF RbIInv, RbRunsWhole, RbAnswerTrue, RbLoaded
<1> QED
  BY <1>1, <1>3, <1>4, <1>5, <1>6, <1>7, Zenon DEF RbIInv
-----------------------------------------------------------------------------
(* The caller's commands in their order: the ping, an init for each tile, a  *)
(* start for each tile.                                                      *)
LEMMA RbCommandIs == \A k \in Nat : k <= 2 * RbN =>
  /\ RbCommand(k) \in [op : RbOps, tile : Nat] /\ RbCommand(k).op \in {"PING", "D2D_INIT", "D2D_START"}
  /\ RbCommand(k).op = "PING" <=> k = 0
  /\ RbCommand(k).op = "D2D_INIT" => k \in 1 .. RbN /\ RbCommand(k).tile = RbAsk[k]
  /\ RbCommand(k).op = "D2D_START" =>
       k > RbN /\ k - RbN \in 1 .. RbN /\ RbCommand(k).tile = RbAsk[k - RbN]
<1> SUFFICES ASSUME NEW k \in Nat, k <= 2 * RbN
             PROVE  /\ RbCommand(k) \in [op : RbOps, tile : Nat]
                    /\ RbCommand(k).op \in {"PING", "D2D_INIT", "D2D_START"}
                    /\ RbCommand(k).op = "PING" <=> k = 0
                    /\ RbCommand(k).op = "D2D_INIT" => k \in 1 .. RbN /\ RbCommand(k).tile = RbAsk[k]
                    /\ RbCommand(k).op = "D2D_START" =>
                         k > RbN /\ k - RbN \in 1 .. RbN /\ RbCommand(k).tile = RbAsk[k - RbN]
  BY Zenon
<1>1. CASE k = 0
  BY <1>1, Zenon DEF RbCommand, RbOps
<1>2. CASE k > 0 /\ k <= RbN
  BY <1>2, RbLength, SMTT(30) DEF RbCommand, RbOps
<1>3. CASE k > RbN
  <2>1. k - RbN \in 1 .. RbN /\ k # 0 /\ ~(k <= RbN)
    BY <1>3, RbLength, SMTT(30)
  <2> HIDE <1>3
  <2> QED BY <1>3, <2>1, RbLength, Zenon DEF RbCommand, RbOps
<1> QED BY <1>1, <1>2, <1>3, RbLength, SMTT(30)

(* A caller that stops gives up on every failure but that of a ping.         *)
LEMMA RbFailedIs ==
  ASSUME RbPolicy = "stop", rb_ctl \in RbCtlType
  PROVE  /\ RbFailed \in RbCtlType /\ RbFailed.k = rb_ctl.k
         /\ RbFailed.pc = "failed" \/ (rb_ctl.k = 0 /\ RbFailed.pc = "send")
<1>1. "failed" \in RbPcs /\ "send" \in RbPcs /\ rb_ctl.tries - 1 \in Int
  BY RbCtlFields, SMTT(30) DEF RbPcs
<1>2. CASE RbFailed = [rb_ctl EXCEPT !.pc = "failed"]
  BY <1>1, <1>2, RbSetPc, Zenon
<1>3. CASE rb_ctl.k = 0 /\ RbFailed = [rb_ctl EXCEPT !.tries = rb_ctl.tries - 1, !.pc = "send"]
  BY <1>1, <1>3, Zenon DEF RbCtlType
<1> QED BY <1>2, <1>3, Zenon DEF RbFailed

(* After an answer the caller goes on to the next command, or to the links.  *)
LEMMA RbNextIs ==
  ASSUME rb_ctl \in RbCtlType, rb_ctl' = RbNextCommand
  PROVE  /\ rb_ctl' \in RbCtlType /\ rb_ctl'.k = rb_ctl.k + 1
         /\ rb_ctl'.pc = IF rb_ctl.k = 2 * RbN THEN "link" ELSE "send"
<1> DEFINE pc1 == IF rb_ctl.k = 2 * RbN THEN "link" ELSE "send"
           k1 == rb_ctl.k + 1
<1>1. pc1 \in RbPcs /\ k1 \in Nat
  BY RbCtlFields, SMTT(30) DEF RbPcs
<1>2. rb_ctl' = [rb_ctl EXCEPT !.k = k1, !.pc = pc1]
  BY Zenon DEF RbNextCommand
<1> HIDE DEF pc1, k1
<1>3. rb_ctl' \in RbCtlType /\ rb_ctl'.k = k1 /\ rb_ctl'.pc = pc1
  BY <1>1, <1>2, Zenon DEF RbCtlType
<1> QED BY <1>3, Zenon DEF pc1, k1

(* A caller that gives up leaves the rest alone.                             *)
LEMMA RbGiveUp ==
  ASSUME RbIInv, rb_ctl' \in RbCtlType, rb_ctl'.pc = "failed",
         rb_ctl.pc \in {"send", "poll", "link"}, rb_fifo' \in Seq([op : RbOps, ok : BOOLEAN]),
         UNCHANGED <<rb_pend, rb_work, rb_job, rb_tile, rb_dma, rb_done, rb_told>>, UNCHANGED rb_boot
  PROVE  RbIInv'
<1>1. RbShape'
  <2>1. RbTypeOK'
    BY Zenon DEF RbIInv, RbShape, RbTypeOK, rb_boot
  <2> QED BY <2>1, Zenon DEF RbIInv, RbShape
<1>2. RbLoaded'
  <2>1. \A q \in 1 .. RbProcs : rb_mem'[q] = 1 .. RbChunks
    BY Zenon DEF RbIInv, RbLoaded, rb_boot
  <2> QED BY <2>1, Zenon DEF RbLoaded
<1>3. RbWorking'
  BY Zenon DEF RbIInv, RbWorking
<1>4. RbCarried'
  <2>1. /\ RbUnderWay("D2D_START")' <=> RbUnderWay("D2D_START")
        /\ RbUnderWay("D2D_INIT")' <=> RbUnderWay("D2D_INIT")
        /\ RbAllFit' <=> RbAllFit
    BY Zenon DEF RbUnderWay, RbAllFit, RbFit
  <2>2. ~(rb_ctl'.pc \notin {"poll", "failed"}) /\ ~(rb_ctl'.pc = "poll")
    BY Zenon
  <2> QED BY <2>1, <2>2, Zenon DEF RbIInv, RbCarried
<1>5. RbReached'
  BY Zenon DEF RbReached
<1>6. RbRunsWhole' /\ RbAnswerTrue'
  BY Zenon DEF RbIInv, RbRunsWhole, RbAnswerTrue, rb_boot
<1> QED
  BY <1>1, <1>2, <1>3, <1>4, <1>5, <1>6, Zenon DEF RbIInv

(* A caller that has not given up and goes on with the next ping, command or *)
(* wait, while no INIT or START is under way.                                *)
LEMMA RbGoOn ==
  ASSUME RbIInv, rb_ctl' \in RbCtlType, rb_ctl'.pc \in {"send", "link", "up"},
         rb_ctl.pc \in {"send", "poll", "link"},
         ~RbUnderWay("D2D_INIT"), ~RbUnderWay("D2D_START"),
         rb_fifo' \in Seq([op : RbOps, ok : BOOLEAN]),
         \A i \in 1 .. Len(rb_fifo') : rb_fifo'[i].op = "PING",
         UNCHANGED <<rb_pend, rb_work, rb_job, rb_tile, rb_dma, rb_done>>, UNCHANGED rb_boot,
         rb_told'.op = "LINK" => rb_ctl'.pc \in {"link", "up"} /\ rb_told'.tile \in RbTile,
         RbReached', RbAnswerTrue'
  PROVE  RbIInv'
<1>1. RbShape'
  <2>1. RbTypeOK'
    BY Zenon DEF RbIInv, RbShape, RbTypeOK, rb_boot
  <2> QED BY <2>1, Zenon DEF RbIInv, RbShape
<1>2. RbLoaded'
  <2>1. \A q \in 1 .. RbProcs : rb_mem'[q] = 1 .. RbChunks
    BY Zenon DEF RbIInv, RbLoaded, rb_boot
  <2> QED BY <2>1, Zenon DEF RbLoaded
<1>3. RbWorking'
  BY Zenon DEF RbIInv, RbWorking
<1>4. RbCarried'
  <2>1. ~RbUnderWay("D2D_START")' /\ ~RbUnderWay("D2D_INIT")'
    BY Zenon DEF RbUnderWay
  <2>2. rb_ctl'.pc \notin {"poll", "failed"} /\ rb_ctl'.pc # "poll"
    BY Zenon
  <2> QED BY <2>1, <2>2, Zenon DEF RbIInv, RbCarried
<1>5. RbRunsWhole'
  BY Zenon DEF RbIInv, RbRunsWhole, rb_boot
<1> QED
  BY <1>1, <1>2, <1>3, <1>4, <1>5, Zenon DEF RbIInv

(* The caller writes its command to the controller, or fails to.             *)
LEMMA RbSendInv ==
  ASSUME RbPolicy = "stop", RbIInv, NEW ok \in BOOLEAN, RbSend(ok)
  PROVE  RbIInv'
<1>1. /\ rb_ctl.pc = "send"
      /\ UNCHANGED <<rb_job, rb_fifo, rb_tile, rb_dma, rb_done, rb_told>> /\ UNCHANGED rb_boot
  BY Zenon DEF RbSend
<1>2. /\ rb_ctl \in RbCtlType /\ rb_fifo \in Seq([op : RbOps, ok : BOOLEAN])
      /\ rb_ctl.k \in Nat /\ rb_ctl.k <= 2 * RbN
  BY <1>1, RbCtlFields, Zenon DEF RbIInv, RbShape, RbReached
<1>3. /\ ~RbUnderWay("D2D_INIT") /\ ~RbUnderWay("D2D_START") /\ rb_told.op # "LINK"
      /\ \A i \in 1 .. Len(rb_fifo) : rb_fifo[i].op = "PING"
  BY <1>1, Zenon DEF RbIInv, RbCarried
<1>4. CASE ~ok
  <2>1. rb_ctl' = RbFailed /\ UNCHANGED <<rb_pend, rb_work>>
    BY <1>4, Zenon DEF RbSend
  <2>2. /\ rb_ctl' \in RbCtlType /\ rb_ctl'.k = rb_ctl.k
        /\ rb_ctl'.pc = "failed" \/ (rb_ctl.k = 0 /\ rb_ctl'.pc = "send")
    BY <1>2, <2>1, RbFailedIs, Zenon
  <2>3. CASE rb_ctl'.pc = "failed"
    BY <1>1, <1>2, <2>1, <2>2, <2>3, RbGiveUp, Zenon
  <2>4. CASE rb_ctl.k = 0 /\ rb_ctl'.pc = "send"
    <3>1. RbReached' /\ RbAnswerTrue'
      BY <1>1, <2>2, <2>4, RbLength, SMTT(30) DEF RbReached, RbIInv, RbAnswerTrue
    <3> QED BY <1>1, <1>2, <1>3, <2>1, <2>2, <2>4, <3>1, RbGoOn, Zenon
  <2> QED BY <2>2, <2>3, <2>4, Zenon
<1>5. CASE ok
  <2>1. rb_ctl' = [rb_ctl EXCEPT !.pc = "poll"] /\ rb_pend' = RbCommand(rb_ctl.k) /\ rb_work' = TRUE
    BY <1>5, Zenon DEF RbSend, tt_grendel_i3c_write_received
  <2>2. rb_ctl' \in RbCtlType /\ rb_ctl'.pc = "poll" /\ rb_ctl'.k = rb_ctl.k
    <3>1. "poll" \in RbPcs
      BY Zenon DEF RbPcs
    <3> QED BY <1>2, <2>1, <3>1, RbSetPc, Zenon
  <2>3. /\ rb_pend' \in [op : RbOps, tile : Nat] /\ rb_pend'.op \in {"PING", "D2D_INIT", "D2D_START"}
        /\ rb_pend'.op = "D2D_START" => rb_ctl.k > RbN /\ \E i \in 1 .. RbN : rb_pend'.tile = RbAsk[i]
    BY <1>2, <2>1, RbCommandIs, Zenon
  <2>4. RbShape'
    <3>1. rb_ctl'.pc \in {"attach", "locate", "load", "boot", "send", "poll", "link", "up", "failed"}
      BY <2>2, Zenon
    <3>2. RbTypeOK'
      BY <1>1, <2>1, <3>1, Zenon DEF RbIInv, RbShape, RbTypeOK, rb_boot
    <3> QED BY <1>1, <2>2, <2>3, <3>2, Zenon DEF RbIInv, RbShape
  <2>5. RbLoaded'
    <3>1. \A q \in 1 .. RbProcs : rb_mem'[q] = 1 .. RbChunks
      BY <1>1, Zenon DEF RbIInv, RbLoaded, rb_boot
    <3> QED BY <2>2, <3>1, Zenon DEF RbLoaded
  <2>6. RbWorking'
    BY <1>1, Zenon DEF RbIInv, RbWorking
  <2>7. rb_ctl.k > RbN => RbAllFit
    BY <1>1, Zenon DEF RbIInv, RbReached
  <2>8. RbCarried'
    <3>1. rb_job.op \notin {"D2D_INIT", "D2D_START"}
      BY <1>3, Zenon DEF RbUnderWay
    <3>2. RbAllFit' <=> RbAllFit
      BY <1>1, Zenon DEF RbAllFit, RbFit
    <3>3. RbUnderWay("D2D_START")' => rb_pend'.op = "D2D_START"
      BY <1>1, <3>1, Zenon DEF RbUnderWay
    <3> QED BY <1>1, <1>3, <2>1, <2>2, <2>3, <2>7, <3>1, <3>2, <3>3, Zenon DEF RbCarried
  <2>9. RbReached'
    <3>1. \A t : RbFit(t)' <=> RbFit(t)
      BY <1>1, Zenon DEF RbFit
    <3>2. RbAllFit' <=> RbAllFit
      BY <3>1, Zenon DEF RbAllFit
    <3> QED BY <1>1, <1>2, <1>3, <2>2, <3>1, <3>2, Zenon DEF RbIInv, RbReached
  <2>10. RbRunsWhole' /\ RbAnswerTrue'
    BY <1>1, Zenon DEF RbIInv, RbRunsWhole, RbAnswerTrue, rb_boot
  <2> QED BY <2>4, <2>5, <2>6, <2>8, <2>9, <2>10, Zenon DEF RbIInv
<1> QED BY <1>4, <1>5, Zenon

(* No response came in time: the caller gives up, and the job goes on.       *)
LEMMA RbTimeoutInv ==
  ASSUME RbPolicy = "stop", RbIInv, RbTimeout
  PROVE  RbIInv'
<1>1. /\ rb_ctl.pc = "poll" /\ rb_ctl' = RbFailed /\ UNCHANGED rb_boot
      /\ UNCHANGED <<rb_pend, rb_work, rb_job, rb_fifo, rb_tile, rb_dma, rb_done, rb_told>>
  BY Zenon DEF RbTimeout, rb_remote
<1>2. /\ rb_ctl \in RbCtlType /\ rb_fifo \in Seq([op : RbOps, ok : BOOLEAN]) /\ rb_ctl.k \in Nat
  BY RbCtlFields, Zenon DEF RbIInv, RbShape
<1>3. /\ rb_ctl' \in RbCtlType /\ rb_ctl'.k = rb_ctl.k
      /\ rb_ctl'.pc = "failed" \/ (rb_ctl.k = 0 /\ rb_ctl'.pc = "send")
  BY <1>1, <1>2, RbFailedIs, Zenon
<1>4. CASE rb_ctl'.pc = "failed"
  BY <1>1, <1>2, <1>3, <1>4, RbGiveUp, Zenon
<1>5. CASE rb_ctl.k = 0 /\ rb_ctl'.pc = "send"
  <2>1. rb_pend.op = "PING"
    BY <1>1, <1>5, RbCommandIs, RbLength, SMTT(30) DEF RbIInv, RbCarried
  <2>2. /\ ~RbUnderWay("D2D_INIT") /\ ~RbUnderWay("D2D_START") /\ rb_told.op # "LINK"
        /\ \A i \in 1 .. Len(rb_fifo) : rb_fifo[i].op = "PING"
    BY <1>1, <2>1, Zenon DEF RbIInv, RbCarried, RbUnderWay
  <2>3. RbReached' /\ RbAnswerTrue'
    BY <1>1, <1>3, <1>5, RbLength, SMTT(30) DEF RbReached, RbIInv, RbAnswerTrue
  <2> QED BY <1>1, <1>2, <1>3, <1>5, <2>2, <2>3, RbGoOn, Zenon
<1> QED BY <1>3, <1>4, <1>5, Zenon

(* tt_grendel_i3c_read_response takes the oldest response: of an earlier     *)
(* ping, or of the command under way, which is the last one in the queue.    *)
LEMMA RbReadInv ==
  ASSUME RbPolicy = "stop", RbIInv, tt_grendel_i3c_read_response
  PROVE  RbIInv'
<1> DEFINE cmd == RbCommand(rb_ctl.k)
           resp == Head(rb_fifo)
<1>1. /\ rb_ctl.pc = "poll" /\ rb_fifo # <<>> /\ rb_fifo' = Tail(rb_fifo) /\ UNCHANGED rb_boot
      /\ UNCHANGED <<rb_pend, rb_work, rb_job, rb_tile, rb_dma, rb_done>>
      /\ \/ resp.op # cmd.op /\ UNCHANGED <<rb_ctl, rb_told>>
         \/ resp.op = cmd.op /\ resp.ok /\ rb_ctl' = RbNextCommand /\ rb_told' = cmd
         \/ rb_ctl' = RbFailed /\ UNCHANGED rb_told
  BY ZenonT(40) DEF tt_grendel_i3c_read_response
<1>2. /\ rb_ctl \in RbCtlType /\ rb_fifo \in Seq([op : RbOps, ok : BOOLEAN]) /\ rb_ctl.k \in Nat
      /\ rb_ctl.k <= 2 * RbN
  BY <1>1, RbCtlFields, Zenon DEF RbIInv, RbShape, RbReached
<1>3. /\ rb_fifo' \in Seq([op : RbOps, ok : BOOLEAN]) /\ Len(rb_fifo) \in Nat \ {0}
      /\ Len(rb_fifo') = Len(rb_fifo) - 1 /\ resp = rb_fifo[1]
      /\ \A i \in 1 .. Len(rb_fifo') : i + 1 \in 1 .. Len(rb_fifo) /\ rb_fifo'[i] = rb_fifo[i + 1]
  BY <1>1, <1>2, SMTT(30)
<1>4. /\ rb_pend = cmd
      /\ \A i \in 1 .. Len(rb_fifo) :
           rb_fifo[i].op # "PING" => /\ i = Len(rb_fifo) /\ rb_fifo[i].op = rb_pend.op
                                     /\ ~rb_work /\ rb_job.op = "none"
                                     /\ rb_fifo[i].ok => rb_pend \in rb_done
      /\ rb_told.op # "LINK"
  BY <1>1, Zenon DEF RbIInv, RbCarried
<1>5. /\ cmd.op \in {"PING", "D2D_INIT", "D2D_START"} /\ (cmd.op = "PING" <=> rb_ctl.k = 0)
      /\ cmd.op = "D2D_INIT" => rb_ctl.k \in 1 .. RbN /\ cmd.tile = RbAsk[rb_ctl.k]
      /\ cmd.op = "D2D_START" => /\ rb_ctl.k > RbN /\ rb_ctl.k - RbN \in 1 .. RbN
                                 /\ cmd.tile = RbAsk[rb_ctl.k - RbN]
  BY <1>2, RbCommandIs, Zenon
<1> HIDE DEF cmd, resp
<1>6. CASE rb_ctl' = RbFailed /\ UNCHANGED rb_told
  <2>3. /\ rb_ctl' \in RbCtlType /\ rb_ctl'.k = rb_ctl.k
        /\ rb_ctl'.pc = "failed" \/ (rb_ctl.k = 0 /\ rb_ctl'.pc = "send")
    BY <1>2, <1>6, RbFailedIs, Zenon
  <2>4. CASE rb_ctl'.pc = "failed"
    BY <1>1, <1>3, <1>6, <2>3, <2>4, RbGiveUp, Zenon
  <2>5. CASE rb_ctl.k = 0 /\ rb_ctl'.pc = "send"
    <3>2. /\ ~RbUnderWay("D2D_INIT") /\ ~RbUnderWay("D2D_START")
          /\ \A i \in 1 .. Len(rb_fifo') : rb_fifo'[i].op = "PING"
      BY <1>3, <1>4, <1>5, <2>5, SMTT(30) DEF RbIInv, RbCarried, RbUnderWay
    <3>3. RbReached' /\ RbAnswerTrue'
      BY <1>1, <1>6, <2>3, <2>5, RbLength, SMTT(30) DEF RbReached, RbIInv, RbAnswerTrue
    <3> QED BY <1>1, <1>3, <1>4, <1>6, <2>3, <2>5, <3>2, <3>3, RbGoOn, Zenon
  <2> QED BY <2>3, <2>4, <2>5, Zenon
<1>7. CASE resp.op = cmd.op /\ resp.ok /\ rb_ctl' = RbNextCommand /\ rb_told' = cmd
  <2>1. /\ rb_ctl' \in RbCtlType /\ rb_ctl'.k = rb_ctl.k + 1
        /\ rb_ctl'.pc = IF rb_ctl.k = 2 * RbN THEN "link" ELSE "send"
    BY <1>2, <1>7, RbNextIs, Zenon
  <2>2. /\ ~RbUnderWay("D2D_INIT") /\ ~RbUnderWay("D2D_START")
        /\ \A i \in 1 .. Len(rb_fifo') : rb_fifo'[i].op = "PING"
    <3>1. CASE cmd.op = "PING"
      BY <1>3, <1>4, <3>1, Zenon DEF RbIInv, RbCarried, RbUnderWay
    <3>2. CASE cmd.op # "PING"
      BY <1>3, <1>4, <1>7, <3>2, SMTT(30) DEF RbUnderWay
    <3> QED BY <3>1, <3>2, Zenon
  <2>0. 1 \in 1 .. Len(rb_fifo)
    BY <1>3, SMTT(30)
  <2>3. RbAnswerTrue'
    <3>1. cmd.op # "PING" => cmd \in rb_done
      BY <1>3, <1>4, <1>7, <2>0, Zenon
    <3>2. rb_told'.op # "LINK" /\ rb_told' = cmd /\ rb_done' = rb_done
      BY <1>1, <1>5, <1>7, Zenon
    <3> QED BY <3>1, <3>2, Zenon DEF RbAnswerTrue
  <2>6. /\ cmd.op = "D2D_INIT" => RbFit(cmd.tile)
        /\ cmd.op = "D2D_START" => rb_tile[cmd.tile].core
    <3>1. \A i \in 1 .. Len(rb_fifo) : rb_fifo[i].ok =>
             /\ rb_fifo[i].op = "D2D_INIT" => RbFit(rb_pend.tile)
             /\ rb_fifo[i].op = "D2D_START" => rb_tile[rb_pend.tile].core
      BY <1>1, Zenon DEF RbIInv, RbReached
    <3> QED BY <1>3, <1>4, <1>7, <2>0, <3>1, Zenon
  <2>4. RbReached'
    <3>0. \A t : RbFit(t)' <=> RbFit(t)
      BY <1>1, Zenon DEF RbFit
    <3>1. RbAllFit' <=> RbAllFit
      BY <3>0, Zenon DEF RbAllFit
    <3>2. CASE cmd.op = "PING"
      <4>1. rb_ctl'.k = 1 /\ rb_ctl'.pc = "send"
        BY <1>5, <2>1, <3>2, RbLength, SMTT(30)
      <4> QED BY <4>1, RbLength, SMTT(30) DEF RbReached
    <3>3. CASE cmd.op = "D2D_INIT"
      <4>1. RbFit(RbAsk[rb_ctl.k]) /\ rb_ctl.k \in 1 .. RbN
        BY <1>5, <2>6, <3>3, Zenon
      <4>2. \A i \in 1 .. RbN : i <= rb_ctl.k => RbFit(RbAsk[i])
        BY <1>1, <4>1, RbLength, SMTT(30) DEF RbIInv, RbReached
      <4>3. rb_ctl'.pc = "send" /\ rb_ctl'.k = rb_ctl.k + 1
        BY <2>1, <4>1, RbLength, SMTT(30)
      <4>4. rb_ctl'.k > RbN => RbAllFit
        BY <4>1, <4>2, <4>3, RbLength, SMTT(30) DEF RbAllFit
      <4> QED BY <3>0, <3>1, <4>1, <4>2, <4>3, <4>4, RbLength, SMTT(30) DEF RbReached
    <3>4. CASE cmd.op = "D2D_START"
      <4>1. /\ rb_tile[RbAsk[rb_ctl.k - RbN]].core /\ rb_ctl.k - RbN \in 1 .. RbN /\ rb_ctl.k > RbN
        BY <1>5, <2>6, <3>4, Zenon
      <4>2. RbAllFit /\ \A i \in 1 .. RbN : i < rb_ctl.k - RbN => rb_tile[RbAsk[i]].core
        BY <1>1, <4>1, Zenon DEF RbIInv, RbReached
      <4>3. \A i \in 1 .. RbN : i < rb_ctl'.k - RbN => rb_tile'[RbAsk[i]].core
        BY <1>1, <1>2, <2>1, <4>1, <4>2, RbLength, SMTT(30)
      <4>4. CASE rb_ctl.k = 2 * RbN
        <5>1. rb_ctl'.pc = "link" /\ rb_ctl'.k = 2 * RbN + 1
          BY <2>1, <4>4, Zenon
        <5>2. rb_ctl'.k > RbN /\ rb_ctl'.k <= 3 * RbN /\ rb_ctl'.k > 2 * RbN
          BY <5>1, RbLength, SMTT(30)
        <5> QED BY <3>1, <4>2, <4>3, <5>1, <5>2, Zenon DEF RbReached
      <4>5. CASE rb_ctl.k # 2 * RbN
        <5>1. rb_ctl'.pc = "send" /\ rb_ctl'.k = rb_ctl.k + 1
          BY <2>1, <4>5, Zenon
        <5>2. rb_ctl'.k > RbN /\ rb_ctl'.k <= 2 * RbN /\ ~(rb_ctl'.k <= RbN)
          BY <1>2, <4>1, <4>5, <5>1, RbLength, SMTT(30)
        <5> QED BY <3>1, <4>2, <4>3, <5>1, <5>2, Zenon DEF RbReached
      <4> QED BY <4>4, <4>5, Zenon
    <3> QED BY <1>5, <3>2, <3>3, <3>4, Zenon
  <2>5. rb_told'.op # "LINK" /\ rb_ctl'.pc \in {"send", "link", "up"}
    BY <1>5, <1>7, <2>1, Zenon
  <2> QED BY <1>1, <1>3, <2>1, <2>2, <2>3, <2>4, <2>5, RbGoOn, Zenon
<1>8. CASE resp.op # cmd.op /\ UNCHANGED <<rb_ctl, rb_told>>
  <2>1. resp.op = "PING"
    BY <1>3, <1>4, <1>8, SMTT(30)
  <2>2. RbShape'
    <3>1. RbTypeOK'
      BY <1>1, <1>8, Zenon DEF RbIInv, RbShape, RbTypeOK, rb_boot
    <3> QED BY <1>1, <1>3, <1>8, <3>1, Zenon DEF RbIInv, RbShape
  <2>3. RbLoaded' /\ RbRunsWhole' /\ RbAnswerTrue'
    BY <1>1, <1>8, Zenon DEF RbIInv, RbLoaded, RbRunsWhole, RbAnswerTrue, rb_boot
  <2>4. RbWorking'
    BY <1>1, Zenon DEF RbIInv, RbWorking
  <2>5. RbCarried'
    <3>1. /\ RbUnderWay("D2D_START")' <=> RbUnderWay("D2D_START")
          /\ RbUnderWay("D2D_INIT")' <=> RbUnderWay("D2D_INIT")
          /\ RbAllFit' <=> RbAllFit
      BY <1>1, Zenon DEF RbUnderWay, RbAllFit, RbFit
    <3>2. \A i \in 1 .. Len(rb_fifo') :
             rb_fifo'[i].op # "PING" => /\ i = Len(rb_fifo') /\ rb_fifo'[i].op = rb_pend.op
                                        /\ ~rb_work /\ rb_job.op = "none"
                                        /\ rb_fifo'[i].ok => rb_pend \in rb_done
      BY <1>3, <1>4, SMTT(30)
    <3> QED BY <1>1, <1>4, <1>8, <3>1, <3>2, Zenon DEF RbIInv, RbCarried, cmd
  <2>6. RbReached'
    <3>1. \A t : RbFit(t)' <=> RbFit(t)
      BY <1>1, Zenon DEF RbFit
    <3>2. RbAllFit' <=> RbAllFit
      BY <3>1, Zenon DEF RbAllFit
    <3> QED BY <1>1, <1>3, <1>8, <3>1, <3>2, SMTT(30) DEF RbIInv, RbReached
  <2> QED BY <2>2, <2>3, <2>4, <2>5, <2>6, Zenon DEF RbIInv
<1> QED BY <1>1, <1>6, <1>7, <1>8, Zenon

(* tt_d2d_wait_link finds a link trained by the firmware it started.         *)
LEMMA RbLinkInv ==
  ASSUME RbPolicy = "stop", RbIInv, tt_d2d_wait_link
  PROVE  RbIInv'
<1> DEFINE t == RbAsk[rb_ctl.k - 2 * RbN]
<1>1. /\ rb_ctl.pc = "link" /\ UNCHANGED rb_boot
      /\ UNCHANGED <<rb_pend, rb_work, rb_job, rb_fifo, rb_tile, rb_dma, rb_done>>
  BY Zenon DEF tt_d2d_wait_link, rb_remote
<1>2. /\ rb_ctl \in RbCtlType /\ rb_fifo \in Seq([op : RbOps, ok : BOOLEAN]) /\ rb_ctl.k \in Nat
      /\ rb_ctl.k - 2 * RbN \in 1 .. RbN
  BY <1>1, RbCtlFields, RbLength, SMTT(30) DEF RbIInv, RbShape, RbReached
<1>3. /\ ~RbUnderWay("D2D_INIT") /\ ~RbUnderWay("D2D_START")
      /\ \A i \in 1 .. Len(rb_fifo) : rb_fifo[i].op = "PING"
  BY <1>1, Zenon DEF RbIInv, RbCarried
<1>4. RbFit(t) /\ rb_tile[t].core /\ RbAllFit /\ \A i \in 1 .. RbN : rb_tile[RbAsk[i]].core
  <2>1. RbAllFit /\ \A i \in 1 .. RbN : i < rb_ctl.k - RbN => rb_tile[RbAsk[i]].core
    <3>1. rb_ctl.k > RbN
      BY <1>2, RbLength, SMTT(30)
    <3> QED BY <1>1, <3>1, Zenon DEF RbIInv, RbReached
  <2>2. \A i \in 1 .. RbN : i < rb_ctl.k - RbN
    BY <1>2, RbLength, SMTT(30)
  <2> QED BY <1>2, <2>1, <2>2, Zenon DEF RbAllFit
<1> HIDE DEF t
<1>5. CASE rb_ctl' = [rb_ctl EXCEPT !.pc = "failed"] /\ UNCHANGED rb_told
  <2>1. rb_ctl' \in RbCtlType /\ rb_ctl'.pc = "failed"
    <3>1. "failed" \in RbPcs
      BY Zenon DEF RbPcs
    <3> QED BY <1>2, <1>5, <3>1, RbSetPc, Zenon
  <2> QED BY <1>1, <1>2, <1>5, <2>1, RbGiveUp, Zenon
<1>6. CASE /\ rb_tile[t].code = "trained" /\ rb_told' = [op |-> "LINK", tile |-> t]
           /\ rb_ctl' = IF rb_ctl.k < 3 * RbN THEN [rb_ctl EXCEPT !.k = @ + 1] ELSE [rb_ctl EXCEPT !.pc = "up"]
  <2>1. /\ rb_ctl' \in RbCtlType
        /\ \/ rb_ctl.k < 3 * RbN /\ rb_ctl'.pc = "link" /\ rb_ctl'.k = rb_ctl.k + 1
           \/ rb_ctl'.pc = "up"
    <3>1. "up" \in RbPcs /\ rb_ctl.k + 1 \in Nat
      BY <1>2, SMTT(30) DEF RbPcs
    <3>2. CASE rb_ctl.k < 3 * RbN
      <4>1. rb_ctl' = [rb_ctl EXCEPT !.k = rb_ctl.k + 1]
        BY <1>6, <3>2, Zenon
      <4> QED BY <1>1, <1>2, <3>1, <3>2, <4>1, Zenon DEF RbCtlType
    <3>3. CASE ~(rb_ctl.k < 3 * RbN)
      <4>1. rb_ctl' = [rb_ctl EXCEPT !.pc = "up"]
        BY <1>6, <3>3, Zenon
      <4> QED BY <1>2, <3>1, <4>1, RbSetPc, Zenon
    <3> QED BY <3>2, <3>3, Zenon
  <2>2. rb_ctl'.pc \in {"send", "link", "up"} /\ rb_ctl'.pc \in {"link", "up"} /\ rb_told'.tile \in RbTile
    BY <1>4, <1>6, <2>1, Zenon DEF RbFit
  <2>3. RbAnswerTrue'
    <3>1. rb_told'.op = "LINK" /\ rb_told'.tile = t
      BY <1>6, Zenon
    <3>2. rb_tile'[t].fresh /\ rb_tile'[t].core
      BY <1>1, <1>4, <1>6, Zenon DEF RbFit
    <3> QED BY <3>1, <3>2, Zenon DEF RbAnswerTrue
  <2>4. RbReached'
    <3>1. RbAllFit' /\ \A i \in 1 .. RbN : rb_tile'[RbAsk[i]].core
      BY <1>1, <1>4, Zenon DEF RbAllFit, RbFit
    <3> QED BY <1>2, <2>1, <3>1, RbLength, SMTT(30) DEF RbReached
  <2> QED BY <1>1, <1>2, <1>3, <2>1, <2>2, <2>3, <2>4, RbGoOn, Zenon
<1> QED BY <1>5, <1>6, Zenon DEF tt_d2d_wait_link, t
=============================================================================
