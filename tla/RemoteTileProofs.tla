-------------------------- MODULE RemoteTileProofs --------------------------
(* TLAPS proofs about RemoteBoot, second half: the target's worker, the DMA  *)
(* engine and the tiles, and the theorems.                                   *)
EXTENDS RemoteBootProofs

(* The fields of a job and of a command.                                     *)
LEMMA RbFields ==
  /\ \A r \in RbJobType : r.pc \in RbJobPcs /\ r.op \in RbOps /\ r.tile \in Nat
  /\ \A r \in [op : RbOps, tile : Nat] : r = [op |-> r.op, tile |-> r.tile] /\ r.op \in RbOps /\ r.tile \in Nat
  BY SMTT(30) DEF RbJobType

(* A response is queued behind the others.                                   *)
LEMMA RbAppend ==
  ASSUME rb_fifo \in Seq([op : RbOps, ok : BOOLEAN]), NEW x \in [op : RbOps, ok : BOOLEAN],
         rb_fifo' = Append(rb_fifo, x)
  PROVE  /\ rb_fifo' \in Seq([op : RbOps, ok : BOOLEAN]) /\ Len(rb_fifo) \in Nat
         /\ Len(rb_fifo') = Len(rb_fifo) + 1 /\ rb_fifo'[Len(rb_fifo) + 1] = x
         /\ \A i \in 1 .. Len(rb_fifo) : rb_fifo'[i] = rb_fifo[i]
  BY SMTT(30)

(* The worker takes the queued command's opcode.                             *)
LEMMA RbEnterInv ==
  ASSUME RbIInv, RbEnter PROVE RbIInv'
<1>1. /\ rb_work /\ rb_job.pc = "idle" /\ rb_work' = FALSE
      /\ rb_job' = [pc |-> "fetch", op |-> rb_pend.op, tile |-> 0]
      /\ UNCHANGED <<rb_ctl, rb_pend, rb_fifo, rb_tile, rb_dma, rb_done, rb_told>> /\ UNCHANGED rb_boot
  BY Zenon DEF RbEnter
<1>2. rb_job.op = "none" /\ rb_pend.op # "none" /\ rb_pend.op \in RbOps
  BY <1>1, RbFields, Zenon DEF RbIInv, RbWorking, RbCarried, RbShape
<1>3. rb_job' \in RbJobType /\ rb_job'.pc = "fetch" /\ rb_job'.op = rb_pend.op
  BY <1>1, <1>2, Zenon DEF RbJobType, RbJobPcs
<1>4. RbShape'
  <2>1. RbTypeOK'
    BY <1>1, <1>3, Zenon DEF RbIInv, RbShape, RbTypeOK, rb_boot
  <2> QED BY <1>1, <1>3, <2>1, Zenon DEF RbIInv, RbShape
<1>5. RbLoaded' /\ RbRunsWhole' /\ RbAnswerTrue'
  BY <1>1, ZenonT(40) DEF RbIInv, RbLoaded, RbRunsWhole, RbAnswerTrue, rb_boot
<1>6. RbWorking'
  BY <1>1, <1>2, <1>3, Zenon DEF RbIInv, RbWorking
<1>7. \A t : RbFit(t)' <=> RbFit(t)
  BY <1>1, Zenon DEF RbFit
<1>8. RbAllFit' <=> RbAllFit
  BY <1>7, Zenon DEF RbAllFit
<1>9. RbCarried'
  <2>1. /\ RbUnderWay("D2D_START")' <=> RbUnderWay("D2D_START")
        /\ RbUnderWay("D2D_INIT")' <=> RbUnderWay("D2D_INIT")
    BY <1>1, <1>2, <1>3, Zenon DEF RbUnderWay
  <2>2. rb_ctl.pc = "poll" => \A i \in 1 .. Len(rb_fifo) : rb_fifo[i].op = "PING"
    BY <1>1, ZenonT(40) DEF RbIInv, RbCarried
  <2> QED BY <1>1, <1>2, <1>3, <1>8, <2>1, <2>2, Zenon DEF RbIInv, RbCarried
<1>10. RbReached'
  BY <1>1, <1>7, <1>8, Zenon DEF RbIInv, RbReached
<1> QED BY <1>4, <1>5, <1>6, <1>9, <1>10, Zenon DEF RbIInv

(* A step of a job on its tile that leaves the other tiles alone: it goes on,  *)
(* or ends with a response, a good one only when the tile is fit.            *)
RbMoved ==
  /\ rb_job.pc \notin {"idle", "fetch"} /\ RbTileStep /\ RbWorking'
  /\ rb_tile' \in [RbTile -> RbTileType] /\ rb_dma' \in [RbTile -> BOOLEAN]
  /\ \A u \in RbTile : u # rb_job.tile => rb_tile'[u] = rb_tile[u] /\ rb_dma'[u] = rb_dma[u]
  /\ (rb_tile'[rb_job.tile].core /\ rb_tile'[rb_job.tile].magic) =>
        rb_tile'[rb_job.tile].image = "firmware" /\ rb_tile'[rb_job.tile].parms = "set"
  /\ \/ /\ rb_job' \in RbJobType /\ rb_job'.op = "D2D_INIT" /\ rb_job'.tile = rb_job.tile
        /\ rb_job'.pc \notin {"idle", "fetch"} /\ UNCHANGED <<rb_fifo, rb_done>>
     \/ \E ok \in BOOLEAN :
          /\ rb_job' = RbNoJob
          /\ rb_fifo' \in {rb_fifo, Append(rb_fifo, [op |-> "D2D_INIT", ok |-> ok])}
          /\ rb_done \subseteq rb_done'
          /\ ok => /\ \A u : u = rb_job.tile => RbFit(u)'
                   /\ [op |-> "D2D_INIT", tile |-> rb_job.tile] \in rb_done'

(* What the controller and the caller know survives such a step.             *)
LEMMA RbJobKeeps == ASSUME RbIInv, RbMoved PROVE RbIInv'
<1> DEFINE t == rb_job.tile
<1>1. UNCHANGED <<rb_ctl, rb_pend, rb_work, rb_told>> /\ UNCHANGED rb_boot
  BY Zenon DEF RbMoved, RbTileStep
<1>2. /\ rb_job.op = "D2D_INIT" /\ t \in RbTile /\ ~rb_work /\ rb_pend.op = "D2D_INIT" /\ rb_pend.tile = t
      /\ rb_pend \in [op : RbOps, tile : Nat] /\ rb_fifo \in Seq([op : RbOps, ok : BOOLEAN])
      /\ rb_ctl \in RbCtlType
  BY Zenon DEF RbIInv, RbMoved, RbWorking, RbCarried, RbShape
<1>3. /\ rb_ctl.pc \in {"poll", "failed"} /\ rb_told.op # "LINK"
      /\ RbUnderWay("D2D_INIT") /\ ~RbUnderWay("D2D_START")
  <2>1. RbUnderWay("D2D_INIT") /\ ~RbUnderWay("D2D_START")
    BY <1>2, Zenon DEF RbUnderWay
  <2> QED BY <2>1, Zenon DEF RbIInv, RbCarried
<1>4. rb_ctl.pc = "poll" => /\ rb_pend = RbCommand(rb_ctl.k) /\ rb_ctl.k \in 1 .. RbN /\ t = RbAsk[rb_ctl.k]
                            /\ \A i \in 1 .. Len(rb_fifo) : rb_fifo[i].op = "PING"
  <2> SUFFICES ASSUME rb_ctl.pc = "poll"
               PROVE  /\ rb_pend = RbCommand(rb_ctl.k) /\ rb_ctl.k \in 1 .. RbN /\ t = RbAsk[rb_ctl.k]
                      /\ \A i \in 1 .. Len(rb_fifo) : rb_fifo[i].op = "PING"
    BY Zenon
  <2>1. rb_pend = RbCommand(rb_ctl.k) /\ rb_ctl.k \in Nat /\ rb_ctl.k <= 2 * RbN
    BY <1>2, RbCtlFields, Zenon DEF RbIInv, RbCarried, RbReached
  <2>2. \A i \in 1 .. Len(rb_fifo) : rb_fifo[i].op = "PING"
    BY <1>2, Zenon DEF RbIInv, RbCarried
  <2> QED BY <1>2, <2>1, <2>2, RbCommandIs, Zenon
<1>0. /\ RbWorking' /\ rb_tile' \in [RbTile -> RbTileType] /\ rb_dma' \in [RbTile -> BOOLEAN]
      /\ \A u \in RbTile : u # t => rb_tile'[u] = rb_tile[u] /\ rb_dma'[u] = rb_dma[u]
      /\ (rb_tile'[t].core /\ rb_tile'[t].magic) => rb_tile'[t].image = "firmware" /\ rb_tile'[t].parms = "set"
  BY Zenon DEF RbMoved
<1> HIDE DEF t
<1>5. \A u : u # t => (RbFit(u)' <=> RbFit(u))
  BY <1>0, ZenonT(40) DEF RbFit
<1>6. \A i \in 1 .. RbN : i < rb_ctl.k /\ rb_ctl.pc = "poll" => RbFit(RbAsk[i])' \/ RbAsk[i] = RbAsk[rb_ctl.k]
  BY <1>4, <1>5, SMTT(30) DEF RbIInv, RbReached
<1>7. RbLoaded'
  BY <1>1, Zenon DEF RbIInv, RbLoaded, rb_boot
<1>8. RbRunsWhole'
  <2>1. rb_live' # {} => \A p \in 1 .. RbProcs : rb_mem'[p] = 1 .. RbChunks
    BY <1>1, Zenon DEF RbIInv, RbRunsWhole, rb_boot
  <2>2. \A u \in RbTile : (rb_tile'[u].core /\ rb_tile'[u].magic) =>
           rb_tile'[u].image = "firmware" /\ rb_tile'[u].parms = "set"
    BY <1>0, ZenonT(40) DEF RbIInv, RbRunsWhole
  <2> QED BY <2>1, <2>2, Zenon DEF RbRunsWhole
<1>9. CASE /\ rb_job' \in RbJobType /\ rb_job'.op = "D2D_INIT" /\ rb_job'.tile = t
           /\ rb_job'.pc \notin {"idle", "fetch"} /\ UNCHANGED <<rb_fifo, rb_done>>
  <2>1. RbShape'
    <3>1. rb_job'.pc \in RbJobPcs
      BY <1>9, RbFields, Zenon
    <3>2. RbTypeOK'
      BY <1>0, <1>1, <1>9, <3>1, Zenon DEF RbIInv, RbShape, RbTypeOK, rb_boot, RbJobPcs
    <3> QED BY <1>0, <1>1, <1>9, <3>2, Zenon DEF RbIInv, RbShape
  <2>2. RbAnswerTrue'
    BY <1>1, <1>3, <1>9, Zenon DEF RbIInv, RbAnswerTrue
  <2>3. RbCarried'
    <3>1. RbUnderWay("D2D_INIT")' /\ ~RbUnderWay("D2D_START")'
      BY <1>1, <1>2, <1>9, Zenon DEF RbUnderWay
    <3>2. rb_ctl'.pc = "poll" => \A i \in 1 .. Len(rb_fifo') : rb_fifo'[i].op = "PING"
      BY <1>1, <1>4, <1>9, Zenon
    <3> QED BY <1>1, <1>2, <1>3, <1>4, <1>9, <3>1, <3>2, Zenon DEF RbCarried
  <2>4. RbReached'
    <3>1. rb_ctl'.pc = "poll" => /\ rb_ctl'.k \in 1 .. RbN
                                 /\ \A i \in 1 .. Len(rb_fifo') : rb_fifo'[i].op = "PING"
      BY <1>1, <1>4, <1>9, Zenon
    <3>2. rb_ctl.pc = "poll" => rb_ctl.k <= 2 * RbN /\ ~(rb_ctl.k > RbN)
      BY <1>4, RbLength, SMTT(30)
    <3> QED BY <1>1, <1>3, <1>6, <3>1, <3>2, Zenon DEF RbReached
  <2> QED BY <1>0, <1>7, <1>8, <2>1, <2>2, <2>3, <2>4, Zenon DEF RbIInv
<1>10. ASSUME NEW ok \in BOOLEAN, rb_job' = RbNoJob,
              rb_fifo' \in {rb_fifo, Append(rb_fifo, [op |-> "D2D_INIT", ok |-> ok])},
              rb_done \subseteq rb_done',
              ok => (\A u : u = t => RbFit(u)') /\ [op |-> "D2D_INIT", tile |-> t] \in rb_done'
       PROVE  RbIInv'
  <2> DEFINE x == [op |-> "D2D_INIT", ok |-> ok]
  <2>0. x \in [op : RbOps, ok : BOOLEAN] /\ x.op = "D2D_INIT" /\ (x.ok <=> ok)
    BY Zenon DEF RbOps
  <2> HIDE DEF x
  <2>1. /\ rb_fifo' \in Seq([op : RbOps, ok : BOOLEAN])
        /\ rb_ctl.pc = "poll" => \A i \in 1 .. Len(rb_fifo') :
              rb_fifo'[i].op = "PING" \/ (i = Len(rb_fifo') /\ rb_fifo'[i] = x)
    <3>1. CASE rb_fifo' = rb_fifo
      BY <1>2, <1>4, <3>1, Zenon
    <3>2. CASE rb_fifo' = Append(rb_fifo, x)
      <4>1. /\ rb_fifo' \in Seq([op : RbOps, ok : BOOLEAN]) /\ Len(rb_fifo) \in Nat
            /\ Len(rb_fifo') = Len(rb_fifo) + 1 /\ rb_fifo'[Len(rb_fifo) + 1] = x
            /\ \A i \in 1 .. Len(rb_fifo) : rb_fifo'[i] = rb_fifo[i]
        BY <1>2, <2>0, <3>2, RbAppend, Zenon
      <4> QED BY <1>4, <4>1, SMTT(30)
    <3> QED BY <1>10, <3>1, <3>2, Zenon DEF x
  <2>2. rb_job' \in RbJobType /\ rb_job'.op = "none" /\ rb_job'.pc = "idle"
    BY <1>10, Zenon DEF RbNoJob, RbJobType, RbJobPcs, RbOps
  <2>3. RbShape'
    <3>1. RbTypeOK'
      BY <1>0, <1>1, <2>2, Zenon DEF RbIInv, RbShape, RbTypeOK, rb_boot
    <3> QED BY <1>0, <1>1, <2>1, <2>2, <3>1, Zenon DEF RbIInv, RbShape
  <2>4. RbAnswerTrue'
    <3>1. rb_told.op \in {"D2D_INIT", "D2D_START"} => rb_told \in rb_done
      BY Zenon DEF RbIInv, RbAnswerTrue
    <3> QED BY <1>1, <1>3, <1>10, <3>1, Zenon DEF RbAnswerTrue
  <2>5. ok => rb_pend \in rb_done'
    BY <1>2, <1>10, RbFields, Zenon
  <2>6. RbCarried'
    <3>1. ~RbUnderWay("D2D_INIT")' /\ ~RbUnderWay("D2D_START")'
      BY <1>1, <1>2, <2>2, Zenon DEF RbUnderWay
    <3>2. rb_ctl'.pc = "poll" => \A i \in 1 .. Len(rb_fifo') :
            rb_fifo'[i].op # "PING" => /\ i = Len(rb_fifo') /\ rb_fifo'[i].op = rb_pend'.op
                                       /\ ~rb_work' /\ rb_job'.op = "none"
                                       /\ rb_fifo'[i].ok => rb_pend' \in rb_done'
      BY <1>1, <1>2, <2>0, <2>1, <2>2, <2>5, Zenon
    <3>3. rb_ctl'.pc = "poll" => rb_pend' = RbCommand(rb_ctl'.k)
      BY <1>1, <1>4, Zenon
    <3> QED BY <1>1, <1>2, <1>3, <2>2, <3>1, <3>2, <3>3, Zenon DEF RbCarried
  <2>7. RbReached'
    <3>1. rb_ctl'.pc = "poll" => rb_ctl'.k \in 1 .. RbN
      BY <1>1, <1>4, Zenon
    <3>2. rb_ctl'.pc = "poll" => \A i \in 1 .. Len(rb_fifo') : rb_fifo'[i].ok =>
             /\ rb_fifo'[i].op = "D2D_INIT" => RbFit(rb_pend.tile)'
             /\ rb_fifo'[i].op # "D2D_START"
      <4>1. ok => RbFit(rb_pend.tile)'
        <5>1. PICK u : u = t
          BY Zenon
        <5>2. rb_pend'.tile = u
          BY <1>1, <1>2, <5>1, Zenon
        <5>3. ok => RbFit(u)'
          BY <1>10, <5>1, Zenon
        <5> QED BY <5>2, <5>3, Zenon DEF RbFit
      <4> QED BY <1>1, <2>0, <2>1, <4>1, Zenon
    <3> QED BY <1>1, <1>3, <1>6, <3>1, <3>2, RbLength, SMTT(30) DEF RbReached
  <2> QED BY <1>0, <1>7, <1>8, <2>3, <2>4, <2>6, <2>7, Zenon DEF RbIInv
<1> QED
  BY <1>9, <1>10, Zenon DEF RbMoved, t

(* What a response leaves.                                                   *)
LEMMA RbRespondIs ==
  ASSUME NEW ok \in BOOLEAN, NEW kept \in BOOLEAN, RbRespond(rb_job, ok, kept), rb_job.op = "D2D_INIT"
  PROVE  /\ rb_job' = RbNoJob /\ rb_fifo' \in {rb_fifo, Append(rb_fifo, [op |-> "D2D_INIT", ok |-> ok])}
         /\ rb_done \subseteq rb_done'
         /\ ok => [op |-> "D2D_INIT", tile |-> rb_job.tile] \in rb_done'
  BY Zenon DEF RbRespond

(* A job goes on with its next step.                                         *)
LEMMA RbGoIs ==
  ASSUME rb_job \in RbJobType, NEW pc \in RbJobPcs, RbGo(pc)
  PROVE  /\ rb_job' \in RbJobType /\ rb_job'.pc = pc /\ rb_job'.op = rb_job.op /\ rb_job'.tile = rb_job.tile
         /\ UNCHANGED <<rb_fifo, rb_done>>
<1>1. rb_job' = [rb_job EXCEPT !.pc = pc] /\ UNCHANGED <<rb_fifo, rb_done>>
  BY Zenon DEF RbGo, RbQuiet
<1>2. LET r == [rb_job EXCEPT !.pc = pc]
      IN  r \in RbJobType /\ r.pc = pc /\ r.op = rb_job.op /\ r.tile = rb_job.tile
  BY Zenon DEF RbJobType
<1> QED BY <1>1, <1>2, Zenon

(* A step of a job that leaves the tile alone fails or goes on.              *)
LEMMA RbSetTile ==
  ASSUME rb_tile \in [RbTile -> RbTileType], NEW t \in RbTile, NEW x \in RbTileType,
         rb_tile' = [rb_tile EXCEPT ![t] = x]
  PROVE  /\ rb_tile' \in [RbTile -> RbTileType] /\ rb_tile'[t] = x
         /\ \A u \in RbTile : u # t => rb_tile'[u] = rb_tile[u]
  BY Zenon

(* What each write does to a tile's SRAM and control registers.              *)
LEMMA RbTileFields == \A x \in RbTileType :
  /\ x.core \in BOOLEAN /\ x.straps \in BOOLEAN /\ x.magic \in BOOLEAN /\ x.fresh \in BOOLEAN
  /\ x.image \in {"junk", "zero", "firmware"} /\ x.parms \in {"junk", "zero", "set"}
  /\ x.code \in {"zero", "trained", "gaveup"}
  BY Zenon DEF RbTileType

(* A tile's record with another reset of its core,                           *)
LEMMA RbTileCore == \A x \in RbTileType : \A v \in BOOLEAN :
  LET y == [x EXCEPT !.core = v] IN
  y \in RbTileType /\ y.core = v /\ y.image = x.image /\ y.parms = x.parms /\ y.magic = x.magic
  /\ y.code = x.code /\ y.fresh = x.fresh
  BY ZenonT(40) DEF RbTileType

(* with other straps,                                                        *)
LEMMA RbTileStraps == \A x \in RbTileType : \A v \in BOOLEAN :
  LET y == [x EXCEPT !.straps = v] IN
  y \in RbTileType /\ y.core = x.core /\ y.image = x.image /\ y.parms = x.parms /\ y.magic = x.magic
  /\ y.code = x.code /\ y.fresh = x.fresh
  BY ZenonT(40) DEF RbTileType

(* with another image,                                                       *)
LEMMA RbTileImage == \A x \in RbTileType : \A v \in {"junk", "zero", "firmware"} :
  LET y == [x EXCEPT !.image = v] IN
  y \in RbTileType /\ y.core = x.core /\ y.image = v /\ y.parms = x.parms /\ y.magic = x.magic
  /\ y.code = x.code /\ y.fresh = x.fresh
  BY ZenonT(40) DEF RbTileType

(* with another table of parameters,                                         *)
LEMMA RbTileParms == \A x \in RbTileType : \A v \in {"junk", "zero", "set"} :
  LET y == [x EXCEPT !.parms = v] IN
  y \in RbTileType /\ y.core = x.core /\ y.image = x.image /\ y.parms = v /\ y.magic = x.magic
  /\ y.code = x.code /\ y.fresh = x.fresh
  BY ZenonT(40) DEF RbTileType

(* with another magic word,                                                  *)
LEMMA RbTileMagic == \A x \in RbTileType : \A v \in BOOLEAN :
  LET y == [x EXCEPT !.magic = v] IN
  y \in RbTileType /\ y.core = x.core /\ y.image = x.image /\ y.parms = x.parms /\ y.magic = v
  /\ y.code = x.code /\ y.fresh = x.fresh
  BY ZenonT(40) DEF RbTileType

(* and cleared.                                                              *)
LEMMA RbTileCleared == \A x \in RbTileType :
  LET y == RbCleared(x) IN
  y \in RbTileType /\ y.core = x.core /\ y.magic = FALSE /\ y.code = "zero"
  BY Zenon DEF RbTileType, RbCleared

(* A job that fails answers so and leaves its tile as it is.                 *)
LEMMA RbFailInv ==
  ASSUME RbIInv, rb_job.pc \notin {"idle", "fetch"}, RbTileStep, NEW kept \in BOOLEAN, RbFail(kept),
         UNCHANGED <<rb_tile, rb_dma>>
  PROVE  RbIInv'
<1>1. /\ rb_job.op = "D2D_INIT" /\ rb_tile \in [RbTile -> RbTileType] /\ rb_dma \in [RbTile -> BOOLEAN]
      /\ rb_job.tile \in RbTile
  BY Zenon DEF RbIInv, RbWorking, RbShape, RbTypeOK
<1>2. /\ rb_job' = RbNoJob /\ rb_fifo' \in {rb_fifo, Append(rb_fifo, [op |-> "D2D_INIT", ok |-> FALSE])}
      /\ rb_done \subseteq rb_done'
  BY <1>1, RbRespondIs, ZenonT(40) DEF RbFail
<1>3. RbWorking'
  <2>1. rb_job'.pc = "idle" /\ rb_job'.op = "none"
    BY <1>2, Zenon DEF RbNoJob
  <2> QED BY <2>1, Zenon DEF RbIInv, RbWorking
<1>4. (rb_tile'[rb_job.tile].core /\ rb_tile'[rb_job.tile].magic) =>
            rb_tile'[rb_job.tile].image = "firmware" /\ rb_tile'[rb_job.tile].parms = "set"
  BY <1>1, Zenon DEF RbIInv, RbRunsWhole
<1> QED BY <1>1, <1>2, <1>3, <1>4, RbJobKeeps, Zenon DEF RbMoved

(* A step of a job that writes x over its tile, or fails, and goes on at pc. *)
LEMMA RbWriteInv ==
  ASSUME RbIInv, rb_job.pc \notin {"idle", "fetch"}, RbTileStep,
         NEW kept \in BOOLEAN, NEW pc \in RbJobPcs, pc \notin {"idle", "fetch"},
         RbFail(kept) \/ RbGo(pc), NEW x \in RbTileType, NEW d \in BOOLEAN,
         rb_tile' = [rb_tile EXCEPT ![rb_job.tile] = x],
         rb_dma' = [rb_dma EXCEPT ![rb_job.tile] = d],
         ~x.core \/ (pc = "hold" /\ x = rb_tile[rb_job.tile] /\ d = rb_dma[rb_job.tile]),
         RbGo(pc) => /\ pc \in {"copy", "verify", "config", "magic"} => ~x.magic /\ x.code = "zero" /\ ~d
                     /\ pc \in {"config", "magic"} => x.image = "firmware"
                     /\ pc = "magic" => x.parms = "set"
  PROVE  RbIInv'
<1> DEFINE t == rb_job.tile
<1>1. /\ rb_job.op = "D2D_INIT" /\ rb_tile \in [RbTile -> RbTileType] /\ rb_dma \in [RbTile -> BOOLEAN]
      /\ t \in RbTile /\ rb_job \in RbJobType
  BY Zenon DEF RbIInv, RbWorking, RbShape, RbTypeOK
<1>2. /\ rb_tile' \in [RbTile -> RbTileType] /\ rb_tile'[t] = x
      /\ \A u \in RbTile : u # t => rb_tile'[u] = rb_tile[u]
  BY <1>1, RbSetTile, Zenon
<1>3. /\ rb_dma' \in [RbTile -> BOOLEAN] /\ rb_dma'[t] = d
      /\ \A u \in RbTile : u # t => rb_dma'[u] = rb_dma[u]
  BY <1>1, Zenon
<1> HIDE DEF t
<1>4. (x.core /\ x.magic) => x.image = "firmware" /\ x.parms = "set"
  BY <1>1, Zenon DEF RbIInv, RbRunsWhole, t
<1>5. \A u \in RbTile : rb_dma'[u] => ~rb_tile'[u].core
  <2>1. \A u \in RbTile : rb_dma[u] => ~rb_tile[u].core
    BY Zenon DEF RbIInv, RbWorking
  <2>2. d => ~x.core
    BY <1>1, <2>1, Zenon DEF t
  <2> QED BY <1>2, <1>3, <2>1, <2>2, Zenon
<1>6. CASE RbFail(kept)
  <2>1. /\ rb_job' = RbNoJob /\ rb_fifo' \in {rb_fifo, Append(rb_fifo, [op |-> "D2D_INIT", ok |-> FALSE])}
        /\ rb_done \subseteq rb_done'
    BY <1>1, <1>6, RbRespondIs, ZenonT(40) DEF RbFail
  <2>2. rb_job'.pc = "idle" /\ rb_job'.op = "none"
    BY <2>1, Zenon DEF RbNoJob
  <2>3. RbWorking'
    BY <1>5, <2>2, Zenon DEF RbWorking
  <2> QED BY <1>2, <1>3, <1>4, <2>1, <2>3, RbJobKeeps, ZenonT(40) DEF t, RbMoved
<1>7. CASE RbGo(pc)
  <2>1. /\ rb_job' \in RbJobType /\ rb_job'.pc = pc /\ rb_job'.op = "D2D_INIT" /\ rb_job'.tile = t
        /\ UNCHANGED <<rb_fifo, rb_done>>
    BY <1>1, <1>7, RbGoIs, Zenon DEF t
  <2>2. RbWorking'
    <3>1. pc \in {"probe", "clear", "copy", "verify", "config", "magic"} => ~x.core
      BY Zenon
    <3>2. /\ pc \in {"copy", "verify", "config", "magic"} => ~x.magic /\ x.code = "zero" /\ ~d
          /\ pc \in {"config", "magic"} => x.image = "firmware"
          /\ pc = "magic" => x.parms = "set"
      BY <1>7, Zenon
    <3> QED BY <1>1, <1>2, <1>3, <1>5, <2>1, <3>1, <3>2, Zenon DEF RbWorking
  <2> QED BY <1>2, <1>3, <1>4, <2>1, <2>2, RbJobKeeps, Zenon DEF t, RbMoved
<1> QED BY <1>6, <1>7, Zenon

(* The facts a job's step starts from.                                       *)
LEMMA RbJobHas ==
  ASSUME RbIInv, rb_job.pc \notin {"idle", "fetch"}
  PROVE  /\ rb_job.op = "D2D_INIT" /\ rb_job.tile \in RbTile /\ rb_job \in RbJobType
         /\ rb_tile \in [RbTile -> RbTileType] /\ rb_tile[rb_job.tile] \in RbTileType
         /\ rb_dma \in [RbTile -> BOOLEAN] /\ rb_dma[rb_job.tile] \in BOOLEAN
         /\ rb_tile = [rb_tile EXCEPT ![rb_job.tile] = rb_tile[rb_job.tile]]
         /\ rb_dma = [rb_dma EXCEPT ![rb_job.tile] = rb_dma[rb_job.tile]]
<1>1. /\ rb_job.op = "D2D_INIT" /\ rb_job.tile \in RbTile /\ rb_job \in RbJobType
      /\ rb_tile \in [RbTile -> RbTileType] /\ rb_dma \in [RbTile -> BOOLEAN]
  BY Zenon DEF RbIInv, RbWorking, RbShape, RbTypeOK
<1> QED BY <1>1, Zenon

(* The job checks the size of the staged image.                              *)
LEMMA RbSizeInv ==
  ASSUME RbIInv, NEW size, NEW kept \in BOOLEAN, RbSize(size, kept) PROVE RbIInv'
<1>1. rb_job.pc = "size" /\ RbTileStep /\ UNCHANGED <<rb_tile, rb_dma>> /\ (RbGo("hold") \/ RbFail(kept))
  BY Zenon DEF RbSize
<1>2. rb_job.pc \notin {"idle", "fetch"} /\ "hold" \in RbJobPcs
  BY <1>1, Zenon DEF RbJobPcs
<1>3. CASE RbFail(kept)
  BY <1>1, <1>2, <1>3, RbFailInv, Zenon
<1>4. CASE RbGo("hold")
  <2> DEFINE x == rb_tile[rb_job.tile]
             d == rb_dma[rb_job.tile]
  <2>1. /\ x \in RbTileType /\ d \in BOOLEAN
        /\ rb_tile' = [rb_tile EXCEPT ![rb_job.tile] = x] /\ rb_dma' = [rb_dma EXCEPT ![rb_job.tile] = d]
    BY <1>1, <1>2, RbJobHas, Zenon
  <2> QED BY <1>1, <1>2, <1>4, <2>1, RbWriteInv, Zenon
<1> QED BY <1>1, <1>3, <1>4, Zenon

(* tt_d2d_cpu_ctrl holds the core in reset.                                  *)
LEMMA RbHoldInv ==
  ASSUME RbIInv, NEW up \in BOOLEAN, NEW kept \in BOOLEAN, tt_d2d_cpu_ctrl(up, kept) PROVE RbIInv'
<1>1. /\ rb_job.pc = "hold" /\ RbTileStep /\ UNCHANGED rb_dma /\ (RbGo("probe") \/ RbFail(kept))
      /\ rb_tile' = [rb_tile EXCEPT ![rb_job.tile].core = FALSE]
  BY Zenon DEF tt_d2d_cpu_ctrl
<1>2. rb_job.pc \notin {"idle", "fetch"} /\ "probe" \in RbJobPcs
  BY <1>1, Zenon DEF RbJobPcs
<1> DEFINE x == [rb_tile[rb_job.tile] EXCEPT !.core = FALSE]
           d == rb_dma[rb_job.tile]
<1>3. x \in RbTileType /\ x.core = FALSE
  BY <1>2, RbJobHas, RbTileCore, Zenon
<1>4. d \in BOOLEAN /\ rb_tile' = [rb_tile EXCEPT ![rb_job.tile] = x] /\ rb_dma' = [rb_dma EXCEPT ![rb_job.tile] = d]
  BY <1>1, <1>2, RbJobHas, Zenon
<1> HIDE DEF x
<1> QED BY <1>1, <1>2, <1>3, <1>4, RbWriteInv, ZenonT(40)

(* The job probes the tile's memory.                                         *)
LEMMA RbProbeInv ==
  ASSUME RbIInv, NEW answers \in BOOLEAN, NEW kept \in BOOLEAN, RbProbe(answers, kept) PROVE RbIInv'
<1>1. /\ rb_job.pc = "probe" /\ RbTileStep /\ UNCHANGED rb_dma
      /\ \/ RbFail(kept) /\ rb_tile' = rb_tile
         \/ RbGo("clear") /\ rb_tile' = [rb_tile EXCEPT ![rb_job.tile].image = "junk"]
  BY Zenon DEF RbProbe
<1>2. rb_job.pc \notin {"idle", "fetch"} /\ "clear" \in RbJobPcs
  BY <1>1, Zenon DEF RbJobPcs
<1>3. CASE RbFail(kept) /\ rb_tile' = rb_tile
  BY <1>1, <1>2, <1>3, RbFailInv, Zenon
<1>4. CASE RbGo("clear") /\ rb_tile' = [rb_tile EXCEPT ![rb_job.tile].image = "junk"]
  <2> DEFINE x == [rb_tile[rb_job.tile] EXCEPT !.image = "junk"]
             d == rb_dma[rb_job.tile]
  <2>1. x \in RbTileType /\ x.core = rb_tile[rb_job.tile].core
    <3>1. "junk" \in {"junk", "zero", "firmware"}
      BY Zenon
    <3> QED BY <1>2, <3>1, RbJobHas, RbTileImage, Zenon
  <2>2. ~x.core
    BY <1>1, <2>1, Zenon DEF RbIInv, RbWorking
  <2>3. d \in BOOLEAN /\ rb_tile' = [rb_tile EXCEPT ![rb_job.tile] = x] /\ rb_dma' = [rb_dma EXCEPT ![rb_job.tile] = d]
    BY <1>1, <1>2, <1>4, RbJobHas, Zenon
  <2> HIDE DEF x
  <2> QED BY <1>1, <1>2, <1>4, <2>1, <2>2, <2>3, RbWriteInv, ZenonT(40)
<1> QED BY <1>1, <1>3, <1>4, Zenon

(* A transfer that is done writes what it is to write and is the last one of *)
(* the engine; one that is refused or late writes nothing yet.               *)
LEMMA RbDmaInv ==
  ASSUME RbIInv, NEW kept \in BOOLEAN, NEW outcome \in {"done", "refused", "timeout"}, NEW new \in RbTileType,
         NEW next \in {"copy", "verify"}, rb_job.pc \in {"clear", "copy"}, RbTileStep,
         ~new.core, ~new.magic, new.code = "zero", tt_d2d_dma_run(outcome, new, next, kept)
  PROVE  RbIInv'
<1>1. rb_job.pc \notin {"idle", "fetch"} /\ next \in RbJobPcs /\ next \notin {"idle", "fetch"}
  BY Zenon DEF RbJobPcs
<1>2. CASE outcome = "done"
  <2>1. /\ RbGo(next) /\ rb_tile' = [rb_tile EXCEPT ![rb_job.tile] = new]
        /\ rb_dma' = [rb_dma EXCEPT ![rb_job.tile] = FALSE]
    BY <1>2, Zenon DEF tt_d2d_dma_run, dma_grendel_start
  <2> QED BY <1>1, <2>1, RbWriteInv, Zenon
<1>3. CASE outcome # "done"
  <2> DEFINE x == rb_tile[rb_job.tile]
  <2>1. /\ RbFail(kept) /\ rb_tile' = rb_tile
        /\ rb_dma' = rb_dma \/ rb_dma' = [rb_dma EXCEPT ![rb_job.tile] = TRUE]
    BY <1>3, Zenon DEF tt_d2d_dma_run, dma_grendel_start
  <2>2. CASE rb_dma' = rb_dma
    BY <1>1, <2>1, <2>2, RbFailInv, Zenon
  <2>3. CASE rb_dma' = [rb_dma EXCEPT ![rb_job.tile] = TRUE]
    <3>1. /\ x \in RbTileType /\ rb_tile' = [rb_tile EXCEPT ![rb_job.tile] = x]
      BY <1>1, <2>1, RbJobHas, Zenon
    <3>2. ~x.core
      BY Zenon DEF RbIInv, RbWorking
    <3>3. RbFail(kept) \/ RbGo("probe")
      BY <2>1, Zenon
    <3>4. "probe" \in RbJobPcs
      BY Zenon DEF RbJobPcs
    <3> HIDE DEF x
    <3> QED BY <1>1, <2>3, <3>1, <3>2, <3>3, <3>4, RbWriteInv, Zenon
  <2> QED BY <2>1, <2>2, <2>3, Zenon
<1> QED BY <1>2, <1>3, Zenon

(* tt_d2d_clear_sram clears the magic word, the code and the image; a        *)
(* transfer that times out may still do so later.                            *)
LEMMA RbClearInv ==
  ASSUME RbIInv, NEW outcome \in {"done", "refused", "timeout"}, NEW kept \in BOOLEAN,
         tt_d2d_clear_sram(outcome, kept)
  PROVE  RbIInv'
<1> DEFINE new == RbCleared(rb_tile[rb_job.tile])
<1>1. rb_job.pc = "clear" /\ RbTileStep /\ tt_d2d_dma_run(outcome, new, "copy", kept)
  BY Zenon DEF tt_d2d_clear_sram
<1>2. rb_job.pc \notin {"idle", "fetch"}
  BY <1>1, Zenon
<1>3. new \in RbTileType /\ new.core = rb_tile[rb_job.tile].core /\ new.magic = FALSE /\ new.code = "zero"
  <2>1. rb_tile[rb_job.tile] \in RbTileType
    BY <1>2, RbJobHas, Zenon
  <2> QED BY <2>1, RbTileCleared, Zenon
<1>4. ~rb_tile[rb_job.tile].core
  BY <1>1, Zenon DEF RbIInv, RbWorking
<1> HIDE DEF new
<1> QED BY <1>1, <1>3, <1>4, RbDmaInv, Zenon

(* tt_d2d_copy_image copies the image to a tile whose magic word is cleared. *)
LEMMA RbCopyInv ==
  ASSUME RbIInv, NEW outcome \in {"done", "refused", "timeout"}, NEW image \in {"firmware", "junk"},
         NEW kept \in BOOLEAN, tt_d2d_copy_image(outcome, image, kept)
  PROVE  RbIInv'
<1> DEFINE new == [rb_tile[rb_job.tile] EXCEPT !.image = image]
<1>1. rb_job.pc = "copy" /\ RbTileStep /\ tt_d2d_dma_run(outcome, new, "verify", kept)
  BY Zenon DEF tt_d2d_copy_image
<1>2. rb_job.pc \notin {"idle", "fetch"} /\ image \in {"junk", "zero", "firmware"}
  BY <1>1, Zenon
<1>3. /\ new \in RbTileType /\ new.core = rb_tile[rb_job.tile].core /\ new.magic = rb_tile[rb_job.tile].magic
      /\ new.code = rb_tile[rb_job.tile].code
  <2>1. rb_tile[rb_job.tile] \in RbTileType
    BY <1>2, RbJobHas, Zenon
  <2> QED BY <1>2, <2>1, RbTileImage, Zenon
<1>4. ~rb_tile[rb_job.tile].core /\ ~rb_tile[rb_job.tile].magic /\ rb_tile[rb_job.tile].code = "zero"
  BY <1>1, Zenon DEF RbIInv, RbWorking
<1> HIDE DEF new
<1> QED BY <1>1, <1>3, <1>4, RbDmaInv, Zenon

(* Only an image that reads back as the firmware goes on to its table.       *)
LEMMA RbVerifyInv ==
  ASSUME RbIInv, NEW kept \in BOOLEAN, RbVerify(kept) PROVE RbIInv'
<1> DEFINE x == rb_tile[rb_job.tile]
           d == rb_dma[rb_job.tile]
<1>1. /\ rb_job.pc = "verify" /\ RbTileStep /\ UNCHANGED <<rb_tile, rb_dma>>
      /\ RbFail(kept) \/ (RbGo("config") /\ x.image = "firmware")
  BY Zenon DEF RbVerify
<1>2. rb_job.pc \notin {"idle", "fetch"} /\ "config" \in RbJobPcs
  BY <1>1, Zenon DEF RbJobPcs
<1>3. CASE RbFail(kept)
  BY <1>1, <1>2, <1>3, RbFailInv, Zenon
<1>4. CASE RbGo("config") /\ x.image = "firmware"
  <2>1. /\ x \in RbTileType /\ d \in BOOLEAN
        /\ rb_tile' = [rb_tile EXCEPT ![rb_job.tile] = x] /\ rb_dma' = [rb_dma EXCEPT ![rb_job.tile] = d]
    BY <1>1, <1>2, RbJobHas, Zenon
  <2>2. ~x.core /\ ~x.magic /\ x.code = "zero" /\ ~d
    BY <1>1, Zenon DEF RbIInv, RbWorking
  <2> HIDE DEF x, d
  <2> QED BY <1>1, <1>2, <1>4, <2>1, <2>2, RbWriteInv, Zenon
<1> QED BY <1>1, <1>3, <1>4, Zenon

(* tt_d2d_write_config writes the table of parameters.                       *)
LEMMA RbConfigInv ==
  ASSUME RbIInv, tt_d2d_write_config PROVE RbIInv'
<1> DEFINE y == rb_tile[rb_job.tile]
           x == [y EXCEPT !.parms = "set"]
           d == rb_dma[rb_job.tile]
<1>1. /\ rb_job.pc = "config" /\ RbTileStep /\ UNCHANGED rb_dma /\ RbGo("magic")
      /\ rb_tile' = [rb_tile EXCEPT ![rb_job.tile].parms = "set"]
  BY Zenon DEF tt_d2d_write_config
<1>2. rb_job.pc \notin {"idle", "fetch"} /\ "magic" \in RbJobPcs /\ "set" \in {"junk", "zero", "set"}
  BY <1>1, Zenon DEF RbJobPcs
<1>3. /\ d \in BOOLEAN /\ rb_tile' = [rb_tile EXCEPT ![rb_job.tile] = x]
      /\ rb_dma' = [rb_dma EXCEPT ![rb_job.tile] = d]
  BY <1>1, <1>2, RbJobHas, Zenon
<1>4. x \in RbTileType /\ x.core = y.core /\ x.magic = y.magic /\ x.code = y.code /\ x.image = y.image
      /\ x.parms = "set"
  BY <1>2, RbJobHas, RbTileParms, Zenon
<1>5. ~y.core /\ ~y.magic /\ y.code = "zero" /\ y.image = "firmware" /\ ~d
  BY <1>1, Zenon DEF RbIInv, RbWorking
<1> HIDE DEF x, y, d
<1>6. ~x.core /\ ~x.magic /\ x.code = "zero" /\ x.image = "firmware"
  BY <1>4, <1>5, Zenon
<1> QED BY <1>1, <1>2, <1>3, <1>4, <1>5, <1>6, RbWriteInv, Zenon

(* The magic word goes last: the tile it validates is fit to be started.     *)
LEMMA RbMagicInv ==
  ASSUME RbIInv, NEW kept \in BOOLEAN, RbMagic(kept) PROVE RbIInv'
<1> DEFINE y == rb_tile[rb_job.tile]
           x == [y EXCEPT !.magic = TRUE]
<1>1. /\ rb_job.pc = "magic" /\ RbTileStep /\ UNCHANGED rb_dma /\ RbRespond(rb_job, TRUE, kept)
      /\ rb_tile' = [rb_tile EXCEPT ![rb_job.tile].magic = TRUE]
  BY Zenon DEF RbMagic
<1>2. rb_job.pc \notin {"idle", "fetch"}
  BY <1>1, Zenon
<1>3. rb_tile' = [rb_tile EXCEPT ![rb_job.tile] = x]
  BY <1>1, <1>2, RbJobHas, Zenon
<1>4. x \in RbTileType /\ x.core = y.core /\ x.code = y.code /\ x.image = y.image /\ x.parms = y.parms
  BY <1>2, RbJobHas, RbTileMagic, Zenon
<1>5. ~y.core /\ y.code = "zero" /\ y.image = "firmware" /\ y.parms = "set" /\ ~rb_dma[rb_job.tile]
  BY <1>1, Zenon DEF RbIInv, RbWorking
<1> HIDE DEF x, y
<1>6. ~x.core /\ x.code = "zero" /\ x.image = "firmware" /\ x.parms = "set"
  BY <1>4, <1>5, Zenon
<1>7. /\ rb_tile' \in [RbTile -> RbTileType] /\ rb_tile'[rb_job.tile] = x
      /\ \A u \in RbTile : u # rb_job.tile => rb_tile'[u] = rb_tile[u]
  BY <1>2, <1>3, <1>4, RbJobHas, RbSetTile, Zenon
<1>8. /\ rb_job' = RbNoJob /\ rb_fifo' \in {rb_fifo, Append(rb_fifo, [op |-> "D2D_INIT", ok |-> TRUE])}
      /\ rb_done \subseteq rb_done' /\ [op |-> "D2D_INIT", tile |-> rb_job.tile] \in rb_done'
  BY <1>1, <1>2, RbJobHas, RbRespondIs, Zenon
<1>9. \A u : u = rb_job.tile => RbFit(u)'
  BY <1>1, <1>2, <1>5, <1>6, <1>7, RbJobHas, Zenon DEF RbFit
<1>10. RbWorking'
  <2>1. rb_job'.pc = "idle" /\ rb_job'.op = "none"
    BY <1>8, Zenon DEF RbNoJob
  <2>2. \A u \in RbTile : rb_dma'[u] => ~rb_tile'[u].core
    BY <1>1, <1>6, <1>7, Zenon DEF RbIInv, RbWorking
  <2> QED BY <2>1, <2>2, Zenon DEF RbWorking
<1>11. rb_dma' \in [RbTile -> BOOLEAN] /\ \A u \in RbTile : rb_dma'[u] = rb_dma[u]
  BY <1>1, <1>2, RbJobHas, Zenon
<1> QED BY <1>1, <1>2, <1>6, <1>7, <1>8, <1>9, <1>10, <1>11, RbJobKeeps, Zenon DEF RbMoved

(* A step of the hardware that leaves the processes alone, the fit tiles fit, *)
(* the running ones running and the trained ones trained.                    *)
RbOnlyTiles ==
  /\ UNCHANGED <<rb_ctl, rb_pend, rb_work, rb_job, rb_fifo, rb_done, rb_told>> /\ UNCHANGED rb_boot
  /\ rb_tile' \in [RbTile -> RbTileType] /\ rb_dma' \in [RbTile -> BOOLEAN] /\ RbWorking'
  /\ \A u : RbFit(u) => RbFit(u)'
  /\ \A u \in RbTile : rb_tile[u].core => rb_tile'[u].core
  /\ \A u \in RbTile : rb_tile[u].fresh => rb_tile'[u].fresh
  /\ \A u \in RbTile : (rb_tile'[u].core /\ rb_tile'[u].magic) =>
                        rb_tile'[u].image = "firmware" /\ rb_tile'[u].parms = "set"

(* The processes' knowledge survives such a step.                            *)
LEMMA RbTilesKeep == ASSUME RbIInv, RbOnlyTiles PROVE RbIInv'
<1>0. /\ UNCHANGED <<rb_ctl, rb_pend, rb_work, rb_job, rb_fifo, rb_done, rb_told>> /\ UNCHANGED rb_boot
      /\ RbWorking'
  BY Zenon DEF RbOnlyTiles
<1>8. rb_tile' \in [RbTile -> RbTileType] /\ rb_dma' \in [RbTile -> BOOLEAN]
  BY Zenon DEF RbOnlyTiles
<1>9. \A u : RbFit(u) => RbFit(u)'
  BY Zenon DEF RbOnlyTiles
<1>10. /\ \A u \in RbTile : rb_tile[u].core => rb_tile'[u].core
       /\ \A u \in RbTile : rb_tile[u].fresh => rb_tile'[u].fresh
       /\ \A u \in RbTile : (rb_tile'[u].core /\ rb_tile'[u].magic) =>
                             rb_tile'[u].image = "firmware" /\ rb_tile'[u].parms = "set"
  BY Zenon DEF RbOnlyTiles
<1>1. RbAllFit => RbAllFit'
  BY <1>9, Zenon DEF RbAllFit
<1>2. RbShape'
  <2>1. RbTypeOK'
    BY <1>0, <1>8, Zenon DEF RbIInv, RbShape, RbTypeOK, rb_boot
  <2> QED BY <1>0, <1>8, <2>1, Zenon DEF RbIInv, RbShape
<1>3. RbLoaded'
  BY <1>0, Zenon DEF RbIInv, RbLoaded, rb_boot
<1>4. RbRunsWhole'
  <2>1. rb_live' # {} => \A p \in 1 .. RbProcs : rb_mem'[p] = 1 .. RbChunks
    BY <1>0, Zenon DEF RbIInv, RbRunsWhole, rb_boot
  <2> QED BY <1>10, <2>1, Zenon DEF RbRunsWhole
<1>5. RbCarried'
  <2>1. /\ RbUnderWay("D2D_START")' <=> RbUnderWay("D2D_START")
        /\ RbUnderWay("D2D_INIT")' <=> RbUnderWay("D2D_INIT")
    BY <1>0, Zenon DEF RbUnderWay
  <2> QED BY <1>0, <1>1, <2>1, Zenon DEF RbIInv, RbCarried
<1>6. RbAnswerTrue'
  <2>1. rb_told.op = "LINK" => rb_told.tile \in RbTile
    BY Zenon DEF RbIInv, RbCarried
  <2> QED BY <1>0, <1>10, <2>1, ZenonT(40) DEF RbIInv, RbAnswerTrue
<1>7. RbReached'
  <2>1. rb_ctl.pc \in {"send", "poll", "link"} /\ rb_ctl.k > RbN =>
          /\ RbAllFit' /\ \A i \in 1 .. RbN : i < rb_ctl.k - RbN => rb_tile'[RbAsk[i]].core
    <3>1. RbAllFit => \A i \in 1 .. RbN : RbAsk[i] \in RbTile
      BY Zenon DEF RbAllFit, RbFit
    <3> QED BY <1>1, <1>10, <3>1, Zenon DEF RbIInv, RbReached
  <2>2. rb_ctl.pc = "poll" => \A i \in 1 .. Len(rb_fifo) : rb_fifo[i].ok =>
         /\ rb_fifo[i].op = "D2D_INIT" => RbFit(rb_pend.tile)'
         /\ rb_fifo[i].op = "D2D_START" => rb_tile'[rb_pend.tile].core
    <3> SUFFICES ASSUME rb_ctl.pc = "poll", NEW i \in 1 .. Len(rb_fifo), rb_fifo[i].ok
                 PROVE  /\ rb_fifo[i].op = "D2D_INIT" => RbFit(rb_pend.tile)'
                        /\ rb_fifo[i].op = "D2D_START" => rb_tile'[rb_pend.tile].core
      BY Zenon
    <3>1. PICK u : u = rb_pend.tile
      BY Zenon
    <3>2. CASE rb_fifo[i].op = "D2D_INIT"
      <4>1. RbFit(u)'
        BY <1>9, <3>1, <3>2, Zenon DEF RbIInv, RbReached
      <4> QED BY <1>0, <3>1, <3>2, <4>1, Zenon DEF RbFit
    <3>3. CASE rb_fifo[i].op = "D2D_START"
      <4>1. rb_tile[u].core
        BY <3>1, <3>3, Zenon DEF RbIInv, RbReached
      <4>2. rb_pend.op = "D2D_START" /\ rb_pend = RbCommand(rb_ctl.k)
        BY <3>3, Zenon DEF RbIInv, RbCarried
      <4>3. rb_ctl.k \in Nat /\ rb_ctl.k <= 2 * RbN
        BY RbCtlFields, Zenon DEF RbIInv, RbReached, RbShape
      <4>4. rb_ctl.k > RbN /\ rb_ctl.k - RbN \in 1 .. RbN /\ u = RbAsk[rb_ctl.k - RbN]
        BY <3>1, <4>2, <4>3, RbCommandIs, Zenon
      <4>5. RbAllFit
        BY <4>4, Zenon DEF RbIInv, RbReached
      <4>6. u \in RbTile
        BY <4>4, <4>5, Zenon DEF RbAllFit, RbFit
      <4> QED BY <1>10, <3>1, <3>3, <4>1, <4>6, Zenon
    <3> QED BY <3>2, <3>3, Zenon
  <2>3. rb_ctl.pc \in {"send", "poll"} /\ rb_ctl.k <= RbN =>
       \A i \in 1 .. RbN : i < rb_ctl.k =>
          RbFit(RbAsk[i])' \/ (rb_ctl.pc = "poll" /\ RbAsk[i] = RbAsk[rb_ctl.k])
    BY <1>9, Zenon DEF RbIInv, RbReached
  <2> QED BY <1>0, <2>1, <2>2, <2>3, Zenon DEF RbIInv, RbReached
<1> QED
  BY <1>0, <1>2, <1>3, <1>4, <1>5, <1>6, <1>7, Zenon DEF RbIInv

(* A late transfer lands only on a tile that no one counts on.               *)
LEMMA RbLateInv ==
  ASSUME RbIInv, NEW t \in RbTile, RbLateDma(t) PROVE RbIInv'
<1> DEFINE y == rb_tile[t]
           x == [y EXCEPT !.image = "junk"]
<1>1. /\ rb_dma[t] /\ rb_dma' = [rb_dma EXCEPT ![t] = FALSE] /\ rb_tile' = [rb_tile EXCEPT ![t].image = "junk"]
      /\ UNCHANGED <<rb_ctl, rb_pend, rb_work, rb_job, rb_fifo, rb_done, rb_told>> /\ UNCHANGED rb_boot
  BY Zenon DEF RbLateDma
<1>2. rb_tile \in [RbTile -> RbTileType] /\ rb_dma \in [RbTile -> BOOLEAN] /\ y \in RbTileType
  BY Zenon DEF RbIInv, RbShape, RbTypeOK
<1>3. "junk" \in {"junk", "zero", "firmware"} /\ rb_tile' = [rb_tile EXCEPT ![t] = x]
  BY <1>1, <1>2, Zenon
<1>4. x \in RbTileType /\ x.core = y.core /\ x.magic = y.magic /\ x.code = y.code /\ x.fresh = y.fresh
  BY <1>2, <1>3, RbTileImage, Zenon
<1>5. ~y.core
  BY <1>1, Zenon DEF RbIInv, RbWorking
<1> HIDE DEF x
<1>6. /\ rb_tile' \in [RbTile -> RbTileType] /\ rb_tile'[t] = x
      /\ \A u \in RbTile : u # t => rb_tile'[u] = rb_tile[u]
  BY <1>2, <1>3, <1>4, RbSetTile, Zenon
<1>7. /\ rb_dma' \in [RbTile -> BOOLEAN] /\ ~rb_dma'[t] /\ \A u \in RbTile : u # t => rb_dma'[u] = rb_dma[u]
  BY <1>1, <1>2, Zenon
<1> HIDE DEF y
<1>8. \A u : RbFit(u) => RbFit(u)'
  <2>1. SUFFICES ASSUME NEW u, RbFit(u) PROVE RbFit(u)'
    BY Zenon
  <2>2. u # t /\ u \in RbTile
    BY <1>1, <2>1, Zenon DEF RbFit
  <2> QED BY <1>6, <1>7, <2>1, <2>2, Zenon DEF RbFit
<1>9. \A u \in RbTile : /\ rb_tile'[u].core <=> rb_tile[u].core
                        /\ rb_tile'[u].magic <=> rb_tile[u].magic
                        /\ rb_tile[u].core => rb_tile'[u] = rb_tile[u]
  BY <1>4, <1>5, <1>6, Zenon DEF y
<1>10. \A u \in RbTile : (rb_tile'[u].core /\ rb_tile'[u].magic) =>
           rb_tile'[u].image = "firmware" /\ rb_tile'[u].parms = "set"
  BY <1>9, Zenon DEF RbIInv, RbRunsWhole
<1>11. \A u \in RbTile : rb_tile[u].fresh => rb_tile'[u].fresh
  BY <1>4, <1>6, Zenon DEF y
<1>12. RbWorking'
  <2>1. rb_job.pc \in {"copy", "verify", "config", "magic"} => rb_job.tile # t
    BY <1>1, Zenon DEF RbIInv, RbWorking
  <2>2. rb_job.pc \notin {"idle", "fetch"} => rb_job.tile \in RbTile
    BY Zenon DEF RbIInv, RbWorking
  <2>3. \A u \in RbTile : rb_dma'[u] => ~rb_tile'[u].core
    BY <1>7, <1>9, Zenon DEF RbIInv, RbWorking
  <2> QED BY <1>1, <1>6, <1>7, <1>9, <2>1, <2>2, <2>3, SMTT(30) DEF RbIInv, RbWorking
<1> QED
  BY <1>1, <1>6, <1>7, <1>8, <1>9, <1>10, <1>11, <1>12, RbTilesKeep, Zenon DEF RbOnlyTiles

(* The Rocket of a running tile reports.                                     *)
LEMMA RbRocketInv ==
  ASSUME RbIInv, NEW t \in RbTile, NEW code \in {"trained", "gaveup"}, RbRocket(t, code) PROVE RbIInv'
<1> DEFINE y == rb_tile[t]
           x == [y EXCEPT !.code = code, !.fresh = TRUE]
<1>1. /\ y.core
      /\ UNCHANGED <<rb_ctl, rb_pend, rb_work, rb_job, rb_fifo, rb_dma, rb_done, rb_told>> /\ UNCHANGED rb_boot
  BY Zenon DEF RbRocket
<1>3. rb_tile' = [rb_tile EXCEPT ![t] = x]
  BY Zenon DEF RbRocket
<1>2. rb_tile \in [RbTile -> RbTileType] /\ rb_dma \in [RbTile -> BOOLEAN] /\ y \in RbTileType
  BY Zenon DEF RbIInv, RbShape, RbTypeOK
<1>4. /\ x \in RbTileType /\ x.core = y.core /\ x.magic = y.magic /\ x.image = y.image /\ x.parms = y.parms
      /\ x.fresh
  <2> HIDE DEF y
  <2>1. code \in {"zero", "trained", "gaveup"}
    BY Zenon
  <2> QED BY <1>2, <2>1, Zenon DEF RbTileType
<1> HIDE DEF x
<1>5. /\ rb_tile' \in [RbTile -> RbTileType] /\ rb_tile'[t] = x
      /\ \A u \in RbTile : u # t => rb_tile'[u] = rb_tile[u]
  BY <1>2, <1>3, <1>4, RbSetTile, Zenon
<1> HIDE DEF y
<1>6. \A u \in RbTile : /\ rb_tile'[u].core = rb_tile[u].core /\ rb_tile'[u].magic = rb_tile[u].magic
                        /\ rb_tile'[u].image = rb_tile[u].image /\ rb_tile'[u].parms = rb_tile[u].parms
                        /\ rb_tile[u].fresh => rb_tile'[u].fresh
  BY <1>4, <1>5, Zenon DEF y
<1>7. \A u : RbFit(u) => RbFit(u)'
  <2> SUFFICES ASSUME NEW u, RbFit(u) PROVE RbFit(u)'
    BY Zenon
  <2>1. /\ u \in RbTile /\ rb_tile'[u].image = "firmware" /\ rb_tile'[u].parms = "set" /\ ~rb_dma'[u]
    BY <1>1, <1>6, Zenon DEF RbFit
  <2>2. rb_tile'[u].code = "trained" => rb_tile'[u].fresh
    <3>1. CASE u = t
      BY <1>4, <1>5, <3>1, Zenon
    <3>2. CASE u # t
      BY <1>5, <2>1, <3>2, Zenon DEF RbFit
    <3> QED BY <3>1, <3>2, Zenon
  <2> QED BY <2>1, <2>2, Zenon DEF RbFit
<1>8. \A u \in RbTile : (rb_tile'[u].core /\ rb_tile'[u].magic) =>
           rb_tile'[u].image = "firmware" /\ rb_tile'[u].parms = "set"
  BY <1>6, Zenon DEF RbIInv, RbRunsWhole
<1>9. RbWorking'
  <2>1. rb_job.pc \in {"probe", "clear", "copy", "verify", "config", "magic"} =>
          rb_job.tile # t /\ rb_job.tile \in RbTile
    BY <1>1, Zenon DEF RbIInv, RbWorking, y
  <2>2. \A u \in RbTile : rb_dma'[u] => ~rb_tile'[u].core
    BY <1>1, <1>6, Zenon DEF RbIInv, RbWorking
  <2>3. rb_job.pc \in {"probe", "clear", "copy", "verify", "config", "magic"} =>
          rb_tile'[rb_job.tile] = rb_tile[rb_job.tile]
    BY <1>5, <2>1, Zenon
  <2> QED BY <1>1, <2>1, <2>2, <2>3, ZenonT(40) DEF RbIInv, RbWorking
<1> QED
  BY <1>1, <1>2, <1>5, <1>6, <1>7, <1>8, <1>9, RbTilesKeep, Zenon DEF RbOnlyTiles

(* The worker reads the payload: a ping is answered, an unknown tile         *)
(* refused, a fit one started, and work on the others begins.                *)
LEMMA RbDispatchInv ==
  ASSUME RbIInv, NEW kept \in BOOLEAN, tt_grendel_i3c_dispatch(kept) PROVE RbIInv'
<1>1. rb_job.pc = "fetch" /\ UNCHANGED <<rb_ctl, rb_pend, rb_work, rb_told>> /\ UNCHANGED rb_boot
  BY Zenon DEF tt_grendel_i3c_dispatch, RbTileStep
<1>2. /\ rb_job \in RbJobType /\ rb_pend \in [op : RbOps, tile : Nat] /\ rb_job.op \in RbOps
      /\ rb_pend.tile \in Nat /\ rb_job.op # "none" /\ rb_fifo \in Seq([op : RbOps, ok : BOOLEAN])
      /\ rb_tile \in [RbTile -> RbTileType] /\ rb_dma \in [RbTile -> BOOLEAN]
  BY <1>1, RbFields, Zenon DEF RbIInv, RbShape, RbTypeOK, RbWorking
<1> DEFINE job == [rb_job EXCEPT !.tile = rb_pend.tile]
<1>3. job \in RbJobType /\ job.op = rb_job.op /\ job.tile = rb_pend.tile /\ job.pc = "fetch"
  BY <1>1, <1>2, Zenon DEF RbJobType
<1>4. rb_ctl.pc = "poll" => \A i \in 1 .. Len(rb_fifo) : rb_fifo[i].op = "PING"
  BY <1>2, Zenon DEF RbIInv, RbCarried
<1>5. PICK ok \in BOOLEAN, tile \in Nat :
        \/ /\ rb_job' = RbNoJob /\ UNCHANGED rb_dma
           /\ rb_fifo' \in {rb_fifo, Append(rb_fifo, [op |-> rb_job.op, ok |-> ok])}
           /\ rb_done' = IF ok THEN rb_done \cup {[op |-> rb_job.op, tile |-> tile]} ELSE rb_done
           /\ \/ rb_job.op = "PING" /\ UNCHANGED rb_tile
              \/ rb_job.op # "PING" /\ ~ok /\ UNCHANGED rb_tile
              \/ /\ rb_job.op = "D2D_START" /\ rb_pend.tile \in RbTile /\ ok /\ tile = rb_pend.tile
                 /\ rb_tile' = [rb_tile EXCEPT ![rb_pend.tile] = tt_d2d_start(rb_tile[rb_pend.tile])]
        \/ /\ rb_job.op = "D2D_INIT" /\ rb_pend.tile \in RbTile
           /\ rb_job' = [job EXCEPT !.pc = "size"] /\ UNCHANGED <<rb_fifo, rb_done, rb_dma>>
           /\ rb_tile' = [rb_tile EXCEPT ![rb_pend.tile] = tt_d2d_reset_release(rb_tile[rb_pend.tile])]
  <2>1. CASE rb_job.op = "PING"
    <3>1. RbRespond([job EXCEPT !.tile = 0], TRUE, kept) /\ UNCHANGED <<rb_tile, rb_dma>>
      BY <1>3, <2>1, Zenon DEF tt_grendel_i3c_dispatch
    <3>2. [job EXCEPT !.tile = 0].op = rb_job.op /\ [job EXCEPT !.tile = 0].tile = 0 /\ 0 \in Nat
      BY <1>3, Zenon DEF RbJobType
    <3> QED BY <2>1, <3>1, <3>2, Zenon DEF RbRespond
  <2>2. CASE rb_job.op # "PING" /\ rb_pend.tile \notin RbTile
    <3>1. RbRespond(job, FALSE, kept) /\ UNCHANGED <<rb_tile, rb_dma>>
      BY <1>3, <2>2, Zenon DEF tt_grendel_i3c_dispatch
    <3> QED BY <1>2, <1>3, <2>2, <3>1, Zenon DEF RbRespond
  <2>3. CASE rb_job.op = "D2D_START" /\ rb_pend.tile \in RbTile
    <3>1. /\ RbRespond(job, TRUE, kept) /\ UNCHANGED rb_dma
          /\ rb_tile' = [rb_tile EXCEPT ![rb_pend.tile] = tt_d2d_start(rb_tile[rb_pend.tile])]
      BY <1>3, <2>3, Zenon DEF tt_grendel_i3c_dispatch
    <3> QED BY <1>2, <1>3, <2>3, <3>1, Zenon DEF RbRespond
  <2>4. CASE rb_job.op = "D2D_INIT" /\ rb_pend.tile \in RbTile
    BY <1>2, <1>3, <2>4, Zenon DEF tt_grendel_i3c_dispatch, RbQuiet
  <2> QED BY <1>2, <2>1, <2>2, <2>3, <2>4, Zenon DEF RbOps
<1> HIDE DEF job
<1>6. /\ rb_tile' \in [RbTile -> RbTileType] /\ rb_dma' = rb_dma
      /\ \A u \in RbTile : /\ rb_tile[u].core => rb_tile'[u].core
                           /\ rb_tile[u].fresh => rb_tile'[u].fresh
                           /\ rb_tile'[u].magic = rb_tile[u].magic /\ rb_tile'[u].image = rb_tile[u].image
                           /\ rb_tile'[u].parms = rb_tile[u].parms /\ rb_tile'[u].code = rb_tile[u].code
      /\ \A u \in RbTile : rb_tile'[u].core => rb_tile[u].core \/ RbFit(u)
      /\ rb_job.op = "D2D_START" /\ rb_tile' # rb_tile => rb_tile'[rb_pend.tile].core
  <2>1. CASE UNCHANGED <<rb_tile, rb_dma>>
    BY <1>2, <2>1, Zenon
  <2>2. CASE /\ rb_job.op = "D2D_START" /\ rb_pend.tile \in RbTile /\ UNCHANGED rb_dma
             /\ rb_tile' = [rb_tile EXCEPT ![rb_pend.tile] = tt_d2d_start(rb_tile[rb_pend.tile])]
    <3> DEFINE y == rb_tile[rb_pend.tile]
               x == tt_d2d_start(y)
    <3>1. /\ x \in RbTileType /\ x.core = TRUE /\ x.image = y.image /\ x.parms = y.parms /\ x.magic = y.magic
          /\ x.code = y.code /\ x.fresh = y.fresh
      <4>1. y \in RbTileType
        BY <1>2, <2>2, Zenon
      <4> QED BY <4>1, RbTileCore, Zenon DEF tt_d2d_start
    <3>2. RbFit(rb_pend.tile)
      <4>1. RbUnderWay("D2D_START")
        BY <2>2, Zenon DEF RbUnderWay
      <4> QED BY <4>1, Zenon DEF RbIInv, RbCarried, RbAllFit
    <3> HIDE DEF x
    <3>3. /\ rb_tile' \in [RbTile -> RbTileType] /\ rb_tile'[rb_pend.tile] = x
          /\ \A u \in RbTile : u # rb_pend.tile => rb_tile'[u] = rb_tile[u]
      BY <1>2, <2>2, <3>1, RbSetTile, Zenon DEF x
    <3> QED BY <2>2, <3>1, <3>2, <3>3, Zenon
  <2>3. CASE /\ rb_job.op = "D2D_INIT" /\ rb_pend.tile \in RbTile /\ UNCHANGED rb_dma
             /\ rb_tile' = [rb_tile EXCEPT ![rb_pend.tile] = tt_d2d_reset_release(rb_tile[rb_pend.tile])]
    <3> DEFINE y == rb_tile[rb_pend.tile]
               x == tt_d2d_reset_release(y)
    <3>1. /\ x \in RbTileType /\ x.core = y.core /\ x.image = y.image /\ x.parms = y.parms /\ x.magic = y.magic
          /\ x.code = y.code /\ x.fresh = y.fresh
      <4>1. y \in RbTileType
        BY <1>2, <2>3, Zenon
      <4> QED BY <4>1, RbTileStraps, Zenon DEF tt_d2d_reset_release
    <3> HIDE DEF x
    <3>3. /\ rb_tile' \in [RbTile -> RbTileType] /\ rb_tile'[rb_pend.tile] = x
          /\ \A u \in RbTile : u # rb_pend.tile => rb_tile'[u] = rb_tile[u]
      BY <1>2, <2>3, <3>1, RbSetTile, Zenon DEF x
    <3> QED BY <2>3, <3>1, <3>3, Zenon
  <2> QED BY <1>5, <2>1, <2>2, <2>3, Zenon
<1>7. \A u : RbFit(u) => RbFit(u)'
  <2> SUFFICES ASSUME NEW u, RbFit(u) PROVE RbFit(u)'
    BY Zenon
  <2> QED BY <1>6, Zenon DEF RbFit
<1>8. RbAllFit => RbAllFit'
  BY <1>7, Zenon DEF RbAllFit
<1>9. /\ \A u \in RbTile : (rb_tile'[u].core /\ rb_tile'[u].magic) =>
             rb_tile'[u].image = "firmware" /\ rb_tile'[u].parms = "set"
      /\ \A u \in RbTile : rb_dma'[u] => ~rb_tile'[u].core
  <2>1. \A u \in RbTile : (rb_tile[u].core /\ rb_tile[u].magic) =>
             rb_tile[u].image = "firmware" /\ rb_tile[u].parms = "set"
    BY Zenon DEF RbIInv, RbRunsWhole
  <2>2. \A u \in RbTile : rb_dma[u] => ~rb_tile[u].core
    BY Zenon DEF RbIInv, RbWorking
  <2>3. \A u \in RbTile : RbFit(u) => rb_tile[u].image = "firmware" /\ rb_tile[u].parms = "set" /\ ~rb_dma[u]
    BY Zenon DEF RbFit
  <2>4. \A u \in RbTile : (rb_tile'[u].core /\ rb_tile'[u].magic) =>
             rb_tile'[u].image = "firmware" /\ rb_tile'[u].parms = "set"
    BY <1>6, <2>1, <2>3, ZenonT(40)
  <2>5. \A u \in RbTile : rb_dma'[u] => ~rb_tile'[u].core
    BY <1>6, <2>2, <2>3, Zenon
  <2> QED BY <2>4, <2>5, Zenon
<1>10. RbLoaded'
  BY <1>1, Zenon DEF RbIInv, RbLoaded, rb_boot
<1>11. RbRunsWhole'
  <2>1. rb_live' # {} => \A p \in 1 .. RbProcs : rb_mem'[p] = 1 .. RbChunks
    BY <1>1, Zenon DEF RbIInv, RbRunsWhole, rb_boot
  <2> QED BY <1>9, <2>1, Zenon DEF RbRunsWhole
<1>12. RbAnswerTrue'
  <2>1. rb_done \subseteq rb_done'
    BY <1>5, ZenonT(40)
  <2>2. rb_told.op = "LINK" => rb_told.tile \in RbTile
    BY Zenon DEF RbIInv, RbCarried
  <2> QED BY <1>1, <1>6, <2>1, <2>2, Zenon DEF RbIInv, RbAnswerTrue
<1>13. rb_ctl.pc \in {"send", "poll", "link"} /\ rb_ctl.k > RbN =>
          /\ RbAllFit' /\ \A i \in 1 .. RbN : i < rb_ctl.k - RbN => rb_tile'[RbAsk[i]].core
  <2>1. RbAllFit => \A i \in 1 .. RbN : RbAsk[i] \in RbTile
    BY Zenon DEF RbAllFit, RbFit
  <2> QED BY <1>6, <1>8, <2>1, Zenon DEF RbIInv, RbReached
<1>14. rb_ctl.pc \in {"send", "poll"} /\ rb_ctl.k <= RbN =>
       \A i \in 1 .. RbN : i < rb_ctl.k =>
          RbFit(RbAsk[i])' \/ (rb_ctl.pc = "poll" /\ RbAsk[i] = RbAsk[rb_ctl.k])
  BY <1>7, Zenon DEF RbIInv, RbReached
<1>15. CASE rb_job' = RbNoJob
  <2> DEFINE x == [op |-> rb_job.op, ok |-> ok]
  <2>0. x \in [op : RbOps, ok : BOOLEAN] /\ x.op = rb_job.op /\ (x.ok <=> ok)
    BY <1>2, Zenon
  <2> HIDE DEF x
  <2>1. /\ rb_fifo' \in Seq([op : RbOps, ok : BOOLEAN])
        /\ (\A i \in 1 .. Len(rb_fifo) : rb_fifo[i].op = "PING") => \A i \in 1 .. Len(rb_fifo') :
              rb_fifo'[i].op = "PING" \/ (i = Len(rb_fifo') /\ rb_fifo'[i] = x)
    <3>1. CASE rb_fifo' = rb_fifo
      BY <1>2, <3>1, Zenon
    <3>2. CASE rb_fifo' = Append(rb_fifo, x)
      <4>1. /\ rb_fifo' \in Seq([op : RbOps, ok : BOOLEAN]) /\ Len(rb_fifo) \in Nat
            /\ Len(rb_fifo') = Len(rb_fifo) + 1 /\ rb_fifo'[Len(rb_fifo) + 1] = x
            /\ \A i \in 1 .. Len(rb_fifo) : rb_fifo'[i] = rb_fifo[i]
        BY <1>2, <2>0, <3>2, RbAppend, Zenon
      <4> QED BY <4>1, SMTT(30)
    <3> QED BY <1>5, <3>1, <3>2, Zenon DEF x
  <2>2. rb_job' \in RbJobType /\ rb_job'.op = "none" /\ rb_job'.pc = "idle"
    BY <1>15, Zenon DEF RbNoJob, RbJobType, RbJobPcs, RbOps
  <2>3. RbShape'
    <3>1. RbTypeOK'
      BY <1>1, <1>2, <1>6, <2>2, Zenon DEF RbIInv, RbShape, RbTypeOK, rb_boot
    <3> QED BY <1>1, <1>6, <2>1, <2>2, <3>1, ZenonT(40) DEF RbIInv, RbShape
  <2>4. RbWorking'
    BY <1>9, <2>2, Zenon DEF RbWorking
  <2>5. rb_job.op # "PING" =>
          /\ ~rb_work /\ rb_pend.op = rb_job.op /\ rb_job.op \in {"D2D_INIT", "D2D_START"}
          /\ ok => rb_job.op = "D2D_START" /\ rb_pend \in rb_done' /\ rb_tile'[rb_pend.tile].core
    <3>1. rb_job.op # "PING" =>
            ~rb_work /\ rb_pend.op = rb_job.op /\ rb_job.op \in {"D2D_INIT", "D2D_START"}
      BY <1>2, Zenon DEF RbIInv, RbCarried, RbOps
    <3>2. CASE rb_job.op # "PING" /\ ok
      <4>1. /\ rb_job.op = "D2D_START" /\ rb_pend.tile \in RbTile /\ tile = rb_pend.tile
            /\ rb_tile' = [rb_tile EXCEPT ![rb_pend.tile] = tt_d2d_start(rb_tile[rb_pend.tile])]
            /\ rb_done' = rb_done \cup {[op |-> rb_job.op, tile |-> tile]}
        <5>1. rb_job'.pc # "size"
          BY <2>2, Zenon
        <5>2. [job EXCEPT !.pc = "size"].pc = "size"
          BY <1>3, Zenon DEF RbJobType
        <5> QED BY <1>5, <3>2, <5>1, <5>2, Zenon
      <4>2. rb_tile[rb_pend.tile] \in RbTileType
        BY <1>2, <4>1, Zenon
      <4>3. tt_d2d_start(rb_tile[rb_pend.tile]).core
        BY <4>2, Zenon DEF tt_d2d_start, RbTileType
      <4>4. rb_tile'[rb_pend.tile].core
        BY <1>2, <4>1, <4>3, Zenon
      <4>5. rb_pend = [op |-> rb_job.op, tile |-> tile]
        BY <1>2, <3>1, <3>2, <4>1, RbFields, Zenon
      <4> QED BY <3>1, <4>1, <4>4, <4>5, Zenon
    <3> QED BY <3>1, <3>2, Zenon
  <2>6. rb_ctl.pc \notin {"poll", "failed"} => rb_job.op = "PING" /\ \A i \in 1 .. Len(rb_fifo) : rb_fifo[i].op = "PING"
    BY <1>2, Zenon DEF RbIInv, RbCarried, RbUnderWay, RbOps
  <2>7. RbCarried'
    <3>1. /\ RbUnderWay("D2D_START")' => RbUnderWay("D2D_START")
          /\ RbUnderWay("D2D_INIT")' => RbUnderWay("D2D_INIT")
      BY <1>1, <2>2, Zenon DEF RbUnderWay
    <3>2. rb_ctl.pc \notin {"poll", "failed"} => \A i \in 1 .. Len(rb_fifo') : rb_fifo'[i].op = "PING"
      BY <2>0, <2>1, <2>6, Zenon
    <3>3. rb_ctl.pc = "poll" => \A i \in 1 .. Len(rb_fifo') :
            rb_fifo'[i].op # "PING" => /\ i = Len(rb_fifo') /\ rb_fifo'[i].op = rb_pend.op
                                       /\ ~rb_work /\ rb_job'.op = "none"
                                       /\ rb_fifo'[i].ok => rb_pend \in rb_done'
      BY <1>4, <2>0, <2>1, <2>2, <2>5, Zenon
    <3> QED BY <1>1, <1>8, <2>2, <3>1, <3>2, <3>3, Zenon DEF RbIInv, RbCarried
  <2>8. RbReached'
    <3>1. rb_ctl.pc = "poll" => \A i \in 1 .. Len(rb_fifo') : rb_fifo'[i].ok =>
             /\ rb_fifo'[i].op # "D2D_INIT"
             /\ rb_fifo'[i].op = "D2D_START" => rb_tile'[rb_pend.tile].core
      BY <1>4, <2>0, <2>1, <2>5, Zenon
    <3> QED BY <1>1, <1>13, <1>14, <3>1, Zenon DEF RbIInv, RbReached
  <2> QED BY <1>10, <1>11, <1>12, <2>3, <2>4, <2>7, <2>8, Zenon DEF RbIInv
<1>16. CASE /\ rb_job.op = "D2D_INIT" /\ rb_pend.tile \in RbTile
            /\ rb_job' = [job EXCEPT !.pc = "size"] /\ UNCHANGED <<rb_fifo, rb_done, rb_dma>>
  <2>1. rb_job' \in RbJobType /\ rb_job'.op = "D2D_INIT" /\ rb_job'.pc = "size" /\ rb_job'.tile = rb_pend.tile
    <3>1. "size" \in RbJobPcs
      BY Zenon DEF RbJobPcs
    <3> QED BY <1>3, <1>16, <3>1, Zenon DEF RbJobType
  <2>3. RbShape'
    <3>1. RbTypeOK'
      BY <1>1, <1>2, <1>6, <2>1, Zenon DEF RbIInv, RbShape, RbTypeOK, rb_boot
    <3> QED BY <1>1, <1>6, <1>16, <2>1, <3>1, ZenonT(40) DEF RbIInv, RbShape
  <2>4. RbWorking'
    BY <1>9, <1>16, <2>1, Zenon DEF RbWorking
  <2>5. ~rb_work /\ rb_pend.op = "D2D_INIT"
    BY <1>16, Zenon DEF RbIInv, RbCarried
  <2>7. RbCarried'
    <3>1. /\ ~RbUnderWay("D2D_START")' /\ RbUnderWay("D2D_INIT")' /\ RbUnderWay("D2D_INIT")
      BY <1>1, <1>16, <2>1, <2>5, Zenon DEF RbUnderWay
    <3>2. rb_ctl.pc \in {"poll", "failed"} /\ rb_told.op # "LINK"
      BY <3>1, Zenon DEF RbIInv, RbCarried
    <3>3. rb_ctl.pc = "poll" => /\ rb_pend = RbCommand(rb_ctl.k)
                                /\ \A i \in 1 .. Len(rb_fifo') : rb_fifo'[i].op = "PING"
      BY <1>4, <1>16, Zenon DEF RbIInv, RbCarried
    <3> QED BY <1>1, <2>1, <2>5, <3>1, <3>2, <3>3, Zenon DEF RbCarried
  <2>8. RbReached'
    <3>1. rb_ctl.pc = "poll" => \A i \in 1 .. Len(rb_fifo') : rb_fifo'[i].op = "PING"
      BY <1>4, <1>16, Zenon
    <3> QED BY <1>1, <1>13, <1>14, <3>1, Zenon DEF RbIInv, RbReached
  <2> QED BY <1>10, <1>11, <1>12, <2>3, <2>4, <2>7, <2>8, Zenon DEF RbIInv
<1> QED BY <1>5, <1>15, <1>16, Zenon

(* Every step of the controller, the caller, the worker, the engine and the  *)
(* tiles keeps the invariant, for a caller that stops at a failure.          *)
LEMMA RbStepInv == RbPolicy = "stop" /\ RbIInv /\ [RbNext]_rb_vars => RbIInv'
<1> SUFFICES ASSUME RbPolicy = "stop", RbIInv, [RbNext]_rb_vars PROVE RbIInv'
  BY Zenon
<1>1. CASE \/ \E b \in BOOLEAN : tt_smc_remoteproc_init(b) \/ tt_mimir_remote_boot_init(b)
           \/ \E b, c \in BOOLEAN : occp_run_transaction(b, c) \/ occp_execute_image(b, c)
  BY <1>1, RbBootInv, Zenon
<1>2. CASE (\E ok \in BOOLEAN : RbSend(ok)) \/ tt_grendel_i3c_read_response \/ RbTimeout \/ tt_d2d_wait_link
  BY <1>2, RbSendInv, RbReadInv, RbTimeoutInv, RbLinkInv, Zenon
<1>3. CASE RbEnter \/ tt_d2d_write_config
  BY <1>3, RbEnterInv, RbConfigInv, Zenon
<1>4. ASSUME NEW kept \in BOOLEAN,
             \/ tt_grendel_i3c_dispatch(kept) \/ RbVerify(kept) \/ RbMagic(kept)
             \/ \E size \in RbStaged : RbSize(size, kept)
      PROVE  RbIInv'
  BY <1>4, RbDispatchInv, RbVerifyInv, RbMagicInv, RbSizeInv, Zenon
<1>5. ASSUME NEW kept \in BOOLEAN, NEW b \in BOOLEAN, tt_d2d_cpu_ctrl(b, kept) \/ RbProbe(b, kept)
      PROVE  RbIInv'
  BY <1>5, RbHoldInv, RbProbeInv, Zenon
<1>6. ASSUME NEW kept \in BOOLEAN, NEW o \in {"done", "refused", "timeout"},
             \/ tt_d2d_clear_sram(o, kept)
             \/ \E image \in {"firmware", "junk"} : tt_d2d_copy_image(o, image, kept)
      PROVE  RbIInv'
  BY <1>6, RbClearInv, RbCopyInv, Zenon
<1>7. ASSUME NEW t \in RbTile, RbLateDma(t) \/ \E code \in {"trained", "gaveup"} : RbRocket(t, code)
      PROVE  RbIInv'
  BY <1>7, RbLateInv, RbRocketInv, Zenon
<1>8. CASE UNCHANGED rb_vars
  <2>1. /\ UNCHANGED <<rb_ctl, rb_pend, rb_work, rb_job, rb_fifo, rb_tile, rb_dma, rb_done, rb_told>>
        /\ UNCHANGED rb_boot
    BY <1>8, Zenon DEF rb_vars, rb_boot
  <2>2. \A u : RbFit(u) => RbFit(u)'
    BY <2>1, Zenon DEF RbFit
  <2>3. RbWorking'
    BY <2>1, Zenon DEF RbIInv, RbWorking
  <2>4. rb_tile' \in [RbTile -> RbTileType] /\ rb_dma' \in [RbTile -> BOOLEAN]
    BY <2>1, Zenon DEF RbIInv, RbShape, RbTypeOK
  <2>5. \A u \in RbTile : (rb_tile'[u].core /\ rb_tile'[u].magic) =>
                             rb_tile'[u].image = "firmware" /\ rb_tile'[u].parms = "set"
    BY <2>1, Zenon DEF RbIInv, RbRunsWhole
  <2> QED BY <2>1, <2>2, <2>3, <2>4, <2>5, RbTilesKeep, Zenon DEF RbOnlyTiles
<1> QED
  BY <1>1, <1>2, <1>3, <1>4, <1>5, <1>6, <1>7, <1>8, Zenon DEF RbNext, RbTarget

(* A remote processor runs only once all are loaded whole, and a tile's core *)
(* that sees the magic word has the verified firmware and its table          *)
(* (RbRunsWhole), whatever transfer is refused, times out and lands late,    *)
(* for a caller that stops at the first command that failed.                 *)
THEOREM OnlyWholeImagesRun == RbPolicy = "stop" /\ RbSpec => []RbRunsWhole
<1> SUFFICES ASSUME RbPolicy = "stop" PROVE RbSpec => []RbRunsWhole
  BY Zenon
<1>1. RbIInv /\ [RbNext]_rb_vars => RbIInv'
  BY RbStepInv, Zenon
<1>2. RbIInv => RbRunsWhole
  BY Zenon DEF RbIInv
<1> QED BY RbInitInv, <1>1, <1>2, PTL DEF RbSpec

(* What the caller is told is true: a command answered as done was done, and *)
(* a link reported up is up on a tile whose started firmware trained it      *)
(* (RbAnswerTrue), for the same callers.                                     *)
THEOREM CallerToldTrue == RbPolicy = "stop" /\ RbSpec => []RbAnswerTrue
<1> SUFFICES ASSUME RbPolicy = "stop" PROVE RbSpec => []RbAnswerTrue
  BY Zenon
<1>1. RbIInv /\ [RbNext]_rb_vars => RbIInv'
  BY RbStepInv, Zenon
<1>2. RbIInv => RbAnswerTrue
  BY Zenon DEF RbIInv
<1> QED BY RbInitInv, <1>1, <1>2, PTL DEF RbSpec
=============================================================================
