------------------------------- MODULE ArcDma -------------------------------
(***************************************************************************)
(* The ARC HS DMA engine as the system-management firmware drives it       *)
(* (drivers/dma/dma_arc_hs.c, interrupt mode): dma_arc_hs_transfer queues  *)
(* the blocks of a copy on channel 0 and polls the channel's state until   *)
(* the completion interrupt has made it idle or the time is up; a channel  *)
(* may be linked to a second one, which the interrupt handler starts.      *)
(*                                                                         *)
(* The engine numbers the blocks it accepts with a counter that wraps, and *)
(* sets a completion bit and the interrupt status when one is copied. It   *)
(* runs beside the core; the interrupt handler preempts the caller.        *)
(***************************************************************************)
EXTENDS Integers, Sequences

CONSTANTS
    AdDesc,     \* descriptors, hence handles, of the engine (256)
    AdGroup,    \* handles per completion register (32)
    AdBlocks    \* the largest number of blocks of one transfer

\* The handles fill whole completion registers and a transfer fits the engine.
ASSUME AdAssumption ==
    /\ AdDesc \in Nat \ {0} /\ AdGroup \in Nat \ {0} /\ AdDesc % AdGroup = 0
    /\ AdBlocks \in 1 .. (AdDesc - 2)

VARIABLES
    ad_chan,    \* data->channels: state, handle of the last block, linked or not
    ad_next,    \* the handle the engine gives the next block
    ad_queue,   \* blocks accepted and not copied yet; "cur" until the next start
    ad_done,    \* DMA_S_DONESTATD: handles whose completion is not cleared
    ad_int,     \* DMA_C_INTSTAT
    ad_isr,     \* where dma_arc_hs_isr is, with the status it read
    ad_call     \* what dma_arc_hs_transfer is doing or returned last

ad_vars == <<ad_chan, ad_next, ad_queue, ad_done, ad_int, ad_isr, ad_call>>

Channels == {0, 1}
Handles == 0 .. (AdDesc - 1)
Groups == 0 .. (AdDesc \div AdGroup - 1)
AdOut == [pc |-> "out", status |-> {}, group |-> 0]

AdInit ==
    /\ ad_chan = [c \in Channels |-> [state |-> "FREE", handle |-> 0, linked |-> FALSE]]
    /\ ad_next = 0
    /\ ad_queue = <<>>
    /\ ad_done = {}
    /\ ad_int = {}
    /\ ad_isr = AdOut
    /\ ad_call = "none"

\* The queue after n more blocks of channel c: what channel c had queued before
\* belongs to a transfer that is over for its caller.
dma_arc_hs_start_hw(c, n) ==
    [i \in 1 .. Len(ad_queue) |->
        IF ad_queue[i].chan = c THEN [ad_queue[i] EXCEPT !.cur = FALSE] ELSE ad_queue[i]]
    \o [i \in 1 .. n |-> [handle |-> (ad_next + i - 1) % AdDesc, chan |-> c, cur |-> TRUE]]

dma_arc_hs_get_handle_hw_first(n) == ad_next

\* The handle of the last of n blocks, read back after they were queued.
dma_arc_hs_get_handle_hw(n) == (ad_next + n - 1) % AdDesc

\* Bound: a handle comes round again only after its last completion was handled
\* (a full turn of 256 handles never waits for one interrupt), with room left
\* for a block of the linked channel.
AdFresh(n) ==
    \A i \in 0 .. n : LET h == (ad_next + i) % AdDesc
                      IN  /\ h \notin ad_done
                          /\ \A j \in 1 .. Len(ad_queue) : ad_queue[j].handle # h

\* dma_config and dma_start of channel 0, and of dma_config alone for the
\* channel it is linked to; an active channel would not be started again, but
\* the configuration has just made it PREPARED.
dma_arc_hs_start(n, link) ==
    /\ ad_chan' = [c \in Channels |->
                     IF c = 0 THEN [state |-> "ACTIVE", linked |-> link,
                                    handle |-> dma_arc_hs_get_handle_hw(n)]
                     ELSE IF link THEN [ad_chan[c] EXCEPT !.state = "PREPARED"]
                     ELSE ad_chan[c]]
    /\ ad_queue' = dma_arc_hs_start_hw(0, n)
    /\ ad_next' = (ad_next + n) % AdDesc

\* dma_arc_hs_transfer up to its polling loop: the blocks are queued and the
\* channel is made active under the spinlocks, so no interrupt comes between.
dma_arc_hs_transfer(n, link) ==
    /\ ad_isr.pc = "out" /\ ad_call # "wait"
    /\ AdFresh(n)
    /\ dma_arc_hs_start(n, link)
    /\ ad_call' = "wait"
    /\ UNCHANGED <<ad_done, ad_int, ad_isr>>

\* An idle channel ends the polling loop; dma_stop then has nothing to do.
dma_arc_hs_get_status ==
    /\ ad_isr.pc = "out" /\ ad_call = "wait"
    /\ ad_chan[0].state # "ACTIVE"
    /\ ad_call' = "ok"
    /\ UNCHANGED <<ad_chan, ad_next, ad_queue, ad_done, ad_int, ad_isr>>

\* dma_stop: the channel is idle for the driver and the completion bit of its
\* last block is cleared; the engine is not told and keeps copying.
dma_arc_hs_stop ==
    IF ad_chan[0].state = "ACTIVE"
    THEN /\ ad_chan' = [ad_chan EXCEPT ![0].state = "IDLE"]
         /\ ad_done' = ad_done \ {ad_chan[0].handle}
    ELSE UNCHANGED <<ad_chan, ad_done>>

\* The time of dma_arc_hs_transfer is up: it stops the channel and returns
\* -ETIMEDOUT, also when the interrupt came after its last look.
AdTimeout ==
    /\ ad_isr.pc = "out" /\ ad_call = "wait"
    /\ dma_arc_hs_stop
    /\ ad_call' = "timeout"
    /\ UNCHANGED <<ad_next, ad_queue, ad_int, ad_isr>>

\* External: the engine copies the oldest block, sets its completion bit and
\* the interrupt status, at any time, inside the interrupt handler too.
AdEngineDone ==
    /\ ad_queue # <<>>
    /\ ad_queue' = Tail(ad_queue)
    /\ ad_done' = ad_done \cup {Head(ad_queue).handle}
    /\ ad_int' = ad_int \cup {"DONE"}
    /\ UNCHANGED <<ad_chan, ad_next, ad_isr, ad_call>>

\* External: a bus error ends the oldest block without its completion bit; the
\* blocks behind it may be copied or end in an error of their own.
AdEngineError ==
    /\ ad_queue # <<>>
    /\ ad_queue' = Tail(ad_queue)
    /\ ad_int' = ad_int \cup {"BUS_ERR"}
    /\ UNCHANGED <<ad_chan, ad_next, ad_done, ad_isr, ad_call>>

\* dma_arc_hs_isr reads the interrupt status; a clear status ends it.
AdIsrRead ==
    /\ \/ ad_isr.pc = "out" /\ ad_int # {}
       \/ ad_isr.pc = "read"
    /\ ad_isr' = IF ad_int = {} THEN AdOut ELSE [AdOut EXCEPT !.pc = "clear", !.status = ad_int]
    /\ UNCHANGED <<ad_chan, ad_next, ad_queue, ad_done, ad_int, ad_call>>

\* It clears what it read before it looks at any completion bit, and leaves
\* when no completion was among it: errors are only logged.
AdIsrClear ==
    /\ ad_isr.pc = "clear"
    /\ ad_int' = ad_int \ ad_isr.status
    /\ ad_isr' = IF "DONE" \in ad_isr.status THEN [AdOut EXCEPT !.pc = "scan"] ELSE AdOut
    /\ UNCHANGED <<ad_chan, ad_next, ad_queue, ad_done, ad_call>>

\* dma_arc_hs_process_handle for the handles of a completion register: the
\* active channel that waits for one becomes idle, and its linked channel is
\* started when it is prepared (dma_arc_hs_trigger_linked_channel).
AdFinished(handles) ==
    {c \in Channels : ad_chan[c].state = "ACTIVE" /\ ad_chan[c].handle \in handles}

AdTriggers(handles) ==
    0 \in AdFinished(handles) /\ ad_chan[0].linked /\ ad_chan[1].state = "PREPARED"

dma_arc_hs_process_handle(handles) ==
    /\ ad_chan' = [c \in Channels |->
         IF c = 1 /\ AdTriggers(handles)
         THEN [ad_chan[c] EXCEPT !.state = "ACTIVE", !.handle = dma_arc_hs_get_handle_hw(1)]
         ELSE IF c \in AdFinished(handles) THEN [ad_chan[c] EXCEPT !.state = "IDLE"]
         ELSE ad_chan[c]]
    /\ IF AdTriggers(handles)
       THEN ad_queue' = dma_arc_hs_start_hw(1, 1) /\ ad_next' = (ad_next + 1) % AdDesc
       ELSE UNCHANGED <<ad_queue, ad_next>>

\* One completion register is read, cleared and its handles are processed;
\* after the last one the handler looks at the status again.
AdIsrScan ==
    /\ ad_isr.pc = "scan"
    /\ LET bits == {h \in ad_done : h \div AdGroup = ad_isr.group}
       IN  ad_done' = ad_done \ bits /\ dma_arc_hs_process_handle(bits)
    /\ ad_isr' = IF ad_isr.group + 1 \in Groups THEN [ad_isr EXCEPT !.group = @ + 1]
                 ELSE [AdOut EXCEPT !.pc = "read"]
    /\ UNCHANGED <<ad_int, ad_call>>

AdNext ==
    \/ \E n \in 1 .. AdBlocks, link \in BOOLEAN : dma_arc_hs_transfer(n, link)
    \/ dma_arc_hs_get_status
    \/ AdTimeout
    \/ AdEngineDone \/ AdEngineError
    \/ AdIsrRead \/ AdIsrClear \/ AdIsrScan

AdSpec == AdInit /\ [][AdNext]_ad_vars

-----------------------------------------------------------------------------

\* Types of the state.
AdTypeOK ==
    /\ ad_chan \in [Channels -> [state : {"FREE", "PREPARED", "ACTIVE", "IDLE"},
                                 handle : Handles, linked : BOOLEAN]]
    /\ ad_next \in Handles
    /\ \A i \in 1 .. Len(ad_queue) :
         ad_queue[i] \in [handle : Handles, chan : Channels, cur : BOOLEAN]
    /\ ad_done \subseteq Handles
    /\ ad_int \subseteq {"DONE", "BUS_ERR"}
    /\ ad_isr \in [pc : {"out", "read", "clear", "scan"}, group : Groups,
                   status : SUBSET {"DONE", "BUS_ERR"}]
    /\ ad_call \in {"none", "wait", "ok", "timeout"}

AdPending(c) == \E i \in 1 .. Len(ad_queue) : ad_queue[i].chan = c /\ ad_queue[i].cur

\* dma_arc_hs_transfer returns 0 only when every block of this very transfer
\* has left the engine: neither a late completion of a transfer that timed out
\* nor the completion of an earlier block nor a wrapped handle ends it early.
AdTrueSuccess == ad_call = "ok" => ~AdPending(0)

=============================================================================
