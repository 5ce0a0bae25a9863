-------------------------------- MODULE VUart --------------------------------
(***************************************************************************)
(* The virtual UART: one ring of the descriptor shared by the firmware     *)
(* driver (drivers/serial/uart_tt_virt.c, include/tenstorrent/             *)
(* uart_tt_virt.h) and the host's tool (scripts/tooling/vuart.c,           *)
(* console.c).  The ring is the transmit one (vu_role = "tx": the device   *)
(* produces, the host consumes) or the receive one ("rx": the host         *)
(* produces, the device consumes); the two share only the timer that       *)
(* stands for the interrupt.                                               *)
(*                                                                         *)
(* Head and tail are free-running 32-bit counters: VuWrap stands for 2^32. *)
(* The device's thread runs poll_in and poll_out without the driver's      *)
(* spinlock; the timer handler preempts it, and the host runs beside both. *)
(***************************************************************************)
EXTENDS Naturals, Sequences

CONSTANTS VuCap,    \* capacity of the ring, in bytes (rx_cap, tx_cap)
          VuWrap,   \* the counters' modulus, 2^32 in the code
          VuBytes,  \* the bytes that are sent
          VuIrqs    \* the interrupt sources: subset of {"rx", "tx", "err"}

ASSUME VuAssumption ==
    /\ VuCap \in Nat \ {0} /\ VuWrap \in Nat /\ VuCap < VuWrap
    /\ VuIrqs \subseteq {"rx", "tx", "err"}

VARIABLES vu_role,   \* which ring this is
          vu_ring,   \* [head, tail, buf]: what both sides see
          vu_queue,  \* history: the bytes accepted and not yet consumed
          vu_exact,  \* history: the bytes last consumed were the ones that were due
          vu_thr,    \* the device thread inside poll_in or poll_out
          vu_isr,    \* the timer handler, with the spinlock held for a burst
          vu_host,   \* the host inside vuart_getc, vuart_read or vuart_putc
          vu_irq,    \* rx_irq_en, tx_irq_en, err_irq_en
          vu_timer,  \* irq_timer is running
          vu_start   \* irq_*_enable calls between the unlock and k_timer_start

vu_vars == <<vu_role, vu_ring, vu_queue, vu_exact, vu_thr, vu_isr, vu_host, vu_irq,
             vu_timer, vu_start>>

VuAt(pc, ch, at, left) == [pc |-> pc, ch |-> ch, at |-> at, left |-> left]
VuIdle == VuAt("idle", <<>>, 0, 0)

VuTypeOK ==
    /\ vu_role \in {"tx", "rx"}
    /\ vu_ring \in [head : 0 .. VuWrap - 1, tail : 0 .. VuWrap - 1,
                    buf : [0 .. VuCap - 1 -> VuBytes]]
    /\ vu_queue \in Seq(VuBytes)
    /\ \A p \in {vu_thr, vu_isr, vu_host} :
          /\ p.pc \in {"idle", "loop", "full", "store", "publish", "load", "cas", "take", "check"}
          /\ p.at \in 0 .. VuWrap - 1 /\ p.left \in 0 .. VuCap
    /\ vu_exact \in BOOLEAN /\ vu_irq \subseteq VuIrqs /\ vu_start \subseteq VuIrqs /\ vu_timer \in BOOLEAN

tt_vuart_buf_size  == (vu_ring.tail + VuWrap - vu_ring.head) % VuWrap
tt_vuart_buf_space == (VuCap + VuWrap - tt_vuart_buf_size) % VuWrap
tt_vuart_buf_empty == tt_vuart_buf_size = 0
tt_vuart_buf_full_late == tt_vuart_buf_size > VuCap

tt_vuart_buf_full  == tt_vuart_buf_size = VuCap
VuUp_unwrapped(counter, n) == counter + n

VuUp(counter, n) == (counter + n) % VuWrap
VuFreshRing(buf) == [head |-> 0, tail |-> 0, buf |-> buf]

VuInit ==
    /\ vu_role \in {"tx", "rx"}
    /\ \E b \in VuBytes : vu_ring = VuFreshRing([i \in 0 .. VuCap - 1 |-> b])
    /\ vu_queue = <<>> /\ vu_exact = TRUE
    /\ vu_thr = VuIdle /\ vu_isr = VuIdle /\ vu_host = VuIdle
    /\ vu_irq = {} /\ vu_timer = FALSE /\ vu_start = {}

\* Bytes chs leave the ring: the consumer moves head from h past them.
VuConsume(h, chs) ==
    /\ vu_ring' = [vu_ring EXCEPT !.head = VuUp(h, Len(chs))]
    /\ vu_exact' = (Len(chs) <= Len(vu_queue) /\ chs = SubSeq(vu_queue, 1, Len(chs)))
    /\ vu_queue' = SubSeq(vu_queue, Len(chs) + 1, Len(vu_queue))
\* A byte is published: tail moves from t to t + 1 over the byte ch.
VuPublish(t, ch) ==
    /\ vu_ring' = [vu_ring EXCEPT !.tail = VuUp(t, 1)]
    /\ vu_queue' = vu_queue \o ch
VuStore(t, ch) == vu_ring' = [vu_ring EXCEPT !.buf[t % VuCap] = ch[1]]
VuKeep == UNCHANGED <<vu_ring, vu_queue, vu_exact>>

-----------------------------------------------------------------------------
(* tt_vuart_poll_out and tt_vuart_poll_in in the device's role, as the steps
   of a process p whose next state is q: p.left bytes remain of its burst,
   after which it is at "end". *)

VuNextByte(p, pc, end) ==
    IF p.left > 1 THEN VuAt(pc, <<>>, 0, p.left - 1) ELSE VuAt(end, <<>>, 0, 0)

tt_vuart_poll_out(p, q, end) ==
    \/ /\ p.pc = "full" /\ tt_vuart_buf_full       \* ++tx_oflow, byte dropped
       /\ q = VuNextByte(p, "full", end) /\ VuKeep
    \/ /\ p.pc = "full" /\ ~tt_vuart_buf_full
       /\ \E ch \in VuBytes : q = VuAt("store", <<ch>>, vu_ring.tail, p.left)
       /\ VuKeep
    \/ /\ p.pc = "store" /\ VuStore(p.at, p.ch)
       /\ q = [p EXCEPT !.pc = "publish"]
       /\ UNCHANGED <<vu_queue, vu_exact>>
    \/ /\ p.pc = "publish" /\ VuPublish(p.at, p.ch)
       /\ q = VuNextByte(p, "full", end)
       /\ UNCHANGED vu_exact

tt_vuart_poll_in(p, q, end) ==
    \/ /\ p.pc = "load" /\ tt_vuart_buf_empty
       /\ q = VuNextByte(p, "load", end) /\ VuKeep
    \/ /\ p.pc = "load" /\ ~tt_vuart_buf_empty
       /\ q = VuAt("cas", <<vu_ring.buf[vu_ring.head % VuCap]>>, vu_ring.head, p.left)
       /\ VuKeep
    \/ /\ p.pc = "cas" /\ p.at = vu_ring.head
       /\ VuConsume(p.at, p.ch)
       /\ q = VuNextByte(p, "load", end)
    \/ /\ p.pc = "cas" /\ p.at # vu_ring.head
       /\ q = VuAt("load", <<>>, 0, p.left) /\ VuKeep

\* The thread runs only while the timer handler does not.
uart_tt_virt_poll_out ==
    /\ vu_role = "tx" /\ vu_isr = VuIdle
    /\ \/ vu_thr = VuIdle /\ vu_thr' = VuAt("full", <<>>, 0, 1) /\ VuKeep
       \/ tt_vuart_poll_out(vu_thr, vu_thr', "idle")
    /\ UNCHANGED <<vu_role, vu_isr, vu_host, vu_irq, vu_timer, vu_start>>

uart_tt_virt_poll_in ==
    /\ vu_role = "rx" /\ vu_isr = VuIdle
    /\ \/ vu_thr = VuIdle /\ vu_thr' = VuAt("load", <<>>, 0, 1) /\ VuKeep
       \/ tt_vuart_poll_in(vu_thr, vu_thr', "idle")
    /\ UNCHANGED <<vu_role, vu_isr, vu_host, vu_irq, vu_timer, vu_start>>

-----------------------------------------------------------------------------
(* The interrupt that is a timer. *)

\* irq_{rx,tx,err}_enable: the flag under the lock, the timer after it.
VuIrqEnable(k) ==
    /\ vu_isr = VuIdle /\ k \notin vu_start
    /\ vu_irq' = vu_irq \cup {k} /\ vu_start' = vu_start \cup {k}
    /\ UNCHANGED <<vu_role, vu_ring, vu_queue, vu_exact, vu_thr, vu_isr, vu_host, vu_timer>>
VuTimerStart(k) ==
    /\ vu_isr = VuIdle /\ k \in vu_start
    /\ vu_timer' = TRUE /\ vu_start' = vu_start \ {k}
    /\ UNCHANGED <<vu_role, vu_ring, vu_queue, vu_exact, vu_thr, vu_isr, vu_host, vu_irq>>
VuDisable_stops(k) ==
    /\ vu_irq' = vu_irq \ {k}
    /\ vu_timer' = FALSE

\* irq_{rx,tx,err}_disable, all under the lock.
VuDisable(k) ==
    /\ vu_irq' = vu_irq \ {k}
    /\ vu_timer' = (vu_timer /\ vu_irq \ {k} # {})
VuIrqDisable(k) ==
    /\ vu_isr = VuIdle /\ k \in vu_irq /\ VuDisable(k)
    /\ UNCHANGED <<vu_role, vu_ring, vu_queue, vu_exact, vu_thr, vu_isr, vu_host, vu_start>>

uart_tt_virt_irq_rx_ready == "rx" \in vu_irq /\ vu_role = "rx" /\ ~tt_vuart_buf_empty
uart_tt_virt_irq_tx_ready == "tx" \in vu_irq /\ vu_role = "tx" /\ tt_vuart_buf_space # 0

VuSmaller(a, b) == IF a < b THEN a ELSE b
uart_tt_virt_fifo_read(n) == vu_isr' = VuAt("load", <<>>, 0, VuSmaller(n, tt_vuart_buf_size))
uart_tt_virt_fifo_fill(n) == vu_isr' = VuAt("full", <<>>, 0, VuSmaller(n, tt_vuart_buf_space))

\* The handler: while an interrupt is pending, the user's callback reads, or
\* fills (when no poll_out is under way: one producer at a time), or turns the
\* transmit interrupt off because it has nothing to send.
uart_tt_virt_irq_handler ==
    /\ \/ /\ vu_isr = VuIdle /\ vu_timer
          /\ vu_isr' = VuAt("loop", <<>>, 0, 0)
          /\ VuKeep /\ UNCHANGED <<vu_irq, vu_timer>>
       \/ /\ vu_isr.pc = "loop" /\ ~uart_tt_virt_irq_rx_ready /\ ~uart_tt_virt_irq_tx_ready
          /\ vu_isr' = VuIdle
          /\ VuKeep /\ UNCHANGED <<vu_irq, vu_timer>>
       \/ /\ vu_isr.pc = "loop" /\ uart_tt_virt_irq_rx_ready
          /\ \E n \in 1 .. VuCap : uart_tt_virt_fifo_read(n)
          /\ VuKeep /\ UNCHANGED <<vu_irq, vu_timer>>
       \/ /\ vu_isr.pc = "loop" /\ uart_tt_virt_irq_tx_ready /\ vu_thr = VuIdle
          /\ \E n \in 1 .. VuCap : uart_tt_virt_fifo_fill(n)
          /\ VuKeep /\ UNCHANGED <<vu_irq, vu_timer>>
       \/ /\ vu_isr.pc = "loop" /\ uart_tt_virt_irq_tx_ready
          /\ VuDisable("tx") /\ VuKeep /\ UNCHANGED vu_isr
       \/ /\ \/ tt_vuart_poll_out(vu_isr, vu_isr', "loop")
             \/ tt_vuart_poll_in(vu_isr, vu_isr', "loop")
          /\ UNCHANGED <<vu_irq, vu_timer>>
    /\ UNCHANGED <<vu_role, vu_thr, vu_host, vu_start>>

\* The next boot stage takes the processor over: it adopts the descriptor the
\* stage before published, or starts a new one (cold boot, other layout), in
\* which case the host finds no magic and starts over too.
uart_tt_virt_init(adoptable) ==
    /\ vu_thr' = VuIdle /\ vu_isr' = VuIdle
    /\ vu_irq' = {} /\ vu_timer' = FALSE /\ vu_start' = {}
    /\ IF adoptable
       THEN UNCHANGED <<vu_ring, vu_queue, vu_host>>
       ELSE vu_ring' = VuFreshRing(vu_ring.buf) /\ vu_queue' = <<>> /\ vu_host' = VuIdle
    /\ UNCHANGED <<vu_role, vu_exact>>

-----------------------------------------------------------------------------
(* The host. *)

\* vuart_getc takes one byte, vuart_read as many as lie before the end of the
\* buffer: the copy first, then the head.
vuart_read ==
    /\ vu_role = "tx"
    /\ \/ /\ vu_host = VuIdle /\ ~tt_vuart_buf_empty
          /\ LET o == vu_ring.head % VuCap
                 most == VuSmaller(tt_vuart_buf_size, VuCap - o)
             IN  \E n \in 1 .. most :
                    vu_host' = VuAt("take", [i \in 1 .. n |-> vu_ring.buf[o + i - 1]], 0, 0)
          /\ VuKeep
       \/ /\ vu_host.pc = "take" /\ VuConsume(vu_ring.head, vu_host.ch)
          /\ vu_host' = VuIdle
    /\ UNCHANGED <<vu_role, vu_thr, vu_isr, vu_irq, vu_timer, vu_start>>

\* Bound: a preempted poll_in does not see 2^32 bytes go by.
VuNoLap == vu_thr.pc = "cas" /\ vu_thr.at # vu_ring.head => VuUp(vu_ring.tail, 1) # vu_thr.at

\* The console sends a byte when vuart_space is not 0; vuart_putc stores it
\* and only then looks at the space before it moves the tail.
vuart_putc ==
    /\ vu_role = "rx"
    /\ \/ /\ vu_host = VuIdle /\ tt_vuart_buf_space > 0 /\ VuNoLap
          /\ \E ch \in VuBytes : vu_host' = VuAt("store", <<ch>>, 0, 0)
          /\ VuKeep
       \/ /\ vu_host.pc = "store" /\ VuStore(vu_ring.tail, vu_host.ch)
          /\ vu_host' = [vu_host EXCEPT !.pc = "check"]
          /\ UNCHANGED <<vu_queue, vu_exact>>
       \/ /\ vu_host.pc = "check" /\ vu_host' = VuIdle
          /\ IF tt_vuart_buf_space > 0
             THEN VuPublish(vu_ring.tail, vu_host.ch) /\ UNCHANGED vu_exact
             ELSE VuKeep
    /\ UNCHANGED <<vu_role, vu_thr, vu_isr, vu_irq, vu_timer, vu_start>>

VuNext ==
    \/ uart_tt_virt_poll_out \/ uart_tt_virt_poll_in
    \/ \E k \in VuIrqs : VuIrqEnable(k) \/ VuTimerStart(k) \/ VuIrqDisable(k)
    \/ uart_tt_virt_irq_handler
    \/ \E adoptable \in BOOLEAN : uart_tt_virt_init(adoptable)
    \/ vuart_read \/ vuart_putc

\* The timer expires again and again and its handler runs to the end, and a
\* thread that enabled an interrupt goes on to start the timer.
VuFair ==
    /\ WF_vu_vars(uart_tt_virt_irq_handler)
    /\ \A k \in VuIrqs : WF_vu_vars(VuTimerStart(k))

VuSpec == VuInit /\ [][VuNext]_vu_vars /\ VuFair

-----------------------------------------------------------------------------
\* Between head and tail lie exactly the bytes accepted and not yet consumed,
\* in order, and never more than the capacity: no producer overwrites an
\* unread byte, no consumer sees a byte before it is stored, across the wrap
\* of the counters (uart_tt_virt.h, tt_vuart_poll_out and the host's putc).
\* And what a consumer got was due: every byte once, with the thread's poll_in
\* preempted by the timer's fifo_read and the next boot stage adopting the ring.
VuRingHolds ==
    /\ tt_vuart_buf_size = Len(vu_queue)
    /\ Len(vu_queue) <= VuCap
    /\ \A i \in 1 .. Len(vu_queue) :
          vu_queue[i] = vu_ring.buf[VuUp(vu_ring.head, i - 1) % VuCap]
    /\ vu_exact

\* A byte that waits with the receive interrupt enabled is consumed, or the
\* interrupt is disabled, or the ring starts over.
VuServed ==
    \A h \in 0 .. VuWrap - 1 :
        (uart_tt_virt_irq_rx_ready /\ vu_ring.head = h)
            ~> (vu_ring.head # h \/ ~uart_tt_virt_irq_rx_ready)
=============================================================================
