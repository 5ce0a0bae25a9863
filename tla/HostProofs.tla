----------------------------- MODULE HostProofs -----------------------------
(* TLAPS proofs about the virtual UART and the tool that reads it on the     *)
(* host: between head and tail lie exactly the bytes accepted and not yet    *)
(* consumed, whoever preempts whom and wherever the counters wrap, when the  *)
(* capacity divides their modulus; and the tool reaches the rings only       *)
(* through a live mapping.                                                   *)
EXTENDS VUart, HostTool, Integers, TLAPS

(* Sequences of the same length with the same entries are the same.          *)
LEMMA SeqEqual ==
  ASSUME NEW S, NEW s \in Seq(S), NEW t \in Seq(S), Len(s) = Len(t),
         \A i \in 1 .. Len(s) : s[i] = t[i]
  PROVE  s = t
<1>1. PICK n : n = Len(s)
  BY Zenon
<1>2. s \in [1 .. n -> S] /\ t \in [1 .. n -> S] /\ \A i \in 1 .. n : s[i] = t[i]
  BY <1>1, SMTT(30)
<1>3. s = [i \in 1 .. n |-> s[i]] /\ t = [i \in 1 .. n |-> t[i]]
  BY <1>2, Zenon
<1>4. [i \in 1 .. n |-> s[i]] = [i \in 1 .. n |-> t[i]]
  BY <1>2, Zenon
<1> QED
  BY <1>3, <1>4, Zenon

-----------------------------------------------------------------------------
(* Remainders.                                                               *)

(* A multiple is at least its factor.                                        *)
LEMMA TimesGrows ==
  ASSUME NEW c \in Nat, NEW k \in Int
  PROVE  /\ k >= 1 => c * k >= c
         /\ k <= -1 => c * k <= -c
<1>1. ASSUME k >= 1 PROVE c * k >= c
  <2>1. k - 1 \in Nat /\ c * (k - 1) \in Nat
    BY <1>1, SMTT(30)
  <2>2. c * k = c * (k - 1) + c
    BY SMTT(30)
  <2> QED
    BY <2>1, <2>2, SMTT(30)
<1>2. ASSUME k <= -1 PROVE c * k <= -c
  <2>1. -k - 1 \in Nat /\ c * (-k - 1) \in Nat
    BY <1>2, SMTT(30)
  <2>2. c * k = -(c * (-k - 1)) - c
    BY SMTT(30)
  <2> QED
    BY <2>1, <2>2, SMTT(30)
<1> QED
  BY <1>1, <1>2, Zenon

(* The remainder is what is left over a multiple.                            *)
LEMMA ModUnique ==
  ASSUME NEW c \in Nat \ {0}, NEW q \in Int, NEW r \in 0 .. c - 1
  PROVE  (c * q + r) % c = r
<1> DEFINE z == c * q + r
<1>1. z \in Int
  BY SMTT(30)
<1>2. PICK d \in Int, m \in 0 .. c - 1 : z % c = m /\ z = c * d + m
  <2>1. z % c \in 0 .. c - 1 /\ z \div c \in Int /\ z = c * (z \div c) + (z % c)
    BY <1>1, SMTT(30)
  <2> QED
    BY <2>1, Zenon
<1> HIDE DEF z
<1>3. c * (q - d) = m - r
  BY <1>2, SMTT(30) DEF z
<1>4. q - d \in Int /\ ~(q - d >= 1) /\ ~(q - d <= -1)
  BY <1>3, TimesGrows, SMTT(30)
<1>5. q = d
  BY <1>4, SMTT(30)
<1>6. m = r
  BY <1>3, <1>5, SMTT(30)
<1> QED
  BY <1>2, <1>6, Zenon DEF z

(* Division with a remainder.                                                *)
LEMMA DivMod ==
  ASSUME NEW c \in Nat \ {0}, NEW x \in Nat
  PROVE  \E q \in Int, r \in 0 .. c - 1 : x % c = r /\ x = c * q + r
<1>1. x % c \in 0 .. c - 1 /\ x \div c \in Int /\ x = c * (x \div c) + (x % c)
  BY SMTT(30)
<1> QED
  BY <1>1, Zenon

(* A remainder modulo a multiple of c has the remainder modulo c.            *)
LEMMA ModMod ==
  ASSUME NEW c \in Nat \ {0}, NEW w \in Nat \ {0}, w % c = 0, NEW x \in Nat
  PROVE  (x % w) % c = x % c
<1>1. PICK m \in Int : w = c * m
  <2>1. w \div c \in Int /\ w = c * (w \div c)
    BY SMTT(30)
  <2> QED
    BY <2>1, Zenon
<1>2. PICK q \in Int, y \in Nat : x % w = y /\ x = w * q + y
  <2>1. x % w \in Nat /\ x \div w \in Int /\ x = w * (x \div w) + (x % w)
    BY SMTT(30)
  <2> QED
    BY <2>1, Zenon
<1>3. PICK p \in Int, r \in 0 .. c - 1 : y % c = r /\ y = c * p + r
  <2>1. y % c \in 0 .. c - 1 /\ y \div c \in Int /\ y = c * (y \div c) + (y % c)
    BY SMTT(30)
  <2> QED
    BY <2>1, Zenon
<1>4. m * q + p \in Int /\ x = c * (m * q + p) + r
  BY <1>1, <1>2, <1>3, SMTT(30)
<1>5. x % c = r
  BY <1>4, ModUnique, Zenon
<1> QED
  BY <1>2, <1>3, <1>5, Zenon

(* Numbers less than c apart have different remainders.                      *)
LEMMA ModApart ==
  ASSUME NEW c \in Nat \ {0}, NEW a \in Nat, NEW b \in Nat, a < b, b - a < c
  PROVE  a % c # b % c
<1>1. PICK p \in Int, r \in 0 .. c - 1 : a % c = r /\ a = c * p + r
  <2>1. a % c \in 0 .. c - 1 /\ a \div c \in Int /\ a = c * (a \div c) + (a % c)
    BY SMTT(30)
  <2> QED
    BY <2>1, Zenon
<1>2. PICK q \in Int, s \in 0 .. c - 1 : b % c = s /\ b = c * q + s
  <2>1. b % c \in 0 .. c - 1 /\ b \div c \in Int /\ b = c * (b \div c) + (b % c)
    BY SMTT(30)
  <2> QED
    BY <2>1, Zenon
<1>3. SUFFICES ASSUME r = s PROVE FALSE
  BY <1>1, <1>2, Zenon
<1>4. c * (q - p) = b - a
  BY <1>1, <1>2, <1>3, SMTT(30)
<1>5. q - p \in Int /\ ~(q - p >= 1) /\ ~(q - p <= -1)
  BY <1>4, TimesGrows, SMTT(30)
<1>6. q = p
  BY <1>5, SMTT(30)
<1> QED
  BY <1>4, <1>6, SMTT(30)

(* A remainder can be taken before an addition.                              *)
LEMMA ModAdd ==
  ASSUME NEW w \in Nat \ {0}, NEW x \in Nat, NEW k \in Nat
  PROVE  ((x % w) + k) % w = (x + k) % w
<1>1. PICK q \in Int, y \in Nat : x % w = y /\ x = w * q + y
  <2>1. x % w \in Nat /\ x \div w \in Int /\ x = w * (x \div w) + (x % w)
    BY SMTT(30)
  <2> QED
    BY <2>1, Zenon
<1>2. PICK p \in Int, r \in 0 .. w - 1 : (y + k) % w = r /\ y + k = w * p + r
  <2>1. /\ (y + k) % w \in 0 .. w - 1 /\ (y + k) \div w \in Int
        /\ y + k = w * ((y + k) \div w) + ((y + k) % w)
    BY SMTT(30)
  <2> QED
    BY <2>1, Zenon
<1>3. q + p \in Int /\ x + k = w * (q + p) + r
  BY <1>1, <1>2, SMTT(30)
<1>4. (x + k) % w = r
  BY <1>3, ModUnique, Zenon
<1> QED
  BY <1>1, <1>2, <1>4, Zenon

-----------------------------------------------------------------------------
(* The ring.                                                                 *)

Counters == 0 .. VuWrap - 1
VuRings == [head : Counters, tail : Counters, buf : [0 .. VuCap - 1 -> VuBytes]]

(* The ring holds the bytes of the queue, in order, from head to tail.       *)
Holds(ring, queue) ==
    /\ ring \in VuRings /\ queue \in Seq(VuBytes) /\ Len(queue) <= VuCap
    /\ ring.tail = VuUp(ring.head, Len(queue))
    /\ \A i \in 1 .. Len(queue) : queue[i] = ring.buf[VuUp(ring.head, i - 1) % VuCap]

(* The constants, as the arithmetic wants them.                              *)
LEMMA Sizes == VuCap \in Nat \ {0} /\ VuWrap \in Nat \ {0} /\ VuCap < VuWrap
BY VuAssumption, SMTT(30)

(* Counting up by less than a turn.                                          *)
LEMMA UpIs ==
  ASSUME NEW h \in Counters, NEW n \in Nat, n < VuWrap
  PROVE  /\ VuUp(h, n) = IF h + n < VuWrap THEN h + n ELSE h + n - VuWrap
         /\ VuUp(h, n) \in Counters
BY Sizes, SMTT(30) DEF VuUp, Counters

(* How far one counter is ahead of another.                                  *)
Ahead(at, head) == (at + VuWrap - head) % VuWrap

(* The distance in terms of the two counters, before and after the wrap.     *)
LEMMA AheadIs ==
  ASSUME NEW h \in Counters, NEW a \in Counters
  PROVE  Ahead(a, h) = IF a >= h THEN a - h ELSE a + VuWrap - h
BY Sizes, SMTT(30) DEF Ahead, Counters

(* A counter that went up by n is n ahead (the increments of head and tail   *)
(* in uart_tt_virt.h).                                                       *)
LEMMA AheadUp ==
  ASSUME NEW h \in Counters, NEW n \in Nat, n < VuWrap
  PROVE  Ahead(VuUp(h, n), h) = n
<1>1. h \in Nat /\ h < VuWrap /\ VuWrap \in Nat
  BY Sizes, SMTT(30) DEF Counters
<1> QED
  BY <1>1, UpIs, AheadIs, SMTT(30)

(* The slot of a counter value, when the capacity divides the modulus.       *)
LEMMA SlotIs ==
  ASSUME VuWrap % VuCap = 0, NEW h \in Counters, NEW n \in Nat
  PROVE  /\ VuUp(h, n) % VuCap = (h + n) % VuCap
         /\ VuUp(h, n) % VuCap \in 0 .. VuCap - 1
<1>1. h + n \in Nat
  BY Sizes, SMTT(30) DEF Counters
<1>2. (h + n) % VuCap \in 0 .. VuCap - 1
  BY <1>1, Sizes, SMTT(30)
<1> QED
  BY <1>1, <1>2, Sizes, ModMod, Zenon DEF VuUp

(* The values of a ring's length have different slots.                       *)
LEMMA SlotsDiffer ==
  ASSUME VuWrap % VuCap = 0, NEW h \in Counters,
         NEW i \in Nat, NEW j \in Nat, i < j, j - i < VuCap
  PROVE  VuUp(h, i) % VuCap # VuUp(h, j) % VuCap
<1>1. h + i \in Nat /\ h + j \in Nat /\ h + i < h + j /\ (h + j) - (h + i) < VuCap
  BY Sizes, SMTT(30) DEF Counters
<1>2. (h + i) % VuCap # (h + j) % VuCap
  BY <1>1, Sizes, ModApart, Zenon
<1> QED
  BY <1>2, SlotIs, Zenon

(* A byte stored at the tail of a ring that is not full hides no other.      *)
LEMMA StoreKeeps ==
  ASSUME VuWrap % VuCap = 0, NEW ring, NEW queue, NEW b \in VuBytes,
         Holds(ring, queue), Len(queue) < VuCap
  PROVE  /\ Holds([ring EXCEPT !.buf[ring.tail % VuCap] = b], queue)
         /\ [ring EXCEPT !.buf[ring.tail % VuCap] = b].buf[ring.tail % VuCap] = b
         /\ [ring EXCEPT !.buf[ring.tail % VuCap] = b].tail = ring.tail
         /\ [ring EXCEPT !.buf[ring.tail % VuCap] = b].head = ring.head
<1> DEFINE s == ring.tail % VuCap
           ring2 == [ring EXCEPT !.buf[s] = b]
<1>1. ring \in VuRings /\ Len(queue) \in Nat /\ ring.head \in Counters
  BY SMTT(30) DEF Holds, VuRings
<1>2. s \in 0 .. VuCap - 1
  BY <1>1, SlotIs, Zenon DEF Holds
<1>3. /\ ring2 \in VuRings /\ ring2.head = ring.head /\ ring2.tail = ring.tail
      /\ ring2.buf = [ring.buf EXCEPT ![s] = b]
  BY <1>1, <1>2, Zenon DEF VuRings
<1>4. ring2.buf[s] = b
  BY <1>1, <1>2, <1>3, Zenon DEF VuRings
<1>5. ASSUME NEW i \in 1 .. Len(queue)
      PROVE  queue[i] = ring2.buf[VuUp(ring2.head, i - 1) % VuCap]
  <2>2. i - 1 \in Nat /\ i - 1 < Len(queue) /\ Len(queue) - (i - 1) < VuCap
    BY <1>1, Sizes, SMTT(30)
  <2>3. VuUp(ring.head, i - 1) % VuCap # s
    BY <1>1, <2>2, SlotsDiffer, SMTT(30) DEF Holds
  <2>4. VuUp(ring.head, i - 1) % VuCap \in 0 .. VuCap - 1
    BY <1>1, <2>2, SlotIs, Zenon
  <2>5. ring2.buf[VuUp(ring.head, i - 1) % VuCap] = ring.buf[VuUp(ring.head, i - 1) % VuCap]
    BY <1>1, <1>3, <2>3, <2>4, Zenon DEF VuRings
  <2> QED
    BY <1>3, <2>5, Zenon DEF Holds
<1> HIDE DEF ring2
<1>6. Holds(ring2, queue)
  BY <1>3, <1>5, Zenon DEF Holds
<1> QED
  BY <1>3, <1>4, <1>6, Zenon DEF ring2

(* Moving the tail over a byte that was stored appends it to the queue.      *)
LEMMA PublishKeeps ==
  ASSUME NEW ring, NEW queue, NEW b \in VuBytes,
         Holds(ring, queue), Len(queue) < VuCap, ring.buf[ring.tail % VuCap] = b
  PROVE  /\ Holds([ring EXCEPT !.tail = VuUp(ring.tail, 1)], queue \o <<b>>)
         /\ Len(queue \o <<b>>) = Len(queue) + 1
         /\ \A i \in 1 .. Len(queue) : (queue \o <<b>>)[i] = queue[i]
         /\ [ring EXCEPT !.tail = VuUp(ring.tail, 1)].head = ring.head
<1> DEFINE n == Len(queue)
           ring2 == [ring EXCEPT !.tail = VuUp(ring.tail, 1)]
           queue2 == queue \o <<b>>
<1>1. ring \in VuRings /\ queue \in Seq(VuBytes) /\ n \in Nat /\ ring.head \in Counters
  BY SMTT(30) DEF Holds, VuRings
<1>2. /\ queue2 \in Seq(VuBytes) /\ Len(queue2) = n + 1 /\ queue2[n + 1] = b
      /\ \A i \in 1 .. n : queue2[i] = queue[i]
  BY <1>1, SMTT(30)
<1>3. VuUp(ring.tail, 1) = VuUp(ring.head, n + 1)
  <2>h. ring.head \in Nat
    BY <1>1, Sizes, SMTT(30) DEF Counters
  <2>t. ring.tail = (ring.head + n) % VuWrap
    BY Zenon DEF Holds, VuUp
  <2>1. ring.tail = (ring.head + n) % VuWrap /\ ring.head + n \in Nat /\ ring.head \in Nat
    BY <1>1, <2>h, <2>t, SMTT(30)
  <2>2. (((ring.head + n) % VuWrap) + 1) % VuWrap = (ring.head + n + 1) % VuWrap
    BY <2>1, Sizes, ModAdd, ZenonT(40)
  <2>3. ring.head + n + 1 = ring.head + (n + 1)
    BY <1>1, <2>1, SMTT(30)
  <2> QED
    BY <2>1, <2>2, <2>3, Zenon DEF VuUp
<1>4. VuUp(ring.head, n + 1) \in Counters
  BY <1>1, Sizes, UpIs, SMTT(30)
<1>5. /\ ring2 \in VuRings /\ ring2.head = ring.head /\ ring2.buf = ring.buf
      /\ ring2.tail = VuUp(ring.head, n + 1)
  BY <1>1, <1>3, <1>4, Zenon DEF VuRings
<1>6. ASSUME NEW i \in 1 .. n + 1
      PROVE  queue2[i] = ring2.buf[VuUp(ring2.head, i - 1) % VuCap]
  <2>1. CASE i = n + 1
    <3>1. i - 1 = n
      BY <1>1, <2>1, SMTT(30)
    <3> QED
      BY <1>2, <1>5, <2>1, <3>1, Zenon DEF Holds
  <2>2. CASE i \in 1 .. n
    BY <1>2, <1>5, <2>2, Zenon DEF Holds
  <2> QED
    BY <1>1, <2>1, <2>2, SMTT(30)
<1>7. n + 1 <= VuCap
  BY <1>1, Sizes, SMTT(30)
<1> HIDE DEF ring2, queue2
<1>8. Holds(ring2, queue2)
  BY <1>2, <1>5, <1>6, <1>7, Zenon DEF Holds
<1> QED
  BY <1>2, <1>5, <1>8, Zenon DEF ring2, queue2

(* Moving the head past the first bytes takes them from the queue.           *)
LEMMA ConsumeKeeps ==
  ASSUME NEW ring, NEW queue, NEW k \in Nat, Holds(ring, queue), k <= Len(queue)
  PROVE  /\ Holds([ring EXCEPT !.head = VuUp(ring.head, k)], SubSeq(queue, k + 1, Len(queue)))
         /\ Len(SubSeq(queue, k + 1, Len(queue))) = Len(queue) - k
<1> DEFINE n == Len(queue)
           ring2 == [ring EXCEPT !.head = VuUp(ring.head, k)]
           queue2 == SubSeq(queue, k + 1, n)
<1>1. /\ ring \in VuRings /\ queue \in Seq(VuBytes) /\ n \in Nat /\ ring.head \in Counters
      /\ ring.head \in Nat /\ n <= VuCap
  BY Sizes, SMTT(30) DEF Holds, VuRings, Counters
<1>2. /\ queue2 \in Seq(VuBytes) /\ Len(queue2) = n - k
      /\ \A i \in 1 .. n - k : queue2[i] = queue[k + i]
  <2>1. k + 1 \in 1 .. n + 1 /\ n \in k .. n
    BY <1>1, SMTT(30)
  <2> QED
    BY <1>1, <2>1, SMTT(30)
<1>3. ASSUME NEW j \in Nat
      PROVE  VuUp(VuUp(ring.head, k), j) = VuUp(ring.head, k + j)
  <2>1. ring.head + k \in Nat /\ (ring.head + k) + j = ring.head + (k + j)
    BY <1>1, SMTT(30)
  <2>2. (((ring.head + k) % VuWrap) + j) % VuWrap = ((ring.head + k) + j) % VuWrap
    BY <2>1, Sizes, ModAdd, Zenon
  <2> QED
    BY <2>1, <2>2, Zenon DEF VuUp
<1>4. VuUp(ring.head, k) \in Counters
  BY <1>1, Sizes, UpIs, SMTT(30)
<1>5. /\ ring2 \in VuRings /\ ring2.head = VuUp(ring.head, k) /\ ring2.buf = ring.buf
      /\ ring2.tail = ring.tail
  BY <1>1, <1>4, Zenon DEF VuRings
<1>6. ring2.tail = VuUp(ring2.head, Len(queue2))
  <2>1. n - k \in Nat /\ k + (n - k) = n
    BY <1>1, SMTT(30)
  <2> QED
    BY <1>2, <1>3, <1>5, <2>1, Zenon DEF Holds
<1>7. ASSUME NEW i \in 1 .. n - k
      PROVE  queue2[i] = ring2.buf[VuUp(ring2.head, i - 1) % VuCap]
  <2>1. i - 1 \in Nat /\ k + i \in 1 .. n /\ (k + i) - 1 = k + (i - 1)
    BY <1>1, SMTT(30)
  <2>2. queue[k + i] = ring.buf[VuUp(ring.head, (k + i) - 1) % VuCap]
    BY <2>1, Zenon DEF Holds
  <2> QED
    BY <1>2, <1>3, <1>5, <2>1, <2>2, Zenon
<1>8. n - k <= VuCap
  BY <1>1, Sizes, SMTT(30)
<1> HIDE DEF ring2, queue2
<1>9. Holds(ring2, queue2)
  BY <1>2, <1>5, <1>6, <1>7, <1>8, Zenon DEF Holds
<1> QED
  BY <1>2, <1>9, Zenon DEF ring2, queue2

(* What vuart_read copies up to the end of the buffer is what is due.        *)
LEMMA CopyIsDue ==
  ASSUME VuWrap % VuCap = 0, NEW ring, NEW queue, Holds(ring, queue),
         NEW n \in Nat, n >= 1, n <= Len(queue), n <= VuCap - (ring.head % VuCap)
  PROVE  [i \in 1 .. n |-> ring.buf[(ring.head % VuCap) + i - 1]] = SubSeq(queue, 1, n)
<1>1. queue \in Seq(VuBytes) /\ Len(queue) \in Nat /\ ring.head \in Counters /\ ring.head \in Nat
  BY Sizes, SMTT(30) DEF Holds, VuRings, Counters
<1>2. PICK q \in Int, o \in 0 .. VuCap - 1 : ring.head % VuCap = o /\ ring.head = VuCap * q + o
  BY <1>1, Sizes, DivMod, ZenonT(40)
<1>0. n <= VuCap - o
  BY <1>2, Zenon
<1> DEFINE got == [i \in 1 .. n |-> ring.buf[o + i - 1]]
<1>3. ASSUME NEW i \in 1 .. n
      PROVE  got[i] = queue[i]
  <2>1. i - 1 \in Nat /\ o + (i - 1) \in 0 .. VuCap - 1 /\ o + i - 1 = o + (i - 1)
    BY <1>0, Sizes, SMTT(30)
  <2>2. ring.head + (i - 1) = VuCap * q + (o + (i - 1))
    BY <1>2, <2>1, Sizes, SMTT(30)
  <2>3. (ring.head + (i - 1)) % VuCap = o + (i - 1)
    <3>1. PICK r \in 0 .. VuCap - 1 : r = o + (i - 1)
      BY <2>1, Zenon
    <3>2. (VuCap * q + r) % VuCap = r
      BY Sizes, ModUnique, Zenon
    <3> QED
      BY <2>2, <3>1, <3>2, Zenon
  <2>4. VuUp(ring.head, i - 1) % VuCap = o + (i - 1)
    BY <1>1, <2>1, <2>3, SlotIs, Zenon
  <2> QED
    BY <1>1, <2>1, <2>4, SMTT(30) DEF Holds
<1>4. got \in Seq(VuBytes) /\ Len(got) = n
  <2>1. \A i \in 1 .. n : got[i] \in VuBytes
    <3>1. \A i \in 1 .. n : queue[i] \in VuBytes
      BY <1>1, SMTT(30)
    <3> QED
      BY <1>3, <3>1, Zenon
  <2> QED
    BY <2>1, SMTT(30)
<1>5. /\ SubSeq(queue, 1, n) \in Seq(VuBytes) /\ Len(SubSeq(queue, 1, n)) = n
      /\ \A i \in 1 .. n : SubSeq(queue, 1, n)[i] = queue[i]
  BY <1>1, SMTT(30)
<1> HIDE DEF got
<1>6. got = SubSeq(queue, 1, n)
  BY <1>3, <1>4, <1>5, SeqEqual, SMTT(30)
<1> QED
  BY <1>2, <1>6, Zenon DEF got

-----------------------------------------------------------------------------
(* The processes.                                                            *)

(* A process in the middle of a byte.                                        *)
IsProcess(p) == p = VuAt(p.pc, p.ch, p.at, p.left)

(* A device that produces: the place it found is still the tail, still free, *)
(* and once it has stored its byte the byte is there.                        *)
Producing(p, ring, queue) ==
    p.pc \in {"store", "publish"} =>
      /\ IsProcess(p) /\ p.at = ring.tail /\ Len(queue) < VuCap
      /\ \E b \in VuBytes : /\ p.ch = <<b>>
                            /\ p.pc = "publish" => ring.buf[ring.tail % VuCap] = b

(* A host that consumes has copied the first bytes of the queue.             *)
Reading(p, queue) ==
    p.pc = "take" => \E k \in 1 .. Len(queue) : p.ch = SubSeq(queue, 1, k)

(* A host that produces.                                                     *)
Putting(p, ring, queue) ==
    p.pc \in {"store", "check"} =>
      /\ IsProcess(p) /\ Len(queue) < VuCap
      /\ \E b \in VuBytes : /\ p.ch = <<b>>
                            /\ p.pc = "check" => ring.buf[ring.tail % VuCap] = b

(* A device that consumes holds the byte that is due, ...                    *)
Fresh(p, ring, queue) ==
    p.at = ring.head /\ Len(queue) >= 1 /\ p.ch = <<queue[1]>>
(* ... or, when it was preempted, a head so old that the tail has not come   *)
(* round to it, nor will with the byte the host is putting.                  *)
Stale(p, ring, queue, host) ==
    /\ p.at \in Counters
    /\ Ahead(p.at, ring.head) > Len(queue) + (IF host.pc \in {"store", "check"} THEN 1 ELSE 0)

TxPart ==
    /\ vu_thr.pc \in {"idle", "full", "store", "publish"}
    /\ vu_isr.pc \in {"idle", "loop", "full", "store", "publish"}
    /\ vu_host.pc \in {"idle", "take"}
    /\ vu_isr.pc \notin {"idle", "loop"} => vu_thr = VuIdle
    /\ Producing(vu_thr, vu_ring, vu_queue) /\ Producing(vu_isr, vu_ring, vu_queue)
    /\ Reading(vu_host, vu_queue)

RxPart ==
    /\ vu_thr.pc \in {"idle", "load", "cas"}
    /\ vu_isr.pc \in {"idle", "loop", "load", "cas"}
    /\ vu_host.pc \in {"idle", "store", "check"}
    /\ vu_isr.pc = "cas" => Fresh(vu_isr, vu_ring, vu_queue)
    /\ vu_thr.pc = "cas" => \/ Fresh(vu_thr, vu_ring, vu_queue)
                            \/ Stale(vu_thr, vu_ring, vu_queue, vu_host)
    /\ Putting(vu_host, vu_ring, vu_queue)

VuIInv ==
    /\ vu_role \in {"tx", "rx"} /\ vu_exact
    /\ Holds(vu_ring, vu_queue)
    /\ vu_role = "tx" => TxPart
    /\ vu_role = "rx" => RxPart

(* What the code reads of the counters.                                      *)
LEMMA SizeIsLength ==
  ASSUME Holds(vu_ring, vu_queue)
  PROVE  /\ Len(vu_queue) \in Nat /\ Len(vu_queue) <= VuCap
         /\ tt_vuart_buf_size = Len(vu_queue)
         /\ tt_vuart_buf_full <=> Len(vu_queue) = VuCap
         /\ tt_vuart_buf_empty <=> Len(vu_queue) = 0
         /\ tt_vuart_buf_space = VuCap - Len(vu_queue)
<1>1. Len(vu_queue) \in Nat /\ Len(vu_queue) <= VuCap /\ vu_ring.head \in Counters
  BY SMTT(30) DEF Holds, VuRings
<1>2. tt_vuart_buf_size = Len(vu_queue)
  BY <1>1, Sizes, AheadUp, SMTT(30) DEF Holds, Ahead, tt_vuart_buf_size
<1>3. tt_vuart_buf_space = VuCap - Len(vu_queue)
  <2>1. VuCap + VuWrap - Len(vu_queue) = (VuCap - Len(vu_queue)) + VuWrap
    BY <1>1, Sizes, SMTT(30)
  <2>2. VuCap - Len(vu_queue) \in 0 .. VuWrap - 1
    BY <1>1, Sizes, SMTT(30)
  <2>3. ((VuCap - Len(vu_queue)) + VuWrap) % VuWrap = VuCap - Len(vu_queue)
    BY <2>2, Sizes, SMTT(30)
  <2> QED
    BY <1>2, <2>1, <2>3, Zenon DEF tt_vuart_buf_space
<1> QED
  BY <1>1, <1>2, <1>3, Zenon DEF tt_vuart_buf_full, tt_vuart_buf_empty

(* A fresh ring, empty, with every process at rest, satisfies the invariant  *)
(* (uart_tt_virt_init).                                                      *)
LEMMA VuInitInv == VuInit => VuIInv
<1> SUFFICES ASSUME VuInit PROVE VuIInv
  BY Zenon
<1>1. PICK b \in VuBytes : vu_ring = VuFreshRing([i \in 0 .. VuCap - 1 |-> b])
  BY Zenon DEF VuInit
<1>2. Holds(vu_ring, vu_queue)
  <2>1. vu_queue = <<>> /\ vu_queue \in Seq(VuBytes) /\ Len(vu_queue) = 0
    BY SMTT(30) DEF VuInit
  <2>2. vu_ring \in VuRings /\ vu_ring.head = 0 /\ vu_ring.tail = 0
    BY <1>1, Sizes, SMTT(30) DEF VuFreshRing, VuRings, Counters
  <2>3. VuUp(0, 0) = 0
    BY Sizes, SMTT(30) DEF VuUp
  <2> QED
    BY <2>1, <2>2, <2>3, Sizes, SMTT(30) DEF Holds
<1>3. VuIdle.pc = "idle"
  BY Zenon DEF VuIdle, VuAt
<1>4. TxPart /\ RxPart
  BY <1>3, Zenon DEF VuInit, TxPart, RxPart, Producing, Reading, Putting
<1> QED
  BY <1>2, <1>4, Zenon DEF VuIInv, VuInit

(* The fields of a process.                                                  *)
LEMMA Fields ==
  ASSUME NEW pc, NEW ch, NEW at, NEW left
  PROVE  /\ VuAt(pc, ch, at, left).pc = pc /\ VuAt(pc, ch, at, left).ch = ch
         /\ VuAt(pc, ch, at, left).at = at /\ VuAt(pc, ch, at, left).left = left
         /\ IsProcess(VuAt(pc, ch, at, left))
BY Zenon DEF VuAt, IsProcess

(* After a byte the process takes up the next one or ends its call.          *)
LEMMA NextBytePc ==
  ASSUME NEW p, NEW pc, NEW end
  PROVE  VuNextByte(p, pc, end).pc \in {pc, end}
BY Fields, SMTT(30) DEF VuNextByte

(* Moving the program counter leaves the byte and the saved index of a       *)
(* process alone.                                                            *)
LEMMA Advances ==
  ASSUME NEW p, IsProcess(p), NEW pc
  PROVE  /\ [p EXCEPT !.pc = pc].pc = pc /\ [p EXCEPT !.pc = pc].ch = p.ch
         /\ [p EXCEPT !.pc = pc].at = p.at /\ IsProcess([p EXCEPT !.pc = pc])
BY SMTT(30) DEF VuAt, IsProcess

(* A step of tt_vuart_poll_out.                                              *)
LEMMA PollOut ==
  ASSUME VuWrap % VuCap = 0, Holds(vu_ring, vu_queue), NEW p, NEW q, NEW end \in {"idle", "loop"},
         Producing(p, vu_ring, vu_queue), tt_vuart_poll_out(p, q, end)
  PROVE  /\ Holds(vu_ring', vu_queue') /\ vu_exact' = vu_exact
         /\ Producing(q, vu_ring', vu_queue') /\ q.pc \in {"full", "store", "publish", end}
         /\ \A k \in 1 .. Len(vu_queue) :
              k \in 1 .. Len(vu_queue') /\ SubSeq(vu_queue', 1, k) = SubSeq(vu_queue, 1, k)
<1>n. Len(vu_queue) \in Nat /\ vu_queue \in Seq(VuBytes)
  BY SMTT(30) DEF Holds
<1>1. CASE p.pc = "full" /\ tt_vuart_buf_full /\ q = VuNextByte(p, "full", end) /\ VuKeep
  <2>1. q.pc \in {"full", end}
    BY <1>1, NextBytePc, Zenon
  <2> QED
    BY <1>1, <2>1, Zenon DEF VuKeep, Producing
<1>2. CASE /\ p.pc = "full" /\ ~tt_vuart_buf_full
           /\ \E ch \in VuBytes : q = VuAt("store", <<ch>>, vu_ring.tail, p.left)
           /\ VuKeep
  <2>1. PICK ch \in VuBytes : q = VuAt("store", <<ch>>, vu_ring.tail, p.left)
    BY <1>2, Zenon
  <2>2. q.pc = "store" /\ q.ch = <<ch>> /\ q.at = vu_ring.tail /\ IsProcess(q)
    BY <2>1, Fields, SMTT(30)
  <2>3. Len(vu_queue) < VuCap
    BY <1>2, <1>n, SizeIsLength, Sizes, SMTT(30)
  <2>4. Producing(q, vu_ring, vu_queue)
    BY <2>2, <2>3, Zenon DEF Producing
  <2> QED
    BY <1>2, <2>2, <2>4, Zenon DEF VuKeep
<1>3. CASE /\ p.pc = "store" /\ VuStore(p.at, p.ch) /\ q = [p EXCEPT !.pc = "publish"]
           /\ UNCHANGED <<vu_queue, vu_exact>>
  <2>1. PICK b \in VuBytes : p.ch = <<b>>
    BY <1>3, Zenon DEF Producing
  <2>2. p.at = vu_ring.tail /\ Len(vu_queue) < VuCap /\ IsProcess(p)
    BY <1>3, Zenon DEF Producing
  <2>3. vu_ring' = [vu_ring EXCEPT !.buf[vu_ring.tail % VuCap] = b]
    BY <1>3, <2>1, <2>2, SMTT(30) DEF VuStore
  <2>4. Holds(vu_ring', vu_queue) /\ vu_ring'.buf[vu_ring.tail % VuCap] = b /\ vu_ring'.tail = vu_ring.tail
    BY <2>2, <2>3, StoreKeeps, Zenon
  <2>5. q.pc = "publish" /\ q.ch = <<b>> /\ q.at = vu_ring.tail /\ IsProcess(q)
    BY <1>3, <2>1, <2>2, Advances, ZenonT(40)
  <2>6. Producing(q, vu_ring', vu_queue)
    BY <2>2, <2>4, <2>5, Zenon DEF Producing
  <2> QED
    BY <1>3, <2>4, <2>5, <2>6, Zenon
<1>4. CASE /\ p.pc = "publish" /\ VuPublish(p.at, p.ch) /\ q = VuNextByte(p, "full", end)
           /\ UNCHANGED vu_exact
  <2>1. PICK b \in VuBytes : p.ch = <<b>> /\ vu_ring.buf[vu_ring.tail % VuCap] = b
    BY <1>4, Zenon DEF Producing
  <2>2. p.at = vu_ring.tail /\ Len(vu_queue) < VuCap
    BY <1>4, Zenon DEF Producing
  <2>3. vu_ring' = [vu_ring EXCEPT !.tail = VuUp(vu_ring.tail, 1)] /\ vu_queue' = vu_queue \o <<b>>
    BY <1>4, <2>1, <2>2, Zenon DEF VuPublish
  <2>4. /\ Holds(vu_ring', vu_queue') /\ Len(vu_queue') = Len(vu_queue) + 1
        /\ \A i \in 1 .. Len(vu_queue) : vu_queue'[i] = vu_queue[i]
    <3>1. PICK ring, queue : ring = vu_ring /\ queue = vu_queue
      BY Zenon
    <3>2. Holds(ring, queue) /\ Len(queue) < VuCap /\ ring.buf[ring.tail % VuCap] = b
      BY <2>1, <2>2, <3>1, Zenon
    <3>3. /\ Holds([ring EXCEPT !.tail = VuUp(ring.tail, 1)], queue \o <<b>>)
          /\ Len(queue \o <<b>>) = Len(queue) + 1
          /\ \A i \in 1 .. Len(queue) : (queue \o <<b>>)[i] = queue[i]
      BY <3>2, PublishKeeps, SMTT(30)
    <3> QED
      BY <2>3, <3>1, <3>3, Zenon
  <2>5. q.pc \in {"full", end}
    BY <1>4, NextBytePc, Zenon
  <2>6. ASSUME NEW k \in 1 .. Len(vu_queue)
        PROVE  k \in 1 .. Len(vu_queue') /\ SubSeq(vu_queue', 1, k) = SubSeq(vu_queue, 1, k)
    <3>1. PICK s, t : s = vu_queue' /\ t = vu_queue
      BY Zenon
    <3>2. s \in Seq(VuBytes) /\ t \in Seq(VuBytes) /\ Len(s) = Len(t) + 1 /\ k \in 1 .. Len(t)
          /\ Len(t) \in Nat /\ \A i \in 1 .. Len(t) : s[i] = t[i]
      BY <1>n, <2>4, <3>1, Zenon DEF Holds
    <3>3. /\ SubSeq(s, 1, k) \in Seq(VuBytes) /\ Len(SubSeq(s, 1, k)) = k
          /\ \A i \in 1 .. k : SubSeq(s, 1, k)[i] = s[i]
      BY <3>2, SMTT(30)
    <3>4. /\ SubSeq(t, 1, k) \in Seq(VuBytes) /\ Len(SubSeq(t, 1, k)) = k
          /\ \A i \in 1 .. k : SubSeq(t, 1, k)[i] = t[i]
      BY <3>2, SMTT(30)
    <3>5. \A i \in 1 .. k : SubSeq(s, 1, k)[i] = SubSeq(t, 1, k)[i]
      BY <3>2, <3>3, <3>4, SMTT(30)
    <3>6. SubSeq(s, 1, k) = SubSeq(t, 1, k)
      BY <3>3, <3>4, <3>5, SeqEqual, Zenon
    <3> QED
      BY <3>1, <3>2, <3>6, SMTT(30)
  <2>7. Producing(q, vu_ring', vu_queue')
    BY <2>5, Zenon DEF Producing
  <2> QED
    BY <1>4, <2>4, <2>5, <2>6, <2>7, Zenon
<1> QED
  BY <1>1, <1>2, <1>3, <1>4, Zenon DEF tt_vuart_poll_out

(* A step of tt_vuart_poll_in: nothing moves, or the head moves by one.      *)
LEMMA PollIn ==
  ASSUME VuWrap % VuCap = 0, Holds(vu_ring, vu_queue), vu_exact,
         NEW p, NEW q, NEW end \in {"idle", "loop"},
         p.pc = "cas" /\ p.at = vu_ring.head => Fresh(p, vu_ring, vu_queue),
         tt_vuart_poll_in(p, q, end)
  PROVE  /\ Holds(vu_ring', vu_queue') /\ vu_exact'
         /\ q.pc \in {"load", "cas", end}
         /\ q.pc = "cas" => Fresh(q, vu_ring', vu_queue')
         /\ \/ UNCHANGED <<vu_ring, vu_queue>>
            \/ /\ q.pc # "cas" /\ Len(vu_queue) >= 1
               /\ vu_ring' = [vu_ring EXCEPT !.head = VuUp(vu_ring.head, 1)]
               /\ Len(vu_queue') = Len(vu_queue) - 1
<1>n. /\ Len(vu_queue) \in Nat /\ vu_queue \in Seq(VuBytes) /\ vu_ring.head \in Counters
      /\ vu_ring.head \in Nat /\ vu_ring.head < VuWrap
  <2>1. Len(vu_queue) \in Nat /\ vu_queue \in Seq(VuBytes) /\ vu_ring.head \in Counters
    BY SMTT(30) DEF Holds, VuRings
  <2>2. vu_ring.head \in Nat /\ vu_ring.head < VuWrap
    BY <2>1, Sizes, SMTT(30) DEF Counters
  <2> QED
    BY <2>1, <2>2, Zenon
<1>1. CASE p.pc = "load" /\ tt_vuart_buf_empty /\ q = VuNextByte(p, "load", end) /\ VuKeep
  <2>1. q.pc \in {"load", end}
    BY <1>1, NextBytePc, Zenon
  <2> QED
    BY <1>1, <2>1, Zenon DEF VuKeep
<1>2. CASE /\ p.pc = "load" /\ ~tt_vuart_buf_empty
           /\ q = VuAt("cas", <<vu_ring.buf[vu_ring.head % VuCap]>>, vu_ring.head, p.left)
           /\ VuKeep
  <2>1. q.pc = "cas" /\ q.ch = <<vu_ring.buf[vu_ring.head % VuCap]>> /\ q.at = vu_ring.head
    BY <1>2, Fields, SMTT(30)
  <2>2. Len(vu_queue) >= 1
    BY <1>2, <1>n, SizeIsLength, SMTT(30)
  <2>3. vu_queue[1] = vu_ring.buf[vu_ring.head % VuCap]
    <3>1. 1 \in 1 .. Len(vu_queue)
      BY <2>2, <1>n, SMTT(30)
    <3>2. vu_queue[1] = vu_ring.buf[VuUp(vu_ring.head, 1 - 1) % VuCap]
      BY <3>1, Zenon DEF Holds
    <3>3. VuUp(vu_ring.head, 0) = vu_ring.head
      BY <1>n, Sizes, UpIs, SMTT(30)
    <3> QED
      BY <3>2, <3>3, SMTT(30)
  <2>4. Fresh(q, vu_ring, vu_queue)
    BY <2>1, <2>2, <2>3, Zenon DEF Fresh
  <2> QED
    BY <1>2, <2>1, <2>4, Zenon DEF VuKeep
<1>3. CASE p.pc = "cas" /\ p.at = vu_ring.head /\ VuConsume(p.at, p.ch) /\ q = VuNextByte(p, "load", end)
  <2>1. Len(vu_queue) >= 1 /\ p.ch = <<vu_queue[1]>>
    BY <1>3, Zenon DEF Fresh
  <2>2. Len(p.ch) = 1 /\ p.ch = SubSeq(vu_queue, 1, 1)
    <3>1. SubSeq(vu_queue, 1, 1) = <<vu_queue[1]>>
      <4>1. vu_queue[1] \in VuBytes
        BY <2>1, <1>n, SMTT(30)
      <4>2. /\ SubSeq(vu_queue, 1, 1) \in Seq(VuBytes) /\ Len(SubSeq(vu_queue, 1, 1)) = 1
            /\ SubSeq(vu_queue, 1, 1)[1] = vu_queue[1]
        BY <2>1, <1>n, SMTT(30)
      <4>3. /\ <<vu_queue[1]>> \in Seq(VuBytes) /\ Len(<<vu_queue[1]>>) = 1
            /\ <<vu_queue[1]>>[1] = vu_queue[1]
        BY <4>1, SMTT(30)
      <4>4. \A i \in 1 .. 1 : SubSeq(vu_queue, 1, 1)[i] = <<vu_queue[1]>>[i]
        BY <4>2, <4>3, SMTT(30)
      <4> QED
        BY <4>2, <4>3, <4>4, SeqEqual, Zenon
    <3> QED
      BY <2>1, <3>1, Zenon
  <2>3. /\ vu_ring' = [vu_ring EXCEPT !.head = VuUp(vu_ring.head, 1)]
        /\ vu_queue' = SubSeq(vu_queue, 1 + 1, Len(vu_queue)) /\ vu_exact'
    BY <1>3, <2>1, <2>2, <1>n, Zenon DEF VuConsume
  <2>4. Holds(vu_ring', vu_queue') /\ Len(vu_queue') = Len(vu_queue) - 1
    <3>1. PICK ring, queue : ring = vu_ring /\ queue = vu_queue
      BY Zenon
    <3>2. Holds(ring, queue) /\ 1 <= Len(queue)
      BY <2>1, <1>n, <3>1, Zenon
    <3>3. /\ Holds([ring EXCEPT !.head = VuUp(ring.head, 1)], SubSeq(queue, 1 + 1, Len(queue)))
          /\ Len(SubSeq(queue, 1 + 1, Len(queue))) = Len(queue) - 1
      <4>1. 1 \in Nat
        BY Zenon
      <4> QED
        BY <3>2, <4>1, ConsumeKeeps, Zenon
    <3> QED
      BY <2>3, <3>1, <3>3, Zenon
  <2>5. q.pc \in {"load", end}
    BY <1>3, NextBytePc, Zenon
  <2> QED
    BY <2>1, <2>3, <2>4, <2>5, Zenon
<1>4. CASE p.pc = "cas" /\ p.at # vu_ring.head /\ q = VuAt("load", <<>>, 0, p.left) /\ VuKeep
  <2>1. q.pc = "load"
    BY <1>4, Fields, SMTT(30)
  <2> QED
    BY <1>4, <2>1, Zenon DEF VuKeep
<1> QED
  BY <1>1, <1>2, <1>3, <1>4, Zenon DEF tt_vuart_poll_in

(* What the preempted poll_in holds stays old when the head moves on.        *)
LEMMA StaleAfterHead ==
  ASSUME NEW t, NEW ring, NEW queue, NEW host, NEW queue2,
         Holds(ring, queue), Putting(host, ring, queue),
         Fresh(t, ring, queue) \/ Stale(t, ring, queue, host),
         Len(queue) >= 1, Len(queue2) = Len(queue) - 1
  PROVE  Stale(t, [ring EXCEPT !.head = VuUp(ring.head, 1)], queue2, host)
<1>1. /\ ring.head \in Counters /\ Len(queue) \in Nat /\ Len(queue) <= VuCap
      /\ [ring EXCEPT !.head = VuUp(ring.head, 1)].head = VuUp(ring.head, 1)
  BY SMTT(30) DEF Holds, VuRings
<1>2. PICK h \in Counters : h = ring.head
  BY <1>1, Zenon
<1>3. PICK a \in Counters : a = t.at
  BY <1>1, Zenon DEF Fresh, Stale
<1>4. PICK one \in {0, 1} : one = IF host.pc \in {"store", "check"} THEN 1 ELSE 0
  BY Zenon
<1>5. Len(queue) + one <= VuCap
  BY <1>1, <1>4, Sizes, SMTT(30) DEF Putting
<1>6. Ahead(a, h) = 0 \/ Ahead(a, h) > Len(queue) + one
  <2>1. CASE Fresh(t, ring, queue)
    BY <2>1, <1>2, <1>3, AheadIs, Sizes, SMTT(30) DEF Fresh, Counters
  <2>2. CASE Stale(t, ring, queue, host)
    BY <2>2, <1>2, <1>3, <1>4, Zenon DEF Stale
  <2> QED
    BY <2>1, <2>2, Zenon
<1>7. Ahead(a, VuUp(h, 1)) > (Len(queue) - 1) + one
  <2>1. VuUp(h, 1) \in Counters /\ VuUp(h, 1) = IF h + 1 < VuWrap THEN h + 1 ELSE h + 1 - VuWrap
    BY UpIs, Sizes, SMTT(30)
  <2>2. Ahead(a, VuUp(h, 1)) = IF a >= VuUp(h, 1) THEN a - VuUp(h, 1) ELSE a + VuWrap - VuUp(h, 1)
    BY <2>1, AheadIs, Zenon
  <2>3. Ahead(a, h) = IF a >= h THEN a - h ELSE a + VuWrap - h
    BY AheadIs, Zenon
  <2>4. a \in Nat /\ h \in Nat /\ a < VuWrap /\ h < VuWrap
    BY Sizes, SMTT(30) DEF Counters
  <2>5. PICK u, x, y, n : /\ u = VuUp(h, 1) /\ x = Ahead(a, h) /\ y = Ahead(a, VuUp(h, 1))
                          /\ n = Len(queue)
    BY Zenon
  <2>6. /\ u = (IF h + 1 < VuWrap THEN h + 1 ELSE h + 1 - VuWrap)
        /\ y = (IF a >= u THEN a - u ELSE a + VuWrap - u)
        /\ x = (IF a >= h THEN a - h ELSE a + VuWrap - h)
        /\ (x = 0 \/ x > n + one) /\ n + one <= VuCap /\ n >= 1 /\ n \in Nat
    BY <2>1, <2>2, <2>3, <2>5, <1>1, <1>5, <1>6, Zenon
  <2>7. one \in Nat /\ VuWrap \in Nat /\ VuCap \in Nat /\ VuCap < VuWrap
    BY Sizes, SMTT(30)
  <2>8. y > (n - 1) + one
    BY <2>4, <2>6, <2>7, SMTT(30)
  <2> QED
    BY <2>5, <2>8, Zenon
<1> QED
  BY <1>1, <1>2, <1>3, <1>4, <1>7, Zenon DEF Stale

(* A byte the host starts to put does not bring the tail round to it.        *)
LEMMA StalePut ==
  ASSUME NEW t, NEW ring, NEW queue, NEW host, NEW host2,
         Holds(ring, queue), Stale(t, ring, queue, host), host.pc = "idle",
         Len(queue) < VuCap, VuUp(ring.tail, 1) # t.at
  PROVE  Stale(t, ring, queue, host2)
<1>1. ring.head \in Counters /\ ring.tail \in Counters /\ Len(queue) \in Nat
  BY SMTT(30) DEF Holds, VuRings
<1>2. PICK h \in Counters, g \in Counters, n \in Nat :
          h = ring.head /\ g = ring.tail /\ n = Len(queue)
  BY <1>1, Zenon
<1>3. PICK a \in Counters : a = t.at
  BY Zenon DEF Stale
<1>4. PICK u, x : u = VuUp(g, 1) /\ x = Ahead(a, h)
  BY Zenon
<1>5. /\ a \in Nat /\ h \in Nat /\ g \in Nat /\ a < VuWrap /\ h < VuWrap /\ g < VuWrap
      /\ VuWrap \in Nat /\ VuCap \in Nat /\ VuCap < VuWrap
  BY Sizes, SMTT(30) DEF Counters
<1>6. g = (IF h + n < VuWrap THEN h + n ELSE h + n - VuWrap)
  <2>1. n < VuWrap
    BY <1>2, <1>5, SMTT(30)
  <2> QED
    BY <1>2, <2>1, UpIs, Zenon DEF Holds
<1>7. u = (IF g + 1 < VuWrap THEN g + 1 ELSE g + 1 - VuWrap)
  BY <1>4, UpIs, Sizes, SMTT(30)
<1>8. x = (IF a >= h THEN a - h ELSE a + VuWrap - h)
  BY <1>4, AheadIs, Zenon
<1>9. x > n /\ u # a /\ n < VuCap
  <2>1. Ahead(t.at, ring.head) > Len(queue) + 0
    BY Zenon DEF Stale
  <2>2. n + 0 = n
    BY SMTT(30)
  <2> QED
    BY <2>1, <2>2, <1>2, <1>3, <1>4, Zenon
<1>10. x > n + 1 /\ x > n + 0
  BY <1>5, <1>6, <1>7, <1>8, <1>9, SMTT(30)
<1> QED
  BY <1>2, <1>3, <1>4, <1>10, Zenon DEF Stale

(* When it is published the ring holds one byte more.                        *)
LEMMA StalePublish ==
  ASSUME NEW t, NEW ring, NEW queue, NEW host, NEW ring2, NEW queue2, NEW host2,
         Stale(t, ring, queue, host), host.pc = "check", host2.pc = "idle",
         ring2.head = ring.head, Len(queue) \in Nat, Len(queue2) = Len(queue) + 1
  PROVE  Stale(t, ring2, queue2, host2)
<1>1. t.at \in Counters /\ Ahead(t.at, ring.head) > Len(queue) + 1
  BY Zenon DEF Stale
<1>2. Len(queue2) + 0 = Len(queue) + 1
  BY SMTT(30)
<1> QED
  BY <1>1, <1>2, Zenon DEF Stale

-----------------------------------------------------------------------------
(* The steps.                                                                *)

(* A step of the thread's uart_tt_virt_poll_out keeps the invariant.         *)
LEMMA ThreadOut ==
  ASSUME VuWrap % VuCap = 0, VuIInv, uart_tt_virt_poll_out
  PROVE  VuIInv'
<1>1. /\ vu_role = "tx" /\ vu_role' = "tx" /\ vu_isr' = vu_isr /\ vu_isr = VuIdle /\ vu_host' = vu_host
      /\ VuIdle.pc = "idle"
  BY Fields, SMTT(30) DEF uart_tt_virt_poll_out, VuIdle
<1>2. TxPart /\ Holds(vu_ring, vu_queue) /\ vu_exact
  BY <1>1, Zenon DEF VuIInv
<1>3. CASE vu_thr = VuIdle /\ vu_thr' = VuAt("full", <<>>, 0, 1) /\ VuKeep
  <2>1. vu_thr'.pc = "full"
    BY <1>3, Fields, SMTT(30)
  <2>2. vu_ring' = vu_ring /\ vu_queue' = vu_queue /\ vu_exact' = vu_exact
    BY <1>3, Zenon DEF VuKeep
  <2> QED
    BY <1>1, <1>2, <2>1, <2>2, Zenon DEF VuIInv, TxPart, Producing, Reading
<1>4. CASE tt_vuart_poll_out(vu_thr, vu_thr', "idle")
  <2>1. PICK p, q : p = vu_thr /\ q = vu_thr'
    BY Zenon
  <2>2. tt_vuart_poll_out(p, q, "idle")
    BY <1>4, <2>1, Zenon
  <2>3. Producing(p, vu_ring, vu_queue)
    BY <1>2, <2>1, Zenon DEF TxPart
  <2>4. /\ Holds(vu_ring', vu_queue') /\ vu_exact' = vu_exact
        /\ Producing(q, vu_ring', vu_queue') /\ q.pc \in {"full", "store", "publish", "idle"}
        /\ \A k \in 1 .. Len(vu_queue) :
             k \in 1 .. Len(vu_queue') /\ SubSeq(vu_queue', 1, k) = SubSeq(vu_queue, 1, k)
    BY <1>2, <2>2, <2>3, PollOut, Zenon
  <2>5. Producing(vu_thr', vu_ring', vu_queue') /\ vu_thr'.pc \in {"full", "store", "publish", "idle"}
    BY <2>1, <2>4, Zenon
  <2>6. Reading(vu_host', vu_queue')
    BY <1>1, <1>2, <2>4, Zenon DEF TxPart, Reading
  <2>7. Producing(vu_isr', vu_ring', vu_queue')
    BY <1>1, Zenon DEF Producing
  <2>8. TxPart'
    BY <1>1, <1>2, <2>5, <2>6, <2>7, Zenon DEF TxPart
  <2> QED
    BY <1>1, <1>2, <2>4, <2>8, Zenon DEF VuIInv
<1> QED
  BY <1>3, <1>4, Zenon DEF uart_tt_virt_poll_out

(* A receiving thread that is about to move the head holds what is due.      *)
LEMMA CasIsFresh ==
  ASSUME NEW p, NEW ring, NEW queue, NEW host, Holds(ring, queue), p.at = ring.head,
         Fresh(p, ring, queue) \/ Stale(p, ring, queue, host)
  PROVE  Fresh(p, ring, queue)
<1>1. ring.head \in Counters /\ Len(queue) \in Nat
  BY SMTT(30) DEF Holds, VuRings
<1>2. PICK h \in Counters, n \in Nat : h = ring.head /\ n = Len(queue)
  BY <1>1, Zenon
<1>3. Ahead(h, h) = 0
  BY AheadIs, Sizes, SMTT(30) DEF Counters
<1>4. ~(0 > n + 1) /\ ~(0 > n + 0)
  BY SMTT(30)
<1> QED
  BY <1>2, <1>3, <1>4, Zenon DEF Stale

(* The byte the host is putting is not disturbed when the head moves.        *)
LEMMA PuttingAfterHead ==
  ASSUME NEW host, NEW ring, NEW queue, NEW ring2, NEW queue2, Putting(host, ring, queue),
         Len(queue) \in Nat, Len(queue2) = Len(queue) - 1,
         ring2.tail = ring.tail, ring2.buf = ring.buf
  PROVE  Putting(host, ring2, queue2)
<1>1. Len(queue) < VuCap => Len(queue2) < VuCap
  BY Sizes, SMTT(30)
<1> QED
  BY <1>1, Zenon DEF Putting

(* A step of the thread's uart_tt_virt_poll_in keeps the invariant.          *)
LEMMA ThreadIn ==
  ASSUME VuWrap % VuCap = 0, VuIInv, uart_tt_virt_poll_in
  PROVE  VuIInv'
<1>1. /\ vu_role = "rx" /\ vu_role' = "rx" /\ vu_isr' = vu_isr /\ vu_isr = VuIdle /\ vu_host' = vu_host
      /\ VuIdle.pc = "idle"
  BY Fields, SMTT(30) DEF uart_tt_virt_poll_in, VuIdle
<1>2. RxPart /\ Holds(vu_ring, vu_queue) /\ vu_exact
  BY <1>1, Zenon DEF VuIInv
<1>n. Len(vu_queue) \in Nat /\ vu_ring \in VuRings
  BY <1>2, SMTT(30) DEF Holds
<1>3. CASE vu_thr = VuIdle /\ vu_thr' = VuAt("load", <<>>, 0, 1) /\ VuKeep
  <2>1. vu_thr'.pc = "load"
    BY <1>3, Fields, SMTT(30)
  <2>2. vu_ring' = vu_ring /\ vu_queue' = vu_queue /\ vu_exact' = vu_exact
    BY <1>3, Zenon DEF VuKeep
  <2>3. RxPart'
    BY <1>1, <1>2, <2>1, <2>2, Zenon DEF RxPart
  <2> QED
    BY <1>1, <1>2, <2>2, <2>3, Zenon DEF VuIInv
<1>4. CASE tt_vuart_poll_in(vu_thr, vu_thr', "idle")
  <2>1. PICK p, q : p = vu_thr /\ q = vu_thr'
    BY Zenon
  <2>2. tt_vuart_poll_in(p, q, "idle")
    BY <1>4, <2>1, Zenon
  <2>3. p.pc = "cas" /\ p.at = vu_ring.head => Fresh(p, vu_ring, vu_queue)
    <3>1. p.pc = "cas" => Fresh(p, vu_ring, vu_queue) \/ Stale(p, vu_ring, vu_queue, vu_host)
      BY <1>2, <2>1, Zenon DEF RxPart
    <3> QED
      BY <1>2, <3>1, CasIsFresh, Zenon
  <2>4. /\ Holds(vu_ring', vu_queue') /\ vu_exact'
        /\ q.pc \in {"load", "cas", "idle"}
        /\ q.pc = "cas" => Fresh(q, vu_ring', vu_queue')
        /\ \/ UNCHANGED <<vu_ring, vu_queue>>
           \/ /\ q.pc # "cas" /\ Len(vu_queue) >= 1
              /\ vu_ring' = [vu_ring EXCEPT !.head = VuUp(vu_ring.head, 1)]
              /\ Len(vu_queue') = Len(vu_queue) - 1
    BY <1>2, <2>2, <2>3, PollIn, Zenon
  <2>5. /\ vu_thr'.pc \in {"load", "cas", "idle"}
        /\ vu_thr'.pc = "cas" => Fresh(vu_thr', vu_ring', vu_queue')
    BY <2>1, <2>4, Zenon
  <2>6. Putting(vu_host', vu_ring', vu_queue')
    <3>1. CASE UNCHANGED <<vu_ring, vu_queue>>
      <4>1. vu_ring' = vu_ring /\ vu_queue' = vu_queue /\ vu_host' = vu_host
        BY <3>1, <1>1, Zenon
      <4>2. Putting(vu_host, vu_ring, vu_queue)
        BY <1>2, Zenon DEF RxPart
      <4> QED
        BY <4>1, <4>2, Zenon
    <3>2. CASE /\ vu_ring' = [vu_ring EXCEPT !.head = VuUp(vu_ring.head, 1)]
               /\ Len(vu_queue') = Len(vu_queue) - 1
      <4>1. vu_ring'.tail = vu_ring.tail /\ vu_ring'.buf = vu_ring.buf
        BY <3>2, <1>n, Zenon DEF VuRings
      <4>2. PICK host, ring, queue, ring2, queue2 :
               /\ host = vu_host /\ ring = vu_ring /\ queue = vu_queue
               /\ ring2 = vu_ring' /\ queue2 = vu_queue'
        BY Zenon
      <4>3. Putting(host, ring, queue)
        BY <1>2, <4>2, Zenon DEF RxPart
      <4>c. /\ Len(queue) \in Nat /\ Len(queue2) = Len(queue) - 1
            /\ ring2.tail = ring.tail /\ ring2.buf = ring.buf
        BY <3>2, <4>1, <4>2, <1>n, Zenon
      <4>4. Putting(host, ring2, queue2)
        BY <4>3, <4>c, PuttingAfterHead, Zenon
      <4> QED
        BY <1>1, <4>2, <4>4, Zenon
    <3> QED
      BY <2>4, <3>1, <3>2, Zenon
  <2>7. RxPart'
    BY <1>1, <1>2, <2>5, <2>6, Zenon DEF RxPart
  <2> QED
    BY <1>1, <2>4, <2>7, Zenon DEF VuIInv
<1> QED
  BY <1>3, <1>4, Zenon DEF uart_tt_virt_poll_in

(* The timer handler leaves the thread's part of the invariant alone.        *)
LEMMA HandlerOut ==
  ASSUME VuWrap % VuCap = 0, VuIInv, vu_role = "tx", tt_vuart_poll_out(vu_isr, vu_isr', "loop"),
         UNCHANGED <<vu_role, vu_thr, vu_host>>
  PROVE  VuIInv'
<1>1. TxPart /\ Holds(vu_ring, vu_queue) /\ vu_exact
  BY Zenon DEF VuIInv
<1>2. PICK p, q : p = vu_isr /\ q = vu_isr'
  BY Zenon
<1>3. tt_vuart_poll_out(p, q, "loop") /\ Producing(p, vu_ring, vu_queue)
  BY <1>1, <1>2, Zenon DEF TxPart
<1>4. /\ Holds(vu_ring', vu_queue') /\ vu_exact' = vu_exact
      /\ Producing(q, vu_ring', vu_queue') /\ q.pc \in {"full", "store", "publish", "loop"}
      /\ \A k \in 1 .. Len(vu_queue) :
           k \in 1 .. Len(vu_queue') /\ SubSeq(vu_queue', 1, k) = SubSeq(vu_queue, 1, k)
  BY <1>1, <1>3, PollOut, Zenon
<1>5. Producing(vu_isr', vu_ring', vu_queue') /\ vu_isr'.pc \in {"full", "store", "publish", "loop"}
  BY <1>2, <1>4, Zenon
<1>6. vu_thr = VuIdle /\ vu_thr' = VuIdle /\ vu_thr.pc = "idle"
  <2>1. p.pc \in {"full", "store", "publish"}
    BY <1>3, Zenon DEF tt_vuart_poll_out
  <2>2. vu_thr = VuIdle
    BY <1>1, <1>2, <2>1, Zenon DEF TxPart
  <2> QED
    BY <2>2, Fields, SMTT(30) DEF VuIdle
<1>7. Producing(vu_thr', vu_ring', vu_queue')
  BY <1>6, Zenon DEF Producing
<1>8. Reading(vu_host', vu_queue')
  BY <1>1, <1>4, Zenon DEF TxPart, Reading
<1>9. TxPart'
  BY <1>1, <1>5, <1>6, <1>7, <1>8, Zenon DEF TxPart
<1> QED
  BY <1>1, <1>4, <1>9, Zenon DEF VuIInv

(* A step of tt_vuart_poll_in from the handler, in the middle of the         *)
(* thread's call or not, keeps the invariant.                                *)
LEMMA HandlerIn ==
  ASSUME VuWrap % VuCap = 0, VuIInv, vu_role = "rx", tt_vuart_poll_in(vu_isr, vu_isr', "loop"),
         UNCHANGED <<vu_role, vu_thr, vu_host>>
  PROVE  VuIInv'
<1>1. RxPart /\ Holds(vu_ring, vu_queue) /\ vu_exact
  BY Zenon DEF VuIInv
<1>n. Len(vu_queue) \in Nat /\ vu_ring \in VuRings
  BY <1>1, SMTT(30) DEF Holds
<1>2. PICK p, q : p = vu_isr /\ q = vu_isr'
  BY Zenon
<1>3. /\ tt_vuart_poll_in(p, q, "loop")
      /\ p.pc = "cas" /\ p.at = vu_ring.head => Fresh(p, vu_ring, vu_queue)
  BY <1>1, <1>2, Zenon DEF RxPart
<1>4. /\ Holds(vu_ring', vu_queue') /\ vu_exact'
      /\ q.pc \in {"load", "cas", "loop"}
      /\ q.pc = "cas" => Fresh(q, vu_ring', vu_queue')
      /\ \/ UNCHANGED <<vu_ring, vu_queue>>
         \/ /\ q.pc # "cas" /\ Len(vu_queue) >= 1
            /\ vu_ring' = [vu_ring EXCEPT !.head = VuUp(vu_ring.head, 1)]
            /\ Len(vu_queue') = Len(vu_queue) - 1
  BY <1>1, <1>3, PollIn, Zenon
<1>5. /\ vu_isr'.pc \in {"load", "cas", "loop"}
      /\ vu_isr'.pc = "cas" => Fresh(vu_isr', vu_ring', vu_queue')
  BY <1>2, <1>4, Zenon
<1>6. /\ Putting(vu_host', vu_ring', vu_queue')
      /\ vu_thr'.pc = "cas" => \/ Fresh(vu_thr', vu_ring', vu_queue')
                               \/ Stale(vu_thr', vu_ring', vu_queue', vu_host')
  <2>1. CASE UNCHANGED <<vu_ring, vu_queue>>
    <3>1. /\ vu_ring' = vu_ring /\ vu_queue' = vu_queue /\ vu_host' = vu_host
          /\ vu_thr' = vu_thr
      BY <2>1, Zenon
    <3>2. /\ Putting(vu_host, vu_ring, vu_queue)
          /\ vu_thr.pc = "cas" => \/ Fresh(vu_thr, vu_ring, vu_queue)
                                  \/ Stale(vu_thr, vu_ring, vu_queue, vu_host)
      BY <1>1, Zenon DEF RxPart
    <3> QED
      BY <3>1, <3>2, Zenon
  <2>2. CASE /\ vu_ring' = [vu_ring EXCEPT !.head = VuUp(vu_ring.head, 1)]
             /\ Len(vu_queue) >= 1 /\ Len(vu_queue') = Len(vu_queue) - 1
    <3>1. vu_ring'.tail = vu_ring.tail /\ vu_ring'.buf = vu_ring.buf
      BY <2>2, <1>n, Zenon DEF VuRings
    <3>2. PICK t, host, ring, queue, ring2, queue2 :
             /\ t = vu_thr /\ host = vu_host /\ ring = vu_ring /\ queue = vu_queue
             /\ ring2 = vu_ring' /\ queue2 = vu_queue'
      BY Zenon
    <3>3. /\ Putting(host, ring, queue) /\ Holds(ring, queue)
          /\ t.pc = "cas" => Fresh(t, ring, queue) \/ Stale(t, ring, queue, host)
      BY <1>1, <3>2, Zenon DEF RxPart
    <3>c. /\ Len(queue) \in Nat /\ Len(queue2) = Len(queue) - 1
          /\ ring2.tail = ring.tail /\ ring2.buf = ring.buf
      BY <2>2, <3>1, <3>2, <1>n, Zenon
    <3>4. Putting(host, ring2, queue2)
      BY <3>3, <3>c, PuttingAfterHead, Zenon
    <3>5. /\ ring2 = [ring EXCEPT !.head = VuUp(ring.head, 1)]
          /\ Len(queue) >= 1 /\ Len(queue2) = Len(queue) - 1
      BY <2>2, <3>2, Zenon
    <3>6. t.pc = "cas" => Stale(t, ring2, queue2, host)
      BY <3>3, <3>5, StaleAfterHead, Zenon
    <3>7. vu_thr' = t /\ vu_host' = host /\ vu_ring' = ring2 /\ vu_queue' = queue2
      BY <3>2, Zenon
    <3> QED
      BY <3>4, <3>6, <3>7, Zenon
  <2> QED
    BY <1>4, <2>1, <2>2, Zenon
<1>7. RxPart'
  BY <1>1, <1>5, <1>6, Zenon DEF RxPart
<1> QED
  BY <1>4, <1>7, Zenon DEF VuIInv

(* A step that changes neither ring nor queue, and moves the handler or the  *)
(* thread to where it holds nothing, keeps the invariant.                    *)
LEMMA Rests ==
  ASSUME VuIInv, UNCHANGED <<vu_role, vu_exact, vu_ring, vu_queue, vu_host>>,
         vu_thr' \in {vu_thr, VuIdle},
         \/ vu_isr' = vu_isr
         \/ vu_isr'.pc \in {"idle", "loop"}
         \/ vu_role = "rx" /\ vu_isr'.pc = "load"
         \/ vu_role = "tx" /\ vu_isr'.pc = "full" /\ vu_thr = VuIdle
  PROVE  VuIInv'
<1>1. VuIdle.pc = "idle"
  BY Fields, SMTT(30) DEF VuIdle
<1>2. /\ vu_role' = vu_role /\ vu_exact' = vu_exact /\ vu_ring' = vu_ring /\ vu_queue' = vu_queue
      /\ vu_host' = vu_host
  BY Zenon
<1>3. Holds(vu_ring', vu_queue') /\ vu_exact' /\ vu_role' \in {"tx", "rx"}
  <2>1. Holds(vu_ring, vu_queue) /\ vu_exact /\ vu_role \in {"tx", "rx"}
    BY Zenon DEF VuIInv
  <2>2. Holds(vu_ring', vu_queue')
    BY <1>2, <2>1, Zenon
  <2> QED
    BY <1>2, <2>1, <2>2, SMTT(30)
<1>4. ASSUME vu_role = "tx" PROVE TxPart'
  <2>1. TxPart
    BY <1>4, Zenon DEF VuIInv
  <2>2. Reading(vu_host', vu_queue')
    BY <1>2, <2>1, Zenon DEF TxPart
  <2>3. Producing(vu_thr', vu_ring', vu_queue')
    <3>1. CASE vu_thr' = vu_thr
      BY <3>1, <1>2, <2>1, Zenon DEF TxPart
    <3>2. CASE vu_thr' = VuIdle
      BY <3>2, <1>1, Zenon DEF Producing
    <3> QED
      BY <3>1, <3>2, Zenon
  <2>4. Producing(vu_isr', vu_ring', vu_queue')
    <3>1. CASE vu_isr' = vu_isr
      BY <3>1, <1>2, <2>1, Zenon DEF TxPart
    <3>2. CASE vu_isr'.pc \in {"idle", "loop", "full", "load"}
      BY <3>2, Zenon DEF Producing
    <3> QED
      BY <3>1, <3>2, Zenon
  <2>5. /\ vu_thr'.pc \in {"idle", "full", "store", "publish"}
        /\ vu_isr'.pc \in {"idle", "loop", "full", "store", "publish"}
        /\ vu_host'.pc \in {"idle", "take"}
        /\ vu_isr'.pc \notin {"idle", "loop"} => vu_thr' = VuIdle
    BY <1>1, <1>2, <1>4, <2>1, Zenon DEF TxPart
  <2> QED
    BY <2>2, <2>3, <2>4, <2>5, Zenon DEF TxPart
<1>5. ASSUME vu_role = "rx" PROVE RxPart'
  <2>1. RxPart
    BY <1>5, Zenon DEF VuIInv
  <2>2. Putting(vu_host', vu_ring', vu_queue')
    BY <1>2, <2>1, Zenon DEF RxPart
  <2>3. vu_thr'.pc = "cas" => \/ Fresh(vu_thr', vu_ring', vu_queue')
                              \/ Stale(vu_thr', vu_ring', vu_queue', vu_host')
    <3>1. CASE vu_thr' = vu_thr
      BY <3>1, <1>2, <2>1, Zenon DEF RxPart
    <3>2. CASE vu_thr' = VuIdle
      BY <3>2, <1>1, Zenon
    <3> QED
      BY <3>1, <3>2, Zenon
  <2>4. vu_isr'.pc = "cas" => Fresh(vu_isr', vu_ring', vu_queue')
    <3>1. CASE vu_isr' = vu_isr
      BY <3>1, <1>2, <2>1, Zenon DEF RxPart
    <3>2. CASE vu_isr'.pc \in {"idle", "loop", "full", "load"}
      BY <3>2, Zenon
    <3> QED
      BY <3>1, <3>2, Zenon
  <2>5. /\ vu_thr'.pc \in {"idle", "load", "cas"}
        /\ vu_isr'.pc \in {"idle", "loop", "load", "cas"}
        /\ vu_host'.pc \in {"idle", "store", "check"}
    BY <1>1, <1>2, <1>5, <2>1, Zenon DEF RxPart
  <2> QED
    BY <2>2, <2>3, <2>4, <2>5, Zenon DEF RxPart
<1> QED
  BY <1>2, <1>3, <1>4, <1>5, Zenon DEF VuIInv

(* A step of uart_tt_virt_irq_handler keeps the invariant, whatever call of  *)
(* the thread it preempts.                                                   *)
LEMMA Handler ==
  ASSUME VuWrap % VuCap = 0, VuIInv, uart_tt_virt_irq_handler
  PROVE  VuIInv'
<1>1. vu_role \in {"tx", "rx"} /\ (vu_role = "tx" => TxPart) /\ (vu_role = "rx" => RxPart)
  BY Zenon DEF VuIInv
<1>2. UNCHANGED <<vu_role, vu_thr, vu_host>>
  BY Zenon DEF uart_tt_virt_irq_handler
<1>3. CASE vu_isr' = VuAt("loop", <<>>, 0, 0) /\ VuKeep
  <2>1. vu_isr'.pc = "loop"
    BY <1>3, Fields, SMTT(30)
  <2> QED
    BY <1>2, <1>3, <2>1, Rests, Zenon DEF VuKeep
<1>4. CASE vu_isr' = VuIdle /\ VuKeep
  <2>1. vu_isr'.pc = "idle"
    BY <1>4, Fields, SMTT(30) DEF VuIdle
  <2> QED
    BY <1>2, <1>4, <2>1, Rests, Zenon DEF VuKeep
<1>5. CASE /\ uart_tt_virt_irq_rx_ready /\ (\E n \in 1 .. VuCap : uart_tt_virt_fifo_read(n)) /\ VuKeep
  <2>1. vu_isr'.pc = "load" /\ vu_role = "rx"
    BY <1>5, Fields, SMTT(30) DEF uart_tt_virt_fifo_read, uart_tt_virt_irq_rx_ready
  <2> QED
    BY <1>2, <1>5, <2>1, Rests, Zenon DEF VuKeep
<1>6. CASE /\ uart_tt_virt_irq_tx_ready /\ vu_thr = VuIdle
           /\ (\E n \in 1 .. VuCap : uart_tt_virt_fifo_fill(n)) /\ VuKeep
  <2>1. vu_isr'.pc = "full" /\ vu_role = "tx"
    BY <1>6, Fields, SMTT(30) DEF uart_tt_virt_fifo_fill, uart_tt_virt_irq_tx_ready
  <2> QED
    BY <1>2, <1>6, <2>1, Rests, Zenon DEF VuKeep
<1>7. CASE VuKeep /\ UNCHANGED vu_isr
  BY <1>2, <1>7, Rests, Zenon DEF VuKeep
<1>8. CASE tt_vuart_poll_out(vu_isr, vu_isr', "loop")
  <2>1. vu_isr.pc \in {"full", "store", "publish"}
    BY <1>8, Zenon DEF tt_vuart_poll_out
  <2>2. vu_role = "tx"
    BY <1>1, <2>1, Zenon DEF RxPart
  <2> QED
    BY <1>2, <1>8, <2>2, HandlerOut, Zenon
<1>9. CASE tt_vuart_poll_in(vu_isr, vu_isr', "loop")
  <2>1. vu_isr.pc \in {"load", "cas"}
    BY <1>9, Zenon DEF tt_vuart_poll_in
  <2>2. vu_role = "rx"
    BY <1>1, <2>1, Zenon DEF TxPart
  <2> QED
    BY <1>2, <1>9, <2>2, HandlerIn, Zenon
<1> QED
  BY <1>3, <1>4, <1>5, <1>6, <1>7, <1>8, <1>9, Zenon DEF uart_tt_virt_irq_handler

(* The next boot stage, with the descriptor it finds or with a new one.      *)
LEMMA NextStage ==
  ASSUME VuIInv, NEW adoptable \in BOOLEAN, uart_tt_virt_init(adoptable)
  PROVE  VuIInv'
<1>1. VuIdle.pc = "idle"
  BY Fields, SMTT(30) DEF VuIdle
<1>2. CASE adoptable
  <2>1. UNCHANGED <<vu_role, vu_exact, vu_ring, vu_queue, vu_host>> /\ vu_thr' = VuIdle /\ vu_isr' = VuIdle
    BY <1>2, Zenon DEF uart_tt_virt_init
  <2> QED
    BY <1>1, <2>1, Rests, Zenon
<1>3. CASE ~adoptable
  <2>1. /\ vu_thr' = VuIdle /\ vu_isr' = VuIdle /\ vu_host' = VuIdle
        /\ vu_role' = vu_role /\ vu_exact' = vu_exact
        /\ vu_ring' = VuFreshRing(vu_ring.buf) /\ vu_queue' = <<>>
    BY <1>3, Zenon DEF uart_tt_virt_init
  <2>2. Holds(vu_ring', vu_queue')
    <3>1. vu_queue' \in Seq(VuBytes) /\ Len(vu_queue') = 0
      BY <2>1, SMTT(30)
    <3>2. vu_ring.buf \in [0 .. VuCap - 1 -> VuBytes]
      BY Zenon DEF VuIInv, Holds, VuRings
    <3>3. vu_ring' \in VuRings /\ vu_ring'.head = 0 /\ vu_ring'.tail = 0
      BY <2>1, <3>2, Sizes, SMTT(30) DEF VuFreshRing, VuRings, Counters
    <3>4. VuUp(0, 0) = 0
      BY Sizes, SMTT(30) DEF VuUp
    <3> QED
      BY <3>1, <3>3, <3>4, Sizes, SMTT(30) DEF Holds
  <2>3. vu_thr'.pc = "idle" /\ vu_isr'.pc = "idle" /\ vu_host'.pc = "idle"
    BY <1>1, <2>1, Zenon
  <2>4. TxPart' /\ RxPart'
    BY <2>3, Zenon DEF TxPart, RxPart, Producing, Reading, Putting
  <2> QED
    BY <2>1, <2>2, <2>4, Zenon DEF VuIInv
<1> QED
  BY <1>2, <1>3, Zenon

(* The host's getc and read.                                                 *)
LEMMA HostReads ==
  ASSUME VuWrap % VuCap = 0, VuIInv, vuart_read
  PROVE  VuIInv'
<1>1. /\ vu_role = "tx" /\ vu_role' = "tx" /\ vu_thr' = vu_thr /\ vu_isr' = vu_isr
      /\ VuIdle.pc = "idle"
  BY Fields, SMTT(30) DEF vuart_read, VuIdle
<1>2. TxPart /\ Holds(vu_ring, vu_queue) /\ vu_exact
  BY <1>1, Zenon DEF VuIInv
<1>n. /\ Len(vu_queue) \in Nat /\ vu_queue \in Seq(VuBytes) /\ Len(vu_queue) <= VuCap
      /\ vu_ring \in VuRings /\ vu_ring.head \in Counters
  BY <1>2, SMTT(30) DEF Holds, VuRings
<1> DEFINE o == vu_ring.head % VuCap
           most == VuSmaller(tt_vuart_buf_size, VuCap - o)
<1>3. CASE /\ vu_host = VuIdle /\ VuKeep
           /\ \E n \in 1 .. most :
                vu_host' = VuAt("take", [i \in 1 .. n |-> vu_ring.buf[o + i - 1]], 0, 0)
  <2>1. PICK n \in 1 .. most :
          vu_host' = VuAt("take", [i \in 1 .. n |-> vu_ring.buf[o + i - 1]], 0, 0)
    BY <1>3, Zenon
  <2>2. tt_vuart_buf_size = Len(vu_queue)
    BY <1>2, SizeIsLength, Zenon
  <2>3. o \in 0 .. VuCap - 1
    BY <1>n, Sizes, SMTT(30) DEF Counters
  <2>4. n \in Nat /\ n >= 1 /\ n <= Len(vu_queue) /\ n <= VuCap - o
    <3> HIDE DEF o
    <3>1. most \in Int /\ most <= Len(vu_queue) /\ most <= VuCap - o
      BY <1>n, <2>2, <2>3, Sizes, SMTT(30) DEF VuSmaller
    <3> HIDE DEF most
    <3> QED
      BY <1>n, <2>1, <2>3, <3>1, Sizes, SMTT(30)
  <2>5. [i \in 1 .. n |-> vu_ring.buf[o + i - 1]] = SubSeq(vu_queue, 1, n)
    BY <1>2, <2>4, CopyIsDue, SMTT(30)
  <2>6. vu_host'.pc = "take" /\ vu_host'.ch = SubSeq(vu_queue, 1, n)
    BY <2>1, <2>5, Fields, SMTT(30)
  <2>7. vu_ring' = vu_ring /\ vu_queue' = vu_queue /\ vu_exact' = vu_exact
    BY <1>3, Zenon DEF VuKeep
  <2>8. Reading(vu_host', vu_queue')
    <3>1. n \in 1 .. Len(vu_queue')
      BY <1>n, <2>4, <2>7, SMTT(30)
    <3>2. vu_host'.ch = SubSeq(vu_queue', 1, n)
      BY <2>6, <2>7, Zenon
    <3> QED
      BY <3>1, <3>2, Zenon DEF Reading
  <2>9. Producing(vu_thr', vu_ring', vu_queue') /\ Producing(vu_isr', vu_ring', vu_queue')
    <3>1. Producing(vu_thr, vu_ring, vu_queue) /\ Producing(vu_isr, vu_ring, vu_queue)
      BY <1>2, Zenon DEF TxPart
    <3> QED
      BY <1>1, <2>7, <3>1, Zenon
  <2>10. TxPart'
    BY <1>1, <1>2, <2>6, <2>8, <2>9, Zenon DEF TxPart
  <2>11. Holds(vu_ring', vu_queue')
    BY <1>2, <2>7, Zenon
  <2> QED
    BY <1>1, <1>2, <2>7, <2>10, <2>11, Zenon DEF VuIInv
<1>4. CASE vu_host.pc = "take" /\ VuConsume(vu_ring.head, vu_host.ch) /\ vu_host' = VuIdle
  <2>1. PICK k \in 1 .. Len(vu_queue) : vu_host.ch = SubSeq(vu_queue, 1, k)
    BY <1>2, <1>4, Zenon DEF TxPart, Reading
  <2>2. k \in Nat /\ k >= 1 /\ k <= Len(vu_queue)
    BY <1>n, SMTT(30)
  <2>3. Len(vu_host.ch) = k
    BY <1>n, <2>1, <2>2, SMTT(30)
  <2>4. /\ vu_ring' = [vu_ring EXCEPT !.head = VuUp(vu_ring.head, k)]
        /\ vu_queue' = SubSeq(vu_queue, k + 1, Len(vu_queue))
    BY <1>4, <2>3, Zenon DEF VuConsume
  <2>5. vu_exact'
    BY <1>4, <2>1, <2>2, <2>3, Zenon DEF VuConsume
  <2>6. Holds(vu_ring', vu_queue') /\ Len(vu_queue') = Len(vu_queue) - k
    <3>1. PICK ring, queue : ring = vu_ring /\ queue = vu_queue
      BY Zenon
    <3>2. Holds(ring, queue) /\ k <= Len(queue)
      BY <1>2, <2>2, <3>1, Zenon
    <3>3. /\ Holds([ring EXCEPT !.head = VuUp(ring.head, k)], SubSeq(queue, k + 1, Len(queue)))
          /\ Len(SubSeq(queue, k + 1, Len(queue))) = Len(queue) - k
      BY <3>2, <2>2, ConsumeKeeps, Zenon
    <3> QED
      BY <2>4, <3>1, <3>3, Zenon
  <2>7. vu_ring'.tail = vu_ring.tail /\ vu_ring'.buf = vu_ring.buf
    BY <2>4, <1>n, Zenon DEF VuRings
  <2>8. Len(vu_queue) < VuCap => Len(vu_queue') < VuCap
    BY <2>2, <2>6, <1>n, Sizes, SMTT(30)
  <2>9. Producing(vu_thr', vu_ring', vu_queue') /\ Producing(vu_isr', vu_ring', vu_queue')
    <3>1. Producing(vu_thr, vu_ring, vu_queue) /\ Producing(vu_isr, vu_ring, vu_queue)
      BY <1>2, Zenon DEF TxPart
    <3> QED
      BY <1>1, <2>7, <2>8, <3>1, Zenon DEF Producing
  <2>10. vu_host'.pc = "idle"
    BY <1>1, <1>4, Zenon
  <2>11. Reading(vu_host', vu_queue')
    BY <2>10, Zenon DEF Reading
  <2>12. TxPart'
    BY <1>1, <1>2, <2>9, <2>10, <2>11, Zenon DEF TxPart
  <2> QED
    BY <1>1, <2>5, <2>6, <2>12, Zenon DEF VuIInv
<1> QED
  BY <1>3, <1>4, Zenon DEF vuart_read

(* The host's putc.                                                          *)
LEMMA HostPuts ==
  ASSUME VuWrap % VuCap = 0, VuIInv, vuart_putc
  PROVE  VuIInv'
<1>1. /\ vu_role = "rx" /\ vu_role' = "rx" /\ vu_thr' = vu_thr /\ vu_isr' = vu_isr
      /\ VuIdle.pc = "idle"
  BY Fields, SMTT(30) DEF vuart_putc, VuIdle
<1>2. /\ RxPart /\ Holds(vu_ring, vu_queue) /\ vu_exact
      /\ vu_isr.pc = "cas" => Fresh(vu_isr, vu_ring, vu_queue)
      /\ vu_thr.pc = "cas" => \/ Fresh(vu_thr, vu_ring, vu_queue)
                              \/ Stale(vu_thr, vu_ring, vu_queue, vu_host)
      /\ Putting(vu_host, vu_ring, vu_queue)
  BY <1>1, Zenon DEF VuIInv, RxPart
<1>n. /\ Len(vu_queue) \in Nat /\ vu_queue \in Seq(VuBytes) /\ Len(vu_queue) <= VuCap
      /\ vu_ring \in VuRings
  BY <1>2, SMTT(30) DEF Holds
<1>3. /\ tt_vuart_buf_space = VuCap - Len(vu_queue)
      /\ tt_vuart_buf_space > 0 <=> Len(vu_queue) < VuCap
  <2>1. tt_vuart_buf_space = VuCap - Len(vu_queue)
    BY <1>2, SizeIsLength, Zenon
  <2> QED
    BY <2>1, <1>n, Sizes, SMTT(30)
<1>4. ASSUME Holds(vu_ring', vu_queue'), vu_exact', vu_host'.pc \in {"idle", "store", "check"},
             Putting(vu_host', vu_ring', vu_queue'),
             vu_isr.pc = "cas" => Fresh(vu_isr, vu_ring', vu_queue'),
             vu_thr.pc = "cas" => \/ Fresh(vu_thr, vu_ring', vu_queue')
                                  \/ Stale(vu_thr, vu_ring', vu_queue', vu_host')
      PROVE  VuIInv'
  <2>1. /\ vu_isr'.pc = "cas" => Fresh(vu_isr', vu_ring', vu_queue')
        /\ vu_thr'.pc = "cas" => \/ Fresh(vu_thr', vu_ring', vu_queue')
                                 \/ Stale(vu_thr', vu_ring', vu_queue', vu_host')
    BY <1>1, <1>4, Zenon
  <2>2. RxPart'
    BY <1>1, <1>2, <1>4, <2>1, Zenon DEF RxPart
  <2> QED
    BY <1>1, <1>4, <2>2, Zenon DEF VuIInv
<1>5. CASE /\ vu_host = VuIdle /\ tt_vuart_buf_space > 0 /\ VuNoLap /\ VuKeep
           /\ \E ch \in VuBytes : vu_host' = VuAt("store", <<ch>>, 0, 0)
  <2>1. PICK ch \in VuBytes : vu_host' = VuAt("store", <<ch>>, 0, 0)
    BY <1>5, Zenon
  <2>2. vu_host'.pc = "store" /\ vu_host'.ch = <<ch>> /\ IsProcess(vu_host')
    BY <2>1, Fields, SMTT(30)
  <2>3. vu_ring' = vu_ring /\ vu_queue' = vu_queue /\ vu_exact' = vu_exact
    BY <1>5, Zenon DEF VuKeep
  <2>4. Len(vu_queue) < VuCap
    BY <1>3, <1>5, Zenon
  <2>5. Putting(vu_host', vu_ring', vu_queue')
    BY <2>2, <2>3, <2>4, Zenon DEF Putting
  <2>6. PICK t, ring, queue, host, host2 :
           /\ t = vu_thr /\ ring = vu_ring /\ queue = vu_queue /\ host = vu_host /\ host2 = vu_host'
    BY Zenon
  <2>7. t.pc = "cas" => Fresh(t, ring, queue) \/ Stale(t, ring, queue, host2)
    <3>1. SUFFICES ASSUME t.pc = "cas", ~Fresh(t, ring, queue) PROVE Stale(t, ring, queue, host2)
      BY Zenon
    <3>2. Stale(t, ring, queue, host) /\ Holds(ring, queue) /\ Len(queue) < VuCap /\ host.pc = "idle"
      BY <1>1, <1>2, <1>5, <2>4, <2>6, <3>1, Zenon
    <3>3. t.at # ring.head
      BY <3>1, <3>2, CasIsFresh, Zenon
    <3>4. VuUp(ring.tail, 1) # t.at
      BY <1>5, <2>6, <3>1, <3>3, Zenon DEF VuNoLap
    <3> QED
      BY <3>2, <3>4, StalePut, Zenon
  <2>8. vu_thr.pc = "cas" => \/ Fresh(vu_thr, vu_ring', vu_queue')
                             \/ Stale(vu_thr, vu_ring', vu_queue', vu_host')
    BY <2>3, <2>6, <2>7, Zenon
  <2>9. vu_isr.pc = "cas" => Fresh(vu_isr, vu_ring', vu_queue')
    BY <1>2, <2>3, Zenon
  <2>10. Holds(vu_ring', vu_queue')
    BY <1>2, <2>3, ZenonT(40)
  <2> QED
    BY <1>2, <1>4, <2>2, <2>3, <2>5, <2>8, <2>9, <2>10, Zenon
<1>6. CASE /\ vu_host.pc = "store" /\ VuStore(vu_ring.tail, vu_host.ch)
           /\ vu_host' = [vu_host EXCEPT !.pc = "check"] /\ UNCHANGED <<vu_queue, vu_exact>>
  <2>1. PICK b \in VuBytes : vu_host.ch = <<b>>
    BY <1>2, <1>6, Zenon DEF Putting
  <2>2. Len(vu_queue) < VuCap /\ IsProcess(vu_host)
    BY <1>2, <1>6, Zenon DEF Putting
  <2>3. vu_ring' = [vu_ring EXCEPT !.buf[vu_ring.tail % VuCap] = b]
    BY <1>6, <2>1, SMTT(30) DEF VuStore
  <2>4. /\ Holds(vu_ring', vu_queue) /\ vu_ring'.buf[vu_ring.tail % VuCap] = b
        /\ vu_ring'.tail = vu_ring.tail /\ vu_ring'.head = vu_ring.head
    BY <1>2, <2>2, <2>3, StoreKeeps, Zenon
  <2>5. vu_host'.pc = "check" /\ vu_host'.ch = <<b>> /\ IsProcess(vu_host')
    BY <1>6, <2>1, <2>2, Advances, Zenon
  <2>6. Putting(vu_host', vu_ring', vu_queue')
    BY <1>6, <2>2, <2>4, <2>5, Zenon DEF Putting
  <2>7. vu_isr.pc = "cas" => Fresh(vu_isr, vu_ring', vu_queue')
    BY <1>2, <1>6, <2>4, Zenon DEF Fresh
  <2>8. vu_thr.pc = "cas" => \/ Fresh(vu_thr, vu_ring', vu_queue')
                             \/ Stale(vu_thr, vu_ring', vu_queue', vu_host')
    BY <1>2, <1>6, <2>4, <2>5, Zenon DEF Fresh, Stale
  <2>9. Holds(vu_ring', vu_queue') /\ vu_exact'
    BY <1>2, <1>6, <2>4, Zenon
  <2> QED
    BY <1>4, <2>5, <2>6, <2>7, <2>8, <2>9, Zenon
<1>7. CASE /\ vu_host.pc = "check" /\ vu_host' = VuIdle
           /\ IF tt_vuart_buf_space > 0
              THEN VuPublish(vu_ring.tail, vu_host.ch) /\ UNCHANGED vu_exact
              ELSE VuKeep
  <2>1. PICK b \in VuBytes : vu_host.ch = <<b>> /\ vu_ring.buf[vu_ring.tail % VuCap] = b
    BY <1>2, <1>7, Zenon DEF Putting
  <2>2. Len(vu_queue) < VuCap
    BY <1>2, <1>7, Zenon DEF Putting
  <2>3. /\ vu_ring' = [vu_ring EXCEPT !.tail = VuUp(vu_ring.tail, 1)] /\ vu_queue' = vu_queue \o <<b>>
        /\ vu_exact'
    BY <1>2, <1>3, <1>7, <2>1, <2>2, Zenon DEF VuPublish
  <2>4. /\ Holds(vu_ring', vu_queue') /\ Len(vu_queue') = Len(vu_queue) + 1
        /\ \A j \in 1 .. Len(vu_queue) : vu_queue'[j] = vu_queue[j]
        /\ vu_ring'.head = vu_ring.head
    <3>1. PICK ring, queue : ring = vu_ring /\ queue = vu_queue
      BY Zenon
    <3>2. Holds(ring, queue) /\ Len(queue) < VuCap /\ ring.buf[ring.tail % VuCap] = b
      BY <1>2, <2>1, <2>2, <3>1, Zenon
    <3>3. /\ Holds([ring EXCEPT !.tail = VuUp(ring.tail, 1)], queue \o <<b>>)
          /\ Len(queue \o <<b>>) = Len(queue) + 1
          /\ \A j \in 1 .. Len(queue) : (queue \o <<b>>)[j] = queue[j]
          /\ [ring EXCEPT !.tail = VuUp(ring.tail, 1)].head = ring.head
      BY <3>2, PublishKeeps, SMTT(30)
    <3> QED
      BY <2>3, <3>1, <3>3, Zenon
  <2>5. vu_host'.pc = "idle"
    BY <1>1, <1>7, Zenon
  <2>6. Putting(vu_host', vu_ring', vu_queue')
    BY <2>5, Zenon DEF Putting
  <2>7. PICK t, r, ring, queue, host, ring2, queue2, host2 :
           /\ t = vu_thr /\ r = vu_isr /\ ring = vu_ring /\ queue = vu_queue /\ host = vu_host
           /\ ring2 = vu_ring' /\ queue2 = vu_queue' /\ host2 = vu_host'
    BY Zenon
  <2>8. /\ ring2.head = ring.head /\ Len(queue) \in Nat /\ Len(queue2) = Len(queue) + 1
        /\ \A j \in 1 .. Len(queue) : queue2[j] = queue[j]
        /\ host.pc = "check" /\ host2.pc = "idle"
    BY <1>7, <1>n, <2>4, <2>5, <2>7, Zenon
  <2>9. ASSUME NEW p, Fresh(p, ring, queue) PROVE Fresh(p, ring2, queue2)
    <3>1. 1 \in 1 .. Len(queue) /\ Len(queue2) >= 1
      BY <2>8, <2>9, SMTT(30) DEF Fresh
    <3> QED
      BY <2>8, <2>9, <3>1, Zenon DEF Fresh
  <2>10. /\ r.pc = "cas" => Fresh(r, ring2, queue2)
         /\ t.pc = "cas" => Fresh(t, ring2, queue2) \/ Stale(t, ring2, queue2, host2)
    <3>1. /\ r.pc = "cas" => Fresh(r, ring, queue)
          /\ t.pc = "cas" => Fresh(t, ring, queue) \/ Stale(t, ring, queue, host)
      BY <1>2, <2>7, Zenon
    <3>2. Stale(t, ring, queue, host) => Stale(t, ring2, queue2, host2)
      BY <2>8, StalePublish, Zenon
    <3> QED
      BY <2>9, <3>1, <3>2, Zenon
  <2>11. /\ vu_isr.pc = "cas" => Fresh(vu_isr, vu_ring', vu_queue')
         /\ vu_thr.pc = "cas" => \/ Fresh(vu_thr, vu_ring', vu_queue')
                                 \/ Stale(vu_thr, vu_ring', vu_queue', vu_host')
    BY <2>7, <2>10, Zenon
  <2> QED
    BY <1>4, <2>3, <2>4, <2>5, <2>6, <2>11, Zenon
<1> QED
  BY <1>5, <1>6, <1>7, Zenon DEF vuart_putc

(* Every step keeps the invariant.                                           *)
LEMMA VuStep ==
  ASSUME VuWrap % VuCap = 0, VuIInv, [VuNext]_vu_vars
  PROVE  VuIInv'
<1>1. CASE uart_tt_virt_poll_out
  BY <1>1, ThreadOut, Zenon
<1>2. CASE uart_tt_virt_poll_in
  BY <1>2, ThreadIn, Zenon
<1>3. ASSUME NEW k \in VuIrqs, VuIrqEnable(k) \/ VuTimerStart(k) \/ VuIrqDisable(k)
      PROVE  VuIInv'
  <2>1. UNCHANGED <<vu_role, vu_exact, vu_ring, vu_queue, vu_host>> /\ vu_thr' = vu_thr /\ vu_isr' = vu_isr
    BY <1>3, Zenon DEF VuIrqEnable, VuTimerStart, VuIrqDisable
  <2> QED
    BY <2>1, Rests, Zenon
<1>4. CASE uart_tt_virt_irq_handler
  BY <1>4, Handler, Zenon
<1>5. ASSUME NEW adoptable \in BOOLEAN, uart_tt_virt_init(adoptable)
      PROVE  VuIInv'
  BY <1>5, NextStage, Zenon
<1>6. CASE vuart_read
  BY <1>6, HostReads, Zenon
<1>7. CASE vuart_putc
  BY <1>7, HostPuts, Zenon
<1>8. CASE UNCHANGED vu_vars
  <2>1. UNCHANGED <<vu_role, vu_exact, vu_ring, vu_queue, vu_host>> /\ vu_thr' = vu_thr /\ vu_isr' = vu_isr
    BY <1>8, Zenon DEF vu_vars
  <2> QED
    BY <2>1, Rests, Zenon
<1> QED
  BY <1>1, <1>2, <1>3, <1>4, <1>5, <1>6, <1>7, <1>8, Zenon DEF VuNext

(* No byte of the virtual UART is lost, repeated or reordered: between head  *)
(* and tail lie the bytes accepted and not yet consumed, and each consumer   *)
(* got the ones that were due (tt_vuart_poll_out, tt_vuart_poll_in and the   *)
(* host's vuart_read and vuart_putc), for every capacity that divides the    *)
(* modulus of the counters and every number of bytes.                        *)
THEOREM RingHoldsQueue == (VuWrap % VuCap = 0) /\ VuSpec => []VuRingHolds
<1> SUFFICES ASSUME VuWrap % VuCap = 0 PROVE VuSpec => []VuRingHolds
  BY Zenon
<1>1. VuInit => VuIInv
  BY VuInitInv, Zenon
<1>2. VuIInv /\ [VuNext]_vu_vars => VuIInv'
  BY VuStep, Zenon
<1>3. VuIInv => VuRingHolds
  <2> SUFFICES ASSUME VuIInv PROVE VuRingHolds
    BY Zenon
  <2>1. Holds(vu_ring, vu_queue) /\ vu_exact
    BY Zenon DEF VuIInv
  <2>2. tt_vuart_buf_size = Len(vu_queue)
    BY <2>1, SizeIsLength, Zenon
  <2> QED
    BY <2>1, <2>2, Zenon DEF Holds, VuRingHolds
<1> QED
  BY <1>1, <1>2, <1>3, PTL DEF VuSpec

-----------------------------------------------------------------------------
(* What each part of a connection has when it is reached: past map_tlb the   *)
(* mapping is live unless a freeing call failed, and from the end of a       *)
(* connection to the next open nothing is held.                              *)
HtHeld ==
  /\ ht_pc \in {"main", "rescan", "exit"} => ht_fd = "none" /\ ht_ptr = "null"
  /\ ht_pc \in {"main", "map", "rescan", "exit"} => ht_tlb = "none" \/ ht_lost
  /\ ht_tlb = "gone" => ht_lost
  /\ ht_pc \in {"post", "start", "io"} => ht_tlb # "none"
HtIInv == HtTypeOK /\ HtHeld /\ HtLiveAccess

(* The tool starts with nothing.                                             *)
LEMMA HtInitInv == HtInit => HtIInv
  BY Zenon DEF HtInit, HtIInv, HtTypeOK, HtHeld, HtLiveAccess

(* Every call keeps it, failing or not.                                      *)
LEMMA HtStepInv == HtIInv /\ [HtNext]_ht_vars => HtIInv'
<1> SUFFICES ASSUME HtIInv, [HtNext]_ht_vars PROVE HtIInv'
  BY Zenon
<1> USE DEF HtIInv, HtTypeOK, HtHeld, HtLiveAccess
<1>1. CASE open_tt_dev
  BY <1>1, Zenon DEF open_tt_dev, HtFail
<1>2. CASE map_tlb
  BY <1>2, Zenon DEF map_tlb, HtFail
<1>3. CASE check_post_code
  BY <1>3, Zenon DEF check_post_code, HtFail, program_noc
<1>4. CASE vuart_start
  BY <1>4, Zenon DEF vuart_start, HtFail, program_noc
<1>5. CASE loop
  BY <1>5, Zenon DEF loop, HtFail
<1>6. CASE vuart_close
  BY <1>6, Zenon DEF vuart_close, unmap_tlb, close_tt_dev, HtAfterLoop
<1>7. CASE rescan_pcie
  BY <1>7, Zenon DEF rescan_pcie
<1>8. CASE HtRestart
  BY <1>8, Zenon DEF HtRestart
<1>9. CASE HtCard
  BY <1>9, SMTT(30) DEF HtCard
<1>10. CASE UNCHANGED ht_vars
  BY <1>10, SMTT(30) DEF ht_vars
<1> QED
  BY <1>1, <1>2, <1>3, <1>4, <1>5, <1>6, <1>7, <1>8, <1>9, <1>10, Zenon DEF HtNext

(* A ring is touched only through a live mapping on the descriptor, and      *)
(* nothing of a lost connection is used by the next (vuart_start,            *)
(* vuart_close), unless a call that frees the mapping failed.                *)
THEOREM RingsReachedLive == HtSpec => []HtLiveAccess
<1>1. HtIInv => HtLiveAccess
  BY Zenon DEF HtIInv
<1> QED
  BY HtInitInv, HtStepInv, <1>1, PTL DEF HtSpec
=============================================================================
