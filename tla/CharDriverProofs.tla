--------------------------- MODULE CharDriverProofs ----------------------------
(***************************************************************************)
(* Proofs about CharDrivers, and through it about IoWaits and Lists, for   *)
(* rings, FIFOs and pools of every size and any number of threads:         *)
(*                                                                         *)
(*   - the rings between the interrupts of a driver and its callers hold   *)
(*     the bytes accepted and not yet taken, in order (RingsAreSound);     *)
(*   - the wait queues are whole, and each sleeper can be reached from its *)
(*     queue (WaitQueuesAreSound);                                         *)
(*   - nobody sleeps on when there is something for it                     *)
(*     (NobodyIsForgotten).                                                *)
(*                                                                         *)
(* Two lemmas about cbuffers.h carry the first: StoredRing, for the side   *)
(* that fills a ring within its free space, and RemovedRing, for the side  *)
(* that empties it.  The second rests on what list_append and list_remove  *)
(* do to a doubly linked list (AppendHolds, RemoveHolds) and on a walk     *)
(* along its links finding what the list holds (WalkFinds).                *)
(***************************************************************************)
EXTENDS CharDrivers, SequenceTheorems, FiniteSetTheorems, TLAPS

Bits == {0, 1}

(* An index that has passed the end at most once is brought back into the  *)
(* ring.                                                                   *)
LEMMA WrapType ==
    ASSUME NEW i \in 0 .. 2 * BUF_SIZE - 1
    PROVE  Wrap(i) \in 0 .. BUF_SIZE - 1
BY DriversAssumption DEF Wrap

(* What a ring has in use and what it has free.                            *)
LEMMA Sizes ==
    ASSUME NEW c \in Ring
    PROVE  /\ cbuffer_in_use(c) \in 0 .. BUF_SIZE - 1
           /\ cbuffer_free_space(c) \in 0 .. BUF_SIZE - 1
           /\ cbuffer_in_use(c) + cbuffer_free_space(c) = BUF_SIZE - 1
BY DriversAssumption DEF Ring, cbuffer_in_use, cbuffer_free_space

(* The contents of a ring are a sequence of bytes.                         *)
LEMMA ContentsType ==
    ASSUME NEW c \in Ring
    PROVE  Contents(c) \in Seq(Bits) /\ Len(Contents(c)) = cbuffer_in_use(c)
<1>1. cbuffer_in_use(c) \in 0 .. BUF_SIZE - 1 /\ cbuffer_in_use(c) \in Nat
  BY Sizes, DriversAssumption
<1>2. \A j \in 1 .. cbuffer_in_use(c) : c.buf[Wrap(c.head + j - 1)] \in Bits
  <2> TAKE j \in 1 .. cbuffer_in_use(c)
  <2>1. c.head + j - 1 \in 0 .. 2 * BUF_SIZE - 1
    BY <1>1, DriversAssumption DEF Ring
  <2> QED
    BY <2>1, WrapType DEF Ring, Bits
<1> QED
  BY <1>1, <1>2 DEF Contents

(* cbuffer_remove and cbuffer_remove_n: taking the first n bytes leaves    *)
(* the others, in order.                                                   *)
LEMMA RemovedRing ==
    ASSUME NEW c \in Ring, NEW n \in 0 .. cbuffer_in_use(c)
    PROVE  /\ Removed(c, n) \in Ring
           /\ cbuffer_in_use(Removed(c, n)) = cbuffer_in_use(c) - n
           /\ Contents(Removed(c, n)) = SubSeq(Contents(c), n + 1, Len(Contents(c)))
<1> DEFINE d == Removed(c, n)
           u == cbuffer_in_use(c)
<1>1. u \in 0 .. BUF_SIZE - 1 /\ u \in Nat /\ n \in Nat
  BY Sizes, DriversAssumption
<1>2. c.head + n \in 0 .. 2 * BUF_SIZE - 1
  BY <1>1, DriversAssumption DEF Ring
<1>3. d.head = Wrap(c.head + n) /\ d.tail = c.tail /\ d.buf = c.buf /\ d \in Ring
  BY <1>2, WrapType DEF Ring, Removed
<1>4. cbuffer_in_use(d) = u - n
  <2>1. c.head \in 0 .. BUF_SIZE - 1 /\ c.tail \in 0 .. BUF_SIZE - 1 /\ n <= u /\ BUF_SIZE \in Nat
    BY <1>1, DriversAssumption DEF Ring
  <2>2. CASE c.head <= c.tail
    BY <1>1, <1>3, <2>1, <2>2 DEF cbuffer_in_use, Wrap
  <2>3. CASE c.head > c.tail
    BY <1>1, <1>3, <2>1, <2>3 DEF cbuffer_in_use, Wrap
  <2> QED
    BY <2>1, <2>2, <2>3
<1>5. Contents(d) \in Seq(Bits) /\ Len(Contents(d)) = u - n
  BY <1>3, <1>4, ContentsType
<1>6. Contents(c) \in Seq(Bits) /\ Len(Contents(c)) = u
  BY ContentsType
<1>7. \A j \in 1 .. u - n : Contents(d)[j] = Contents(c)[n + j]
  <2> TAKE j \in 1 .. u - n
  <2>1. Wrap(d.head + j - 1) = Wrap(c.head + (n + j) - 1)
    BY <1>1, <1>3, DriversAssumption DEF Ring, Wrap
  <2>2. n + j \in 1 .. u
    BY <1>1
  <2> QED
    BY <1>3, <1>4, <2>1, <2>2 DEF Contents
<1>8. SubSeq(Contents(c), n + 1, u) \in Seq(Bits) /\ Len(SubSeq(Contents(c), n + 1, u)) = u - n
  BY <1>1, <1>6
<1>9. \A j \in 1 .. u - n : SubSeq(Contents(c), n + 1, u)[j] = Contents(c)[n + j]
  BY <1>1, <1>6
<1> QED
  BY <1>3, <1>4, <1>5, <1>6, <1>7, <1>8, <1>9, SeqEqual

(* The indices of a ring with u bytes in use from h to t, to which n are   *)
(* added: the bytes follow those in use and leave them alone.              *)
InUse(h, t) == IF h <= t THEN t - h ELSE BUF_SIZE - h + t

AddsBehind(h, t, n) ==
    /\ InUse(h, Wrap(t + n)) = InUse(h, t) + n
    /\ \A j \in 1 .. n : Wrap(h + (InUse(h, t) + j) - 1) = Wrap(t + j - 1)
    /\ \A j \in 1 .. n, k \in 1 .. InUse(h, t) : Wrap(t + j - 1) # Wrap(h + k - 1)

(* Where the bytes of a ring are, before and after some are added.         *)
LEMMA Indices ==
    ASSUME NEW h \in 0 .. BUF_SIZE - 1, NEW t \in 0 .. BUF_SIZE - 1, NEW n \in Nat,
           InUse(h, t) + n <= BUF_SIZE - 1
    PROVE  AddsBehind(h, t, n)
<1> USE DEF AddsBehind
<1>1. BUF_SIZE \in Nat \ {0} /\ h \in Nat /\ t \in Nat
  BY DriversAssumption
<1>2. CASE h <= t
  BY <1>1, <1>2 DEF InUse, Wrap
<1>3. CASE t < h
  <2>1. InUse(h, t) = BUF_SIZE - h + t /\ t + n < h
    BY <1>1, <1>3 DEF InUse
  <2>2. Wrap(t + n) = t + n /\ \A j \in 1 .. n : Wrap(t + j - 1) = t + j - 1
    BY <1>1, <2>1 DEF Wrap
  <2>3. InUse(h, t + n) = BUF_SIZE - h + (t + n)
    BY <1>1, <2>1 DEF InUse
  <2>4. \A j \in 1 .. n : Wrap(h + (InUse(h, t) + j) - 1) = t + j - 1
    BY <1>1, <2>1 DEF Wrap
  <2>5. \A k \in 1 .. InUse(h, t) : Wrap(h + k - 1) < t \/ Wrap(h + k - 1) >= h
    BY <1>1, <2>1 DEF Wrap
  <2>6. \A k \in 1 .. InUse(h, t) : Wrap(h + k - 1) \in Int
    BY <1>1, <2>1 DEF Wrap
  <2>7. \A j \in 1 .. n, k \in 1 .. InUse(h, t) : Wrap(t + j - 1) # Wrap(h + k - 1)
    <3> TAKE j \in 1 .. n, k \in 1 .. InUse(h, t)
    <3>1. t <= t + j - 1 /\ t + j - 1 < h /\ t + j - 1 \in Int
      BY <1>1, <2>1
    <3>2. Wrap(h + k - 1) \in Int /\ (Wrap(h + k - 1) < t \/ Wrap(h + k - 1) >= h)
      BY <2>5, <2>6
    <3>3. t + j - 1 # Wrap(h + k - 1)
      BY <1>1, <3>1, <3>2
    <3> QED
      BY <2>2, <3>3
  <2>8. InUse(h, Wrap(t + n)) = InUse(h, t) + n
    BY <1>1, <2>1, <2>2, <2>3
  <2> QED
    BY <2>2, <2>4, <2>7, <2>8
<1> QED
  BY <1>1, <1>2, <1>3

(* cbuffer_add and cbuffer_add_n: bytes that fit the free space are added  *)
(* behind the others, which are left as they were.                         *)
LEMMA StoredRing ==
    ASSUME NEW c \in Ring, NEW s \in Seq(Bits), Len(s) <= cbuffer_free_space(c)
    PROVE  /\ Stored(c, s) \in Ring
           /\ Contents(Stored(c, s)) = Contents(c) \o s
<1> DEFINE d == Stored(c, s)
           u == cbuffer_in_use(c)
           n == Len(s)
<1>1. /\ u \in Nat /\ n \in Nat /\ BUF_SIZE \in Nat \ {0}
      /\ u + n <= BUF_SIZE - 1 /\ u + cbuffer_free_space(c) = BUF_SIZE - 1
      /\ c.head \in 0 .. BUF_SIZE - 1 /\ c.tail \in 0 .. BUF_SIZE - 1
  BY Sizes, DriversAssumption DEF Ring
<1>u. /\ u = InUse(c.head, c.tail)
      /\ \A r \in Ring : cbuffer_in_use(r) = InUse(r.head, r.tail)
  BY DEF cbuffer_in_use, InUse
<1>i. /\ InUse(c.head, Wrap(c.tail + n)) = u + n
      /\ \A j \in 1 .. n : Wrap(c.head + (u + j) - 1) = Wrap(c.tail + j - 1)
      /\ \A j \in 1 .. n, k \in 1 .. u : Wrap(c.tail + j - 1) # Wrap(c.head + k - 1)
  <2> HIDE DEF u, n
  <2>1. InUse(c.head, c.tail) + n <= BUF_SIZE - 1
    BY <1>1, <1>u
  <2>2. AddsBehind(c.head, c.tail, n)
    BY <1>1, <2>1, Indices
  <2> QED
    BY <1>u, <2>2 DEF AddsBehind
<1>2. \A j \in 1 .. n : Wrap(c.tail + j - 1) \in 0 .. BUF_SIZE - 1
  <2> TAKE j \in 1 .. n
  <2>1. c.tail + j - 1 \in 0 .. 2 * BUF_SIZE - 1
    BY <1>1
  <2> QED
    BY <2>1, WrapType
<1>3. \A j, k \in 1 .. n : Wrap(c.tail + j - 1) = Wrap(c.tail + k - 1) => j = k
  BY <1>1 DEF Wrap
<1>4. DOMAIN s = 1 .. n /\ \A j \in 1 .. n : s[j] \in Bits
  OBVIOUS
<1>5. d.head = c.head /\ d.tail = Wrap(c.tail + n)
  BY DEF Stored, Ring
<1>6. d.tail \in 0 .. BUF_SIZE - 1
  BY <1>1, <1>5 DEF Wrap
<1> DEFINE put(i) == CHOOSE j \in DOMAIN s : Wrap(c.tail + j - 1) = i
           new    == [i \in 0 .. BUF_SIZE - 1 |->
                         IF \E j \in DOMAIN s : Wrap(c.tail + j - 1) = i THEN s[put(i)] ELSE c.buf[i]]
<1>7. d.buf = new
  BY DEF Stored, Ring
<1>8. \A i : (\E j \in 1 .. n : Wrap(c.tail + j - 1) = i) =>
                  put(i) \in 1 .. n /\ Wrap(c.tail + put(i) - 1) = i
  BY <1>4
<1>9. new \in [0 .. BUF_SIZE - 1 -> Bits]
  <2>1. \A i \in 0 .. BUF_SIZE - 1 :
            (IF \E j \in DOMAIN s : Wrap(c.tail + j - 1) = i THEN s[put(i)] ELSE c.buf[i]) \in Bits
    BY <1>4, <1>8 DEF Ring, Bits
  <2> QED
    BY <2>1
<1>10. d \in Ring
  BY <1>5, <1>6, <1>7, <1>9 DEF Stored, Ring, Bits
<1>11. \A j \in 1 .. n : d.buf[Wrap(c.tail + j - 1)] = s[j]
  <2> TAKE j \in 1 .. n
  <2>1. put(Wrap(c.tail + j - 1)) = j
    BY <1>3, <1>8
  <2> QED
    BY <1>2, <1>4, <1>7, <2>1
<1>12. \A k \in 1 .. u : d.buf[Wrap(c.head + k - 1)] = c.buf[Wrap(c.head + k - 1)]
  <2> TAKE k \in 1 .. u
  <2>1. \A j \in 1 .. n : Wrap(c.tail + j - 1) # Wrap(c.head + k - 1)
    BY <1>i
  <2>2. Wrap(c.head + k - 1) \in 0 .. BUF_SIZE - 1
    BY <1>1 DEF Wrap
  <2> QED
    BY <1>4, <1>7, <2>1, <2>2
<1>13. cbuffer_in_use(d) = u + n
  BY <1>5, <1>10, <1>i, <1>u
<1>15. Contents(c) \in Seq(Bits) /\ Len(Contents(c)) = u
  BY ContentsType
<1>16. Contents(d) \in Seq(Bits) /\ Len(Contents(d)) = u + n
  BY <1>10, <1>13, ContentsType
<1>17. /\ Contents(c) \o s \in Seq(Bits) /\ Len(Contents(c) \o s) = u + n
       /\ \A i \in 1 .. u + n : (Contents(c) \o s)[i] = IF i <= u THEN Contents(c)[i] ELSE s[i - u]
  <2>1. Contents(c) \in Seq(Bits) /\ s \in Seq(Bits) /\ Len(Contents(c)) = u /\ Len(s) = n
    BY <1>15
  <2> HIDE DEF u, n
  <2> QED
    BY <2>1, ConcatProperties
<1> HIDE DEF d, u, n
<1>18. \A i \in 1 .. u + n : Contents(d)[i] = (Contents(c) \o s)[i]
  <2> TAKE i \in 1 .. u + n
  <2>1. Contents(d)[i] = d.buf[Wrap(c.head + i - 1)]
    BY <1>5, <1>13 DEF Contents
  <2>2. CASE i <= u
    <3>1. i \in 1 .. u /\ Contents(c)[i] = c.buf[Wrap(c.head + i - 1)]
      BY <1>1, <2>2 DEF Contents, u
    <3> QED
      BY <1>12, <1>17, <2>1, <2>2, <3>1
  <2>3. CASE i > u
    <3>1. i - u \in 1 .. n /\ u + (i - u) = i
      BY <1>1, <2>3
    <3>2. d.buf[Wrap(c.head + i - 1)] = s[i - u]
      BY <1>11, <1>i, <3>1
    <3> QED
      BY <1>1, <1>17, <2>1, <2>3, <3>2
  <2>4. i <= u \/ i > u
    BY <1>1
  <2> QED
    BY <2>2, <2>3, <2>4
<1>19. Contents(d) = Contents(c) \o s
  BY <1>16, <1>17, <1>18, SeqEqual
<1> QED
  BY <1>10, <1>19 DEF d

(***************************************************************************)
(* The inductive invariant.                                                *)
(***************************************************************************)

(* Bytes are numbered modulo 2, and a FIFO is never overrun.               *)
BytesTyped ==
    /\ fifo \in Seq(Bits) /\ Len(fifo) <= FifoSize
    /\ line \in Bits /\ next \in Bits /\ left \in [Thread -> Nat]

RingInv == rx \in Ring /\ tx \in Ring /\ BytesTyped /\ RingsHoldBytes

ringVars == <<rx, tx, rxq, txq, fifo, line, next, left>>

(* An empty ring holds no byte.                                            *)
LEMMA EmptyRing == cbuffer_init \in Ring /\ Contents(cbuffer_init) = <<>>
<1>1. cbuffer_init \in Ring /\ cbuffer_in_use(cbuffer_init) = 0
  BY DriversAssumption DEF cbuffer_init, Ring, cbuffer_in_use
<1> QED
  BY <1>1, ContentsType

(* The rings start empty.                                                  *)
LEMMA InitRingInv == Init => RingInv
BY EmptyRing, DriversAssumption DEF Init, RingInv, BytesTyped, RingsHoldBytes, Bits

(* Most steps leave the rings alone.                                       *)
LEMMA RingInvUnchanged == RingInv /\ UNCHANGED ringVars => RingInv'
BY DEF RingInv, BytesTyped, RingsHoldBytes, ringVars, Contents, cbuffer_in_use

(* An interrupt of the receiver that keeps no more bytes than fit.         *)
LEMMA ReceiveRingInv ==
    ASSUME RingInv, NEW n \in 0 .. Len(fifo), NEW m \in 0 .. n, m <= cbuffer_free_space(rx),
           NEW resume, Receive(n, m, resume)
    PROVE  RingInv'
<1>1. fifo \in Seq(Bits) /\ Len(fifo) \in Nat
  BY DEF RingInv, BytesTyped
<1>2. SubSeq(fifo, 1, m) \in Seq(Bits) /\ Len(SubSeq(fifo, 1, m)) = m
  BY <1>1
<1>3. fifo' \in Seq(Bits) /\ Len(fifo') <= Len(fifo) /\ Len(fifo') \in Nat
  BY <1>1 DEF Receive
<1>4. rx' \in Ring /\ Contents(rx') = Contents(rx) \o SubSeq(fifo, 1, m)
  BY <1>2, StoredRing DEF Receive, RingInv
<1>5. RingsHoldBytes'
  BY <1>4 DEF Receive, RingInv, RingsHoldBytes
<1>6. Len(fifo') <= FifoSize
  BY <1>1, <1>3, DriversAssumption DEF RingInv, BytesTyped
<1> QED
  BY <1>3, <1>4, <1>5, <1>6 DEF Receive, RingInv, BytesTyped

(* The line fills the FIFO, not the ring.                                  *)
LEMMA LineReceivesRingInv == RingInv /\ LineReceives => RingInv'
<1> SUFFICES ASSUME RingInv, LineReceives PROVE RingInv'
  OBVIOUS
<1>1. fifo' \in Seq(Bits) /\ Len(fifo') = Len(fifo) + 1 /\ Len(fifo) \in Nat
  BY DEF RingInv, BytesTyped, LineReceives
<1>2. Len(fifo') <= FifoSize
  <2>1. CASE dev = "uart"
    BY <1>1, <2>1, DriversAssumption DEF LineReceives
  <2>2. CASE dev # "uart"
    BY <1>1, <2>2, DriversAssumption DEF LineReceives
  <2> QED
    BY <2>1, <2>2
<1>3. line' \in Bits
  BY DEF RingInv, BytesTyped, LineReceives, Bits
<1> QED
  BY <1>1, <1>2, <1>3 DEF RingInv, BytesTyped, RingsHoldBytes, LineReceives

(* The interrupts of the three devices.                                    *)
LEMMA InterruptRingInv == RingInv /\ Interrupt => RingInv'
<1> SUFFICES ASSUME RingInv, Interrupt PROVE RingInv'
  OBVIOUS
<1>1. rx \in Ring /\ tx \in Ring /\ Len(fifo) \in Nat
  BY DEF RingInv, BytesTyped
<1>2. /\ cbuffer_free_space(rx) \in Nat
      /\ cbuffer_in_use(tx) \in Nat
  BY <1>1, Sizes, DriversAssumption
<1>3. CASE uart_handle_recv_data_fifo
  <2>1. CASE cbuffer_free_space(rx) = 0
    <3>1. Receive(Len(fifo), 0, TRUE)
      BY <1>3, <2>1 DEF uart_handle_recv_data_fifo
    <3>2. Len(fifo) \in 0 .. Len(fifo) /\ 0 \in 0 .. Len(fifo) /\ 0 <= cbuffer_free_space(rx)
      BY <1>1, <2>1
    <3> QED
      BY <3>1, <3>2, ReceiveRingInv
  <2>2. CASE cbuffer_free_space(rx) # 0
    <3> DEFINE n == Least(cbuffer_free_space(rx), Len(fifo))
    <3>1. Receive(n, n, TRUE)
      BY <1>3, <2>2 DEF uart_handle_recv_data_fifo
    <3>2. n \in 0 .. Len(fifo) /\ n \in 0 .. n /\ n <= cbuffer_free_space(rx)
      BY <1>1, <1>2 DEF Least
    <3> HIDE DEF n
    <3> QED
      BY <3>1, <3>2, ReceiveRingInv
  <2> QED
    BY <2>1, <2>2
<1>4. CASE uart_handle_recv_data_timeout
  <2> DEFINE n == Least(cbuffer_free_space(rx), Len(fifo))
  <2>1. Receive(n, n, TRUE)
    BY <1>4 DEF uart_handle_recv_data_timeout
  <2>2. n \in 0 .. Len(fifo) /\ n \in 0 .. n /\ n <= cbuffer_free_space(rx)
    BY <1>1, <1>2 DEF Least
  <2> HIDE DEF n
  <2> QED
    BY <2>1, <2>2, ReceiveRingInv
<1>5. CASE kbd_interrupt
  <2> DEFINE m == Least(1, cbuffer_free_space(rx))
  <2>1. Receive(1, m, kbd_resumes) /\ fifo # <<>>
    BY <1>5 DEF kbd_interrupt
  <2>2. 1 \in 0 .. Len(fifo)
    BY <2>1 DEF RingInv, BytesTyped
  <2>3. m \in 0 .. 1 /\ m <= cbuffer_free_space(rx)
    BY <1>2 DEF Least
  <2> HIDE DEF m
  <2> QED
    BY <2>1, <2>2, <2>3, ReceiveRingInv
<1>6. CASE mse_interrupt
  <2> DEFINE n == Least(1, cbuffer_free_space(rx))
  <2>1. Receive(n, n, (cbuffer_in_use(rx) + n) % 3 = 0) /\ fifo # <<>>
    BY <1>6 DEF mse_interrupt
  <2>2. 1 <= Len(fifo)
    BY <2>1 DEF RingInv, BytesTyped
  <2>3. n \in 0 .. Len(fifo) /\ n \in 0 .. n /\ n <= cbuffer_free_space(rx)
    BY <1>1, <1>2, <2>2 DEF Least
  <2> HIDE DEF n
  <2> QED
    BY <2>1, <2>3, ReceiveRingInv
<1>7. CASE uart_handle_tx_data
  <2> DEFINE n == Least(TX_SEQ_MAX, cbuffer_in_use(tx))
  <2>1. /\ tx' = Removed(tx, n) /\ txq' = SubSeq(txq, n + 1, Len(txq))
        /\ UNCHANGED <<rx, rxq, fifo, line, next, left>>
    BY <1>7 DEF uart_handle_tx_data
  <2>2. n \in 0 .. cbuffer_in_use(tx)
    BY <1>2, DriversAssumption DEF Least
  <2> HIDE DEF n
  <2>3. tx' \in Ring /\ Contents(tx') = txq'
    BY <1>1, <2>1, <2>2, RemovedRing DEF RingInv, RingsHoldBytes
  <2> QED
    BY <2>1, <2>3 DEF RingInv, BytesTyped, RingsHoldBytes
<1> QED
  BY <1>3, <1>4, <1>5, <1>6, <1>7 DEF Interrupt

(* A read takes the bytes it copies, up to the end of the ring and then    *)
(* from its start.                                                         *)
LEMMA ReadCopiesRingInv ==
    ASSUME RingInv, NEW t \in Thread, NEW bytes \in Bytes, ReadCopies(t, bytes)
    PROVE  RingInv'
<1> DEFINE n == Least(bytes, cbuffer_in_use(rx))
<1>1. rx \in Ring /\ cbuffer_in_use(rx) \in Nat /\ bytes \in Nat
  BY Sizes, DriversAssumption DEF RingInv
<1>2. n \in 0 .. cbuffer_in_use(rx)
  BY <1>1 DEF Least
<1>3. Copied(n) = SubSeq(rxq, 1, n)
  BY DEF Copied, RingInv, RingsHoldBytes
<1>4. /\ rx' = Removed(rx, n) /\ rxq' = SubSeq(rxq, n + 1, Len(rxq))
      /\ UNCHANGED <<tx, txq, fifo, line, next, left>>
  BY <1>3 DEF ReadCopies
<1> HIDE DEF n
<1>5. rx' \in Ring /\ Contents(rx') = rxq'
  BY <1>1, <1>2, <1>4, RemovedRing DEF RingInv, RingsHoldBytes
<1> QED
  BY <1>4, <1>5 DEF RingInv, BytesTyped, RingsHoldBytes

(* A write stores what is free of the ring, up to its end.                 *)
LEMMA WriteCopiesRingInv ==
    ASSUME RingInv, NEW t \in Thread, WriteCopies(t)
    PROVE  RingInv'
<1> DEFINE n == Trimmed(left[t])
<1>1. tx \in Ring /\ cbuffer_free_space(tx) \in Nat /\ left[t] \in Nat /\ tx.tail \in 0 .. BUF_SIZE - 1
  BY Sizes, DriversAssumption DEF RingInv, BytesTyped, Ring
<1>2. n \in Nat /\ n <= cbuffer_free_space(tx) /\ n <= left[t]
  BY <1>1, DriversAssumption DEF Trimmed, Least
<1>3. /\ tx' = Stored(tx, Numbers(next, n)) /\ txq' = txq \o Numbers(next, n)
      /\ next' = (next + n) % 2 /\ left' = [left EXCEPT ![t] = @ - n]
      /\ UNCHANGED <<rx, rxq, fifo, line>>
  BY DEF WriteCopies
<1> HIDE DEF n
<1>4. next \in Bits /\ left \in [Thread -> Nat]
  BY DEF RingInv, BytesTyped
<1>5. Numbers(next, n) \in Seq(Bits) /\ Len(Numbers(next, n)) = n
  <2>1. \A j \in 1 .. n : (next + j - 1) % 2 \in Bits
    BY <1>2, <1>4 DEF Bits
  <2> QED
    BY <1>2, <2>1 DEF Numbers
<1>6. tx' \in Ring /\ Contents(tx') = txq'
  BY <1>1, <1>2, <1>3, <1>5, StoredRing DEF RingInv, RingsHoldBytes
<1>7. next' \in Bits
  BY <1>2, <1>3, <1>4 DEF Bits
<1>8. left' \in [Thread -> Nat]
  BY <1>1, <1>2, <1>3, <1>4
<1> QED
  BY <1>3, <1>6, <1>7, <1>8 DEF RingInv, BytesTyped, RingsHoldBytes

(* A call sets how much is left to write.                                  *)
LEMMA CallsRingInv ==
    ASSUME RingInv, NEW t \in Thread, Calls(t)
    PROVE  RingInv'
<1>1. left' \in [Thread -> Nat]
  BY DriversAssumption DEF Calls, RingInv, BytesTyped
<1> QED
  BY <1>1 DEF Calls, RingInv, BytesTyped, RingsHoldBytes

(* The steps of the callers: two of them touch a ring.                     *)
LEMMA ThinksRingInv ==
    ASSUME RingInv, NEW t \in Thread, Thinks(t)
    PROVE  RingInv'
<1>1. CASE Calls(t)
  BY <1>1, CallsRingInv
<1>2. CASE \E n \in Bytes : ReadCopies(t, n)
  BY <1>2, ReadCopiesRingInv
<1>3. CASE WriteCopies(t)
  BY <1>3, WriteCopiesRingInv
<1>4. CASE \/ GivesUp(t) \/ StopStart(t) \/ ReadFinds(t) \/ WriteFinds(t)
           \/ PollTests(t) \/ PollLinks(t) \/ PollFills(t) \/ PollLooks(t)
           \/ PollSleeps(t) \/ PollReturns(t) \/ TimedWaits(t) \/ TimedReturns(t)
  <2>1. UNCHANGED ringVars
    BY <1>4 DEF GivesUp, StopStart, ReadFinds, WriteFinds, PollTests, PollLinks, PollFills, PollLooks,
                PollSleeps, PollReturns, TimedWaits, TimedReturns, ringVars
  <2> QED
    BY <2>1, RingInvUnchanged
<1>5. CASE Waits(t, "rdz", "rd", "r") \/ Waits(t, "wrz", "wr", "w")
  BY <1>5, RingInvUnchanged DEF Waits, ringVars
<1> QED
  BY <1>1, <1>2, <1>3, <1>4, <1>5 DEF Thinks

(* Every step keeps the rings.                                             *)
LEMMA NextRingInv == RingInv /\ [Next]_vars => RingInv'
<1> SUFFICES ASSUME RingInv, [Next]_vars PROVE RingInv'
  OBVIOUS
<1>1. CASE LineReceives
  BY <1>1, LineReceivesRingInv
<1>2. CASE Interrupt
  BY <1>2, InterruptRingInv
<1>3. CASE Pass
  BY <1>3, RingInvUnchanged DEF Pass, driverVars, ringVars
<1>4. CASE Tick /\ UNCHANGED <<ioVars, driverVars>>
  BY <1>4, RingInvUnchanged DEF driverVars, ringVars
<1>5. ASSUME NEW t \in Thread, Thinks(t) PROVE RingInv'
  BY <1>5, ThinksRingInv
<1>6. ASSUME NEW t \in Thread, KillWaiter(t) PROVE RingInv'
  BY <1>6, RingInvUnchanged DEF KillWaiter, driverVars, ringVars
<1>7. CASE UNCHANGED vars
  BY <1>7, RingInvUnchanged DEF vars, driverVars, ringVars
<1> QED
  BY <1>1, <1>2, <1>3, <1>4, <1>5, <1>6, <1>7 DEF Next

(* cbuffers.h and its users in the serial, keyboard and mouse drivers: at  *)
(* every position of the two indices a ring holds the bytes accepted and   *)
(* not yet taken, in order, whatever the sizes of the ring, of the FIFO    *)
(* and of the calls, and however interrupts and callers interleave.        *)
THEOREM RingsAreSound == Spec => []RingsSound
<1>1. Init => RingInv
  BY InitRingInv
<1>2. RingInv /\ [Next]_vars => RingInv'
  BY NextRingInv
<1>3. RingInv => RingsSound
  BY DEF RingInv, BytesTyped, RingsSound, RingsTypeOK
<1> QED
  BY <1>1, <1>2, <1>3, PTL DEF Spec

(***************************************************************************)
(* Walks along the links of a list.                                        *)
(***************************************************************************)

(* Induction without a predicate as a parameter, by counting: if c were    *)
(* not reached, successor would be an injection of T into T without 0.     *)
LEMMA UpTo ==
    ASSUME NEW c \in Nat, NEW T, T \subseteq 0 .. c, 0 \in T, \A n \in T : n < c => n + 1 \in T
    PROVE  c \in T
<1> SUFFICES ASSUME c \notin T PROVE FALSE
  OBVIOUS
<1>1. IsFiniteSet(T) /\ Cardinality(T) \in Nat
  <2>1. IsFiniteSet(0 .. c)
    BY FS_Interval
  <2> QED
    BY <2>1, FS_Subset, FS_CardinalityType
<1>2. IsFiniteSet(T \ {0}) /\ Cardinality(T \ {0}) = Cardinality(T) - 1
  BY <1>1, FS_RemoveElement
<1> DEFINE f == [n \in T |-> n + 1]
<1>3. f \in [T -> T \ {0}]
  <2>1. \A n \in T : n + 1 \in T \ {0}
    OBVIOUS
  <2> QED
    BY <2>1
<1>4. PICK x \in T, y \in T : x # y /\ f[x] = f[y]
  <2>1. Cardinality(T \ {0}) < Cardinality(T)
    BY <1>1, <1>2
  <2> HIDE DEF f
  <2> QED
    BY <1>1, <1>2, <1>3, <2>1, FS_PigeonHole
<1> QED
  BY <1>4

(* One more node of a walk.                                                *)
Further(f, n, s, j) ==
    LET m == IF s = <<>> THEN n ELSE f[s[Len(s)]]
    IN  IF Len(s) < j - 1 \/ m = Null THEN s ELSE Append(s, m)
Walks(f, n, k, w) == w = [j \in 0 .. k |-> IF j = 0 THEN <<>> ELSE Further(f, n, w[j - 1], j)]

(* The recursive function of Walk exists, for every bound of the walk.     *)
LEMMA WalkDefined ==
    ASSUME NEW f, NEW n, NEW c \in Nat
    PROVE  \E w : Walks(f, n, c, w) /\ Walk(f, n, c) = w[c]
<1> DEFINE T == {k \in 0 .. c : \E w : Walks(f, n, k, w)}
<1>1. 0 \in T
  <2> DEFINE v == [j \in 0 .. 0 |-> <<>>]
  <2>1. v = [j \in 0 .. 0 |-> IF j = 0 THEN <<>> ELSE Further(f, n, v[j - 1], j)]
    OBVIOUS
  <2>2. Walks(f, n, 0, v)
    BY <2>1 DEF Walks
  <2> HIDE DEF v
  <2> QED
    BY <2>2
<1>2. ASSUME NEW k \in T, k < c
      PROVE  k + 1 \in T
  <2>1. PICK w : Walks(f, n, k, w)
    OBVIOUS
  <2> DEFINE v == [j \in 0 .. k + 1 |-> IF j <= k THEN w[j] ELSE Further(f, n, w[k], j)]
  <2>2. \A j \in 0 .. k + 1 : v[j] = IF j = 0 THEN <<>> ELSE Further(f, n, v[j - 1], j)
    <3> TAKE j \in 0 .. k + 1
    <3>1. CASE j = 0
      BY <2>1, <3>1 DEF Walks
    <3>2. CASE j \in 1 .. k
      <4>1. j - 1 \in 0 .. k /\ j \in 0 .. k /\ v[j - 1] = w[j - 1] /\ v[j] = w[j]
        BY <3>2
      <4>2. w[j] = Further(f, n, w[j - 1], j)
        BY <2>1, <3>2, <4>1 DEF Walks
      <4> QED
        BY <3>2, <4>1, <4>2
    <3>3. CASE j = k + 1
      <4>1. v[j - 1] = w[j - 1] /\ v[j] = Further(f, n, w[k], j) /\ j # 0 /\ j - 1 = k
        BY <3>3
      <4> QED
        BY <4>1
    <3> QED
      BY <3>1, <3>2, <3>3
  <2>3. v = [j \in 0 .. k + 1 |-> IF j = 0 THEN <<>> ELSE Further(f, n, v[j - 1], j)]
    <3> DEFINE F(j) == IF j = 0 THEN <<>> ELSE Further(f, n, v[j - 1], j)
    <3>1. \A j \in 0 .. k + 1 : v[j] = F(j)
      BY <2>2
    <3>2. v = [j \in 0 .. k + 1 |-> v[j]]
      OBVIOUS
    <3> HIDE DEF v, F
    <3>3. v = [j \in 0 .. k + 1 |-> F(j)]
      BY <3>1, <3>2
    <3> QED
      BY <3>3 DEF F
  <2>4. Walks(f, n, k + 1, v)
    BY <2>3 DEF Walks
  <2>5. k + 1 \in 0 .. c
    BY <1>2
  <2> HIDE DEF v
  <2> QED
    BY <2>4, <2>5
<1>3. c \in T
  <2> HIDE DEF T
  <2>1. T \subseteq 0 .. c
    BY DEF T
  <2> QED
    BY <1>1, <1>2, <2>1, UpTo
<1>4. \E w : Walks(f, n, c, w)
  BY <1>3
<1>5. Walk(f, n, c) = (CHOOSE w : Walks(f, n, c, w))[c]
  BY DEF Walk, Walks, Further
<1> QED
  BY <1>4, <1>5

(***************************************************************************)
(* What lists and wait queues hold.                                        *)
(***************************************************************************)

(* The nodes s are those a walk from n along f finds.                      *)
Linked(f, n, s) ==
    /\ s = <<>> => n = Null
    /\ s # <<>> => s[1] = n /\ f[s[Len(s)]] = Null
    /\ \A i \in 1 .. Len(s) - 1 : f[s[i]] = s[i + 1]

(* The list l with the links k holds the nodes s, each once.               *)
Holds(l, k, s) ==
    /\ \A i, j \in 1 .. Len(s) : s[i] = s[j] => i = j
    /\ Linked(k.next, l.head, s)
    /\ s = <<>> => l.tail = Null
    /\ s # <<>> => s[Len(s)] = l.tail /\ k.prev[s[1]] = Null
    /\ \A i \in 1 .. Len(s) - 1 : k.prev[s[i + 1]] = s[i]
    /\ l.counter = Len(s)

Pointer == Item \cup {Null}
List == [head : Pointer, tail : Pointer, counter : Nat]
Links == [next : [Item -> Pointer], prev : [Item -> Pointer]]

(* The wait queues W with the links K hold the items S, no two the same.   *)
Chained(S, W, K) ==
    /\ S \in [WaitQueue -> Seq(Item)] /\ W \in [WaitQueue -> List] /\ K \in Links
    /\ \A q \in WaitQueue : Holds(W[q], K, S[q])
    /\ \A q, p \in WaitQueue : q # p => Range(S[q]) \cap Range(S[p]) = {}

Lists == [q \in WaitQueue |-> Listed(q)]
ChainInv ==
    /\ Chained(Lists, wq, links)
    /\ \A q \in WaitQueue : ListedItems(q) \subseteq used

(* A walk that is allowed enough nodes finds those the links lead to.      *)
LEMMA WalkFinds ==
    ASSUME NEW f, NEW n, NEW c \in Nat, NEW s \in Seq(Item), Len(s) <= c, Linked(f, n, s)
    PROVE  Walk(f, n, c) = s
<1>1. PICK w : Walks(f, n, c, w) /\ Walk(f, n, c) = w[c]
  BY WalkDefined
<1>2. \A j \in 0 .. c : w[j] = IF j = 0 THEN <<>> ELSE Further(f, n, w[j - 1], j)
  BY <1>1 DEF Walks
<1> DEFINE Upto(j) == IF j <= Len(s) THEN SubSeq(s, 1, j) ELSE s
           T == {j \in 0 .. c : w[j] = Upto(j)}
<1>3. Len(s) \in Nat /\ \A i \in 1 .. Len(s) : s[i] \in Item /\ s[i] # Null
  BY ElementOfSeq, LenProperties, IoAssumption
<1>4. \A j \in 0 .. Len(s) : /\ SubSeq(s, 1, j) \in Seq(Item) /\ Len(SubSeq(s, 1, j)) = j
                            /\ \A i \in 1 .. j : SubSeq(s, 1, j)[i] = s[i]
  BY <1>3, SubSeqProperties
<1>5. 0 \in T
  <2>1. w[0] = <<>> /\ 0 \in 0 .. Len(s) /\ 0 \in 0 .. c /\ Upto(0) = SubSeq(s, 1, 0)
    BY <1>2, <1>3
  <2>2. SubSeq(s, 1, 0) = <<>>
    BY <1>4, <2>1, EmptySeq
  <2> QED
    BY <2>1, <2>2
<1>6. ASSUME NEW j \in T, j < c
      PROVE  j + 1 \in T
  <2> DEFINE p == Upto(j)
             m == IF p = <<>> THEN n ELSE f[p[Len(p)]]
  <2>1. w[j] = p /\ j \in 0 .. c /\ j + 1 \in 0 .. c
    BY <1>6
  <2>2. w[j + 1] = IF Len(p) < j \/ m = Null THEN p ELSE Append(p, m)
    <3>1. w[j + 1] = Further(f, n, w[j], j + 1)
      BY <1>2, <2>1
    <3>2. j + 1 - 1 = j
      BY <2>1
    <3> HIDE DEF p
    <3> QED
      BY <2>1, <3>1, <3>2 DEF Further
  <2>3. CASE j > Len(s)
    <3>1. p = s /\ Len(p) < j /\ Upto(j + 1) = s
      BY <1>3, <2>1, <2>3
    <3> QED
      BY <2>1, <2>2, <3>1
  <2>4. CASE j = Len(s)
    <3>1. p = s
      BY <1>3, <1>4, <2>4, SeqEqual
    <3>2. m = Null
      BY <3>1 DEF Linked
    <3>3. Upto(j + 1) = s
      BY <1>3, <2>4
    <3> QED
      BY <2>1, <2>2, <3>1, <3>2, <3>3
  <2>5. CASE j < Len(s)
    <3>1. p \in Seq(Item) /\ Len(p) = j /\ \A i \in 1 .. j : p[i] = s[i]
      BY <1>3, <1>4, <2>1, <2>5
    <3>2. m = s[j + 1]
      <4>1. CASE j = 0
        BY <1>3, <2>5, <3>1, <4>1 DEF Linked
      <4>2. CASE j > 0
        <5>1. p # <<>> /\ p[Len(p)] = s[j] /\ j \in 1 .. Len(s) - 1
          BY <1>3, <2>1, <2>5, <3>1, <4>2
        <5> QED
          BY <5>1 DEF Linked
      <4> QED
        BY <2>1, <4>1, <4>2
    <3>3. m # Null /\ m \in Item
      <4>1. j + 1 \in 1 .. Len(s)
        BY <1>3, <2>1, <2>5
      <4> HIDE DEF m
      <4> QED
        BY <1>3, <3>2, <4>1
    <3>4. w[j + 1] = Append(p, m)
      <4>1. ~(Len(p) < j)
        BY <2>1, <3>1
      <4> HIDE DEF p, m
      <4> QED
        BY <2>2, <3>3, <4>1
    <3>5. Append(p, m) = SubSeq(s, 1, j + 1)
      <4> DEFINE a == Append(p, m)
                 b == SubSeq(s, 1, j + 1)
      <4>1. j + 1 \in 0 .. Len(s)
        BY <1>3, <2>1, <2>5
      <4>2. b \in Seq(Item) /\ Len(b) = j + 1 /\ \A i \in 1 .. j + 1 : b[i] = s[i]
        BY <1>4, <4>1
      <4> HIDE DEF p, m
      <4>3. a \in Seq(Item) /\ Len(a) = j + 1 /\ \A i \in 1 .. j + 1 : a[i] = IF i = j + 1 THEN m ELSE p[i]
        BY <2>1, <3>1, <3>3, AppendProperties
      <4> HIDE DEF a, b
      <4>4. \A i \in 1 .. j + 1 : a[i] = b[i]
        BY <2>1, <3>1, <3>2, <4>2, <4>3
      <4>5. a = b
        BY <2>1, <4>2, <4>3, <4>4, SeqEqual
      <4> QED
        BY <4>5 DEF a, b
    <3>6. Upto(j + 1) = SubSeq(s, 1, j + 1)
      BY <1>3, <2>1, <2>5
    <3>7. w[j + 1] = Upto(j + 1)
      BY <3>4, <3>5, <3>6
    <3> QED
      BY <2>1, <3>7
  <2> QED
    BY <1>3, <2>1, <2>3, <2>4, <2>5
<1>7. c \in T
  <2> HIDE DEF T
  <2>1. T \subseteq 0 .. c
    BY DEF T
  <2> QED
    BY <1>5, <1>6, <2>1, UpTo
<1>8. Upto(c) = s
  <2>1. CASE c = Len(s)
    BY <1>3, <1>4, <2>1, SeqEqual
  <2> QED
    BY <1>3, <2>1
<1> QED
  BY <1>1, <1>7, <1>8

(* A set of naturals that is not empty has a least element.                *)
LEMMA HasLeast ==
    ASSUME NEW c \in Nat, NEW S, S \subseteq 0 .. c, S # {}
    PROVE  \E m \in S : \A k \in S : m <= k
<1> SUFFICES ASSUME ~\E m \in S : \A k \in S : m <= k PROVE FALSE
  OBVIOUS
<1> DEFINE T == {n \in 0 .. c : \A k \in S : n <= k}
<1>1. 0 \in T
  OBVIOUS
<1>2. ASSUME NEW n \in T, n < c PROVE n + 1 \in T
  <2>1. n \notin S
    OBVIOUS
  <2>2. \A k \in S : n <= k /\ k # n /\ k \in 0 .. c
    BY <2>1
  <2> QED
    BY <1>2, <2>2
<1>3. c \in T
  <2>1. T \subseteq 0 .. c
    OBVIOUS
  <2> HIDE DEF T
  <2> QED
    BY <1>1, <1>2, <2>1, UpTo
<1>4. PICK m \in S : TRUE
  OBVIOUS
<1>5. \A k \in S : m <= k
  BY <1>3
<1> QED
  BY <1>5

(* chunks_pool_malloc takes an item that is free.                          *)
LEMMA FirstFreeIs ==
    ASSUME NEW U, Item \ U # {}
    PROVE  FirstFree(U) \in Item \ U
<1>1. MaxItems \in Nat /\ Item \ U \subseteq 0 .. MaxItems
  BY IoAssumption DEF Item
<1>2. \E i \in Item \ U : \A j \in Item \ U : i <= j
  BY <1>1, HasLeast
<1> QED
  BY <1>2 DEF FirstFree

(* Where n items can be had, there is one, and a second one besides it.    *)
LEMMA AllocIs ==
    ASSUME NEW n \in Nat, CanAlloc(n)
    PROVE  /\ n >= 1 => Item \ used # {}
           /\ \A i : n >= 2 => Item \ (used \cup {i}) # {}
<1>1. IsFiniteSet(Item)
  BY IoAssumption, FS_Interval DEF Item
<1>2. IsFiniteSet(Item \ used) /\ Cardinality(Item \ used) \in Nat
  BY <1>1, FS_Subset, FS_CardinalityType
<1>3. n >= 1 => Item \ used # {}
  BY <1>2, FS_EmptySet DEF CanAlloc
<1>4. ASSUME NEW i, n >= 2 PROVE Item \ (used \cup {i}) # {}
  <2> DEFINE A == Item \ used
  <2>1. IsFiniteSet(A) /\ Cardinality(A) \in Nat /\ Cardinality(A) >= 2
    BY <1>2, <1>4 DEF CanAlloc
  <2> HIDE DEF A
  <2>2. IsFiniteSet(A \ {i}) /\ Cardinality(A \ {i}) = IF i \in A THEN Cardinality(A) - 1 ELSE Cardinality(A)
    BY <2>1, FS_RemoveElement
  <2>3. A \ {i} # {}
    BY <2>1, <2>2, FS_EmptySet
  <2> QED
    BY <2>3 DEF A
<1> QED
  BY <1>3, <1>4

(* The null pointer is not an item.                                        *)
LEMMA PointerIs == Null \notin Item /\ Item \subseteq Pointer /\ Null \in Pointer /\ MaxItems \in Nat
BY IoAssumption DEF Pointer

(* The ends of a list and the neighbours of a node.                        *)
LEMMA HoldsIs ==
    ASSUME NEW l, NEW k, NEW s \in Seq(Item), Holds(l, k, s)
    PROVE  /\ Len(s) \in Nat /\ \A i \in 1 .. Len(s) : s[i] \in Item /\ s[i] # Null
           /\ s = <<>> <=> Len(s) = 0
           /\ l.counter = Len(s)
           /\ l.head = IF Len(s) = 0 THEN Null ELSE s[1]
           /\ l.tail = IF Len(s) = 0 THEN Null ELSE s[Len(s)]
           /\ \A i, j \in 1 .. Len(s) : s[i] = s[j] => i = j
           /\ \A i \in 1 .. Len(s) : k.next[s[i]] = IF i = Len(s) THEN Null ELSE s[i + 1]
           /\ \A i \in 1 .. Len(s) : k.prev[s[i]] = IF i = 1 THEN Null ELSE s[i - 1]
<1>1. Len(s) \in Nat /\ \A i \in 1 .. Len(s) : s[i] \in Item /\ s[i] # Null
  BY ElementOfSeq, LenProperties, PointerIs
<1>2. s = <<>> <=> Len(s) = 0
  BY EmptySeq, <1>1
<1>3. /\ l.head = IF Len(s) = 0 THEN Null ELSE s[1]
      /\ l.tail = IF Len(s) = 0 THEN Null ELSE s[Len(s)]
      /\ l.counter = Len(s)
  BY <1>2 DEF Holds, Linked
<1>4. ASSUME NEW i \in 1 .. Len(s)
      PROVE  k.next[s[i]] = IF i = Len(s) THEN Null ELSE s[i + 1]
  <2>1. CASE i = Len(s)
    BY <1>1, <1>2, <2>1 DEF Holds, Linked
  <2>2. CASE i # Len(s)
    <3>1. i \in 1 .. Len(s) - 1
      BY <1>1, <2>2
    <3> QED
      BY <2>2, <3>1 DEF Holds, Linked
  <2> QED
    BY <2>1, <2>2
<1>5. ASSUME NEW i \in 1 .. Len(s)
      PROVE  k.prev[s[i]] = IF i = 1 THEN Null ELSE s[i - 1]
  <2>1. CASE i = 1
    BY <1>1, <1>2, <2>1 DEF Holds
  <2>2. CASE i # 1
    <3>1. i - 1 \in 1 .. Len(s) - 1 /\ (i - 1) + 1 = i
      BY <1>1, <2>2
    <3>2. k.prev[s[(i - 1) + 1]] = s[i - 1]
      BY <3>1 DEF Holds
    <3> QED
      BY <2>2, <3>1, <3>2
  <2> QED
    BY <2>1, <2>2
<1> QED
  BY <1>1, <1>2, <1>3, <1>4, <1>5 DEF Holds

(* And conversely.                                                         *)
LEMMA HoldsFrom ==
    ASSUME NEW l, NEW k, NEW s \in Seq(Item),
           l.counter = Len(s),
           l.head = IF Len(s) = 0 THEN Null ELSE s[1],
           l.tail = IF Len(s) = 0 THEN Null ELSE s[Len(s)],
           \A i, j \in 1 .. Len(s) : s[i] = s[j] => i = j,
           \A i \in 1 .. Len(s) : k.next[s[i]] = IF i = Len(s) THEN Null ELSE s[i + 1],
           \A i \in 1 .. Len(s) : k.prev[s[i]] = IF i = 1 THEN Null ELSE s[i - 1]
    PROVE  Holds(l, k, s)
<1>1. Len(s) \in Nat /\ (s = <<>> <=> Len(s) = 0)
  BY EmptySeq, LenProperties
<1>2. \A i \in 1 .. Len(s) - 1 : k.next[s[i]] = s[i + 1]
  <2> TAKE i \in 1 .. Len(s) - 1
  <2>1. i \in 1 .. Len(s) /\ i # Len(s)
    BY <1>1
  <2> QED
    BY <2>1
<1>3. \A i \in 1 .. Len(s) - 1 : k.prev[s[i + 1]] = s[i]
  <2> TAKE i \in 1 .. Len(s) - 1
  <2>1. i + 1 \in 1 .. Len(s) /\ i + 1 # 1 /\ (i + 1) - 1 = i
    BY <1>1
  <2> QED
    BY <2>1
<1>4. s # <<>> => 1 \in 1 .. Len(s) /\ Len(s) \in 1 .. Len(s) /\ Len(s) # 0
  BY <1>1
<1>5. s # <<>> => k.next[s[Len(s)]] = Null /\ k.prev[s[1]] = Null
  BY <1>4
<1> QED
  BY <1>1, <1>2, <1>3, <1>4, <1>5 DEF Holds, Linked

(* A list does not depend on the links of other nodes.                     *)
LEMMA HoldsOther ==
    ASSUME NEW l, NEW k, NEW m, NEW s \in Seq(Item), Holds(l, k, s),
           \A i \in 1 .. Len(s) : m.next[s[i]] = k.next[s[i]] /\ m.prev[s[i]] = k.prev[s[i]]
    PROVE  Holds(l, m, s)
<1>1. /\ l.counter = Len(s)
      /\ l.head = IF Len(s) = 0 THEN Null ELSE s[1]
      /\ l.tail = IF Len(s) = 0 THEN Null ELSE s[Len(s)]
      /\ \A i, j \in 1 .. Len(s) : s[i] = s[j] => i = j
      /\ \A i \in 1 .. Len(s) : m.next[s[i]] = IF i = Len(s) THEN Null ELSE s[i + 1]
      /\ \A i \in 1 .. Len(s) : m.prev[s[i]] = IF i = 1 THEN Null ELSE s[i - 1]
  BY HoldsIs
<1> QED
  BY <1>1, HoldsFrom

(* A list without a node twice is not longer than the pool.                *)
LEMMA HoldsSize ==
    ASSUME NEW l, NEW k, NEW s \in Seq(Item), Holds(l, k, s)
    PROVE  Len(s) \in 0 .. MaxItems
<1>1. Len(s) \in Nat /\ MaxItems \in Nat
  BY LenProperties, PointerIs
<1> SUFFICES ASSUME Len(s) > MaxItems PROVE FALSE
  BY <1>1
<1>2. /\ IsFiniteSet(1 .. Len(s)) /\ Cardinality(1 .. Len(s)) = Len(s)
      /\ IsFiniteSet(Item) /\ Cardinality(Item) = MaxItems
  <2>1. ASSUME NEW n \in Nat PROVE IsFiniteSet(1 .. n) /\ Cardinality(1 .. n) = n
    BY FS_Interval
  <2> QED
    BY <1>1, <2>1 DEF Item
<1>3. s \in [1 .. Len(s) -> Item]
  BY LenProperties
<1>4. \E i, j \in 1 .. Len(s) : i # j /\ s[i] = s[j]
  BY <1>1, <1>2, <1>3, FS_PigeonHole
<1> QED
  BY <1>4 DEF Holds

(* The range of a sequence is what is at its indices.                      *)
LEMMA RangeSeq ==
    ASSUME NEW s \in Seq(Item)
    PROVE  /\ \A d : d \in Range(s) <=> \E i \in 1 .. Len(s) : s[i] = d
           /\ Range(s) \subseteq Item
<1>1. DOMAIN s = 1 .. Len(s)
  BY LenProperties
<1> QED
  BY <1>1, ElementOfSeq DEF Range

(* list_append of a node that is in no list.                               *)
LEMMA AppendLinks ==
    ASSUME NEW l \in List, NEW k \in Links, NEW s \in Seq(Item), Holds(l, k, s), NEW d \in Item
    PROVE  LET r == list_append(l, k, d)
           IN  /\ r.l \in List /\ r.k \in Links
               /\ r.l.head = IF Len(s) = 0 THEN d ELSE l.head
               /\ r.l.tail = d /\ r.l.counter = Len(s) + 1
               /\ \A i \in Item : r.k.next[i] = IF Len(s) # 0 /\ i = s[Len(s)] THEN d
                                                ELSE IF i = d THEN Null ELSE k.next[i]
               /\ \A i \in Item : r.k.prev[i] = IF i = d THEN IF Len(s) = 0 THEN Null ELSE s[Len(s)]
                                                ELSE k.prev[i]
<1> DEFINE r == list_append(l, k, d)
<1>1. /\ Len(s) \in Nat /\ l.counter = Len(s) /\ l.tail = IF Len(s) = 0 THEN Null ELSE s[Len(s)]
      /\ Len(s) # 0 => s[Len(s)] \in Item
  BY HoldsIs
<1>2. k.next \in [Item -> Pointer] /\ k.prev \in [Item -> Pointer]
  BY DEF Links
<1>3. CASE Len(s) = 0
  <2>1. r = [l |-> [head |-> d, tail |-> d, counter |-> 1],
             k |-> [next |-> [k.next EXCEPT ![d] = Null], prev |-> [k.prev EXCEPT ![d] = Null]]]
    BY <1>1, <1>3, PointerIs DEF list_append, list_add, First, Set
  <2> HIDE DEF r
  <2>2. r.l \in List /\ r.k \in Links
    BY <1>2, <2>1, PointerIs DEF List, Links
  <2>3. \A i \in Item : r.k.next[i] = (IF i = d THEN Null ELSE k.next[i])
                        /\ r.k.prev[i] = (IF i = d THEN Null ELSE k.prev[i])
    BY <1>2, <2>1
  <2> QED
    BY <1>3, <2>1, <2>2, <2>3 DEF r
<1>4. CASE Len(s) # 0
  <2> DEFINE p == s[Len(s)]
  <2>1. p \in Item /\ p # Null /\ l.tail = p /\ d # Null
    BY <1>1, <1>4, PointerIs
  <2>2. r = [l |-> [head |-> l.head, tail |-> d, counter |-> l.counter + 1],
             k |-> [next |-> [[k.next EXCEPT ![d] = Null] EXCEPT ![p] = d],
                    prev |-> [k.prev EXCEPT ![d] = p]]]
    <3> HIDE DEF p
    <3> QED
      BY <1>1, <1>4, <2>1 DEF list_append, list_add, Set
  <2> HIDE DEF r, p
  <2>3. l.head \in Pointer /\ l.counter \in Nat
    BY DEF List
  <2>4. r.l \in List /\ r.k \in Links
    BY <1>2, <2>1, <2>2, <2>3, PointerIs DEF List, Links
  <2>5. \A i \in Item : /\ r.k.next[i] = (IF i = p THEN d ELSE IF i = d THEN Null ELSE k.next[i])
                        /\ r.k.prev[i] = (IF i = d THEN p ELSE k.prev[i])
    BY <1>2, <2>1, <2>2
  <2>6. r.l.head = l.head /\ r.l.tail = d /\ r.l.counter = Len(s) + 1
    BY <1>1, <2>2
  <2>7. \A i \in Item : /\ r.k.next[i] = (IF i = s[Len(s)] THEN d ELSE IF i = d THEN Null ELSE k.next[i])
                        /\ r.k.prev[i] = (IF i = d THEN s[Len(s)] ELSE k.prev[i])
    BY <2>5 DEF p
  <2> QED
    BY <1>4, <2>4, <2>6, <2>7 DEF r
<1> QED
  BY <1>1, <1>3, <1>4

(* list_append: the list holds one node more, at its end.                  *)
LEMMA AppendHolds ==
    ASSUME NEW l \in List, NEW k \in Links, NEW s \in Seq(Item), Holds(l, k, s),
           NEW d \in Item, d \notin Range(s)
    PROVE  LET r == list_append(l, k, d) IN Holds(r.l, r.k, Append(s, d))
<1> DEFINE r == list_append(l, k, d)
           v == Append(s, d)
           n == Len(s)
<1>1. /\ n \in Nat /\ \A i \in 1 .. n : s[i] \in Item /\ s[i] # d
      /\ l.head = IF n = 0 THEN Null ELSE s[1]
      /\ \A i, j \in 1 .. n : s[i] = s[j] => i = j
      /\ \A i \in 1 .. n : k.next[s[i]] = IF i = n THEN Null ELSE s[i + 1]
      /\ \A i \in 1 .. n : k.prev[s[i]] = IF i = 1 THEN Null ELSE s[i - 1]
  BY HoldsIs, RangeSeq
<1>2. v \in Seq(Item) /\ Len(v) = n + 1 /\ v[n + 1] = d /\ \A i \in 1 .. n : v[i] = s[i]
  BY AppendProperties, LenProperties
<1>3. /\ r.l.head = IF n = 0 THEN d ELSE l.head
      /\ r.l.tail = d /\ r.l.counter = n + 1
      /\ \A i \in Item : r.k.next[i] = IF n # 0 /\ i = s[n] THEN d ELSE IF i = d THEN Null ELSE k.next[i]
      /\ \A i \in Item : r.k.prev[i] = IF i = d THEN IF n = 0 THEN Null ELSE s[n] ELSE k.prev[i]
  BY AppendLinks
<1> HIDE DEF r, v, n
<1>4. \A i \in 1 .. n + 1 : i = n + 1 \/ i \in 1 .. n
  BY <1>1
<1>5. n # 0 => n \in 1 .. n /\ s[n] # d
  BY <1>1
<1>6. \A i, j \in 1 .. Len(v) : v[i] = v[j] => i = j
  BY <1>1, <1>2, <1>4
<1>7. ASSUME NEW i \in 1 .. Len(v)
      PROVE  r.k.next[v[i]] = IF i = Len(v) THEN Null ELSE v[i + 1]
  <2>1. CASE i = n + 1
    <3>1. r.k.next[d] = Null
      BY <1>3, <1>5
    <3> QED
      BY <1>2, <2>1, <3>1
  <2>2. CASE i \in 1 .. n
    <3>1. v[i] = s[i] /\ s[i] \in Item /\ s[i] # d /\ i # n + 1 /\ n # 0
      BY <1>1, <1>2, <2>2
    <3>2. CASE i = n
      BY <1>2, <1>3, <3>1, <3>2
    <3>3. CASE i # n
      <4>1. i + 1 \in 1 .. n /\ v[i + 1] = s[i + 1] /\ n \in 1 .. n
        BY <1>1, <1>2, <2>2, <3>3
      <4>2. s[i] # s[n]
        BY <1>1, <2>2, <3>3, <4>1
      <4>3. r.k.next[s[i]] = k.next[s[i]]
        BY <1>3, <3>1, <4>2
      <4>4. k.next[s[i]] = s[i + 1]
        BY <1>1, <2>2, <3>3
      <4> QED
        BY <1>2, <3>1, <4>1, <4>3, <4>4
    <3> QED
      BY <3>2, <3>3
  <2> QED
    BY <1>2, <1>4, <2>1, <2>2
<1>8. ASSUME NEW i \in 1 .. Len(v)
      PROVE  r.k.prev[v[i]] = IF i = 1 THEN Null ELSE v[i - 1]
  <2>1. CASE i = n + 1
    <3>1. r.k.prev[d] = (IF n = 0 THEN Null ELSE s[n]) /\ v[i] = d
      BY <1>2, <1>3, <2>1
    <3>2. CASE n = 0
      <4>1. i = 1
        BY <2>1, <3>2
      <4> QED
        BY <3>1, <3>2, <4>1
    <3>3. CASE n # 0
      <4>1. i # 1 /\ i - 1 = n /\ v[n] = s[n]
        BY <1>1, <1>2, <1>5, <2>1, <3>3
      <4> QED
        BY <3>1, <3>3, <4>1
    <3> QED
      BY <3>2, <3>3
  <2>2. CASE i \in 1 .. n
    <3>1. v[i] = s[i] /\ s[i] \in Item /\ s[i] # d
      BY <1>1, <1>2, <2>2
    <3>2. i # 1 => i - 1 \in 1 .. n /\ v[i - 1] = s[i - 1]
      BY <1>1, <1>2, <2>2
    <3>3. k.prev[s[i]] = IF i = 1 THEN Null ELSE s[i - 1]
      BY <1>1, <2>2
    <3>4. r.k.prev[s[i]] = k.prev[s[i]]
      BY <1>3, <3>1
    <3> QED
      BY <3>1, <3>2, <3>3, <3>4
  <2> QED
    BY <1>2, <1>4, <2>1, <2>2
<1>9. r.l.head = v[1] /\ r.l.tail = v[Len(v)] /\ r.l.counter = Len(v) /\ Len(v) # 0
  <2>1. n # 0 => 1 \in 1 .. n /\ v[1] = s[1]
    BY <1>1, <1>2
  <2> QED
    BY <1>1, <1>2, <1>3, <2>1
<1>10. Holds(r.l, r.k, v)
  BY <1>2, <1>6, <1>7, <1>8, <1>9, HoldsFrom
<1> QED
  BY <1>10 DEF r, v

(* list_remove of the node at place j.                                     *)
Without(s, j) == [i \in 1 .. Len(s) - 1 |-> IF i < j THEN s[i] ELSE s[i + 1]]
Before(s, j) == IF j = 1 THEN Null ELSE s[j - 1]
After(s, j) == IF j = Len(s) THEN Null ELSE s[j + 1]

(* Two links written one after the other.                                  *)
Rewritten(h, f, a, b, d) ==
    /\ h \in [Item -> Pointer]
    /\ \A i \in Item : i # d => h[i] = IF i = a THEN b ELSE f[i]

(* The second of them, of d, is the null pointer.                          *)
LEMMA SetTwice ==
    ASSUME NEW f \in [Item -> Pointer], NEW a \in Pointer, NEW b \in Pointer, NEW d \in Item
    PROVE  Rewritten(Set(Set(f, a, b), d, Null), f, a, b, d)
<1> DEFINE g == Set(f, a, b)
<1>1. g \in [Item -> Pointer] /\ \A i \in Item : g[i] = IF i = a THEN b ELSE f[i]
  BY PointerIs DEF Set, Pointer
<1> HIDE DEF g
<1>2. Set(g, d, Null) = [g EXCEPT ![d] = Null]
  BY PointerIs DEF Set
<1>3. Set(g, d, Null) \in [Item -> Pointer] /\ \A i \in Item : i # d => Set(g, d, Null)[i] = g[i]
  BY <1>1, <1>2, PointerIs
<1>4. Rewritten(Set(g, d, Null), f, a, b, d)
  BY <1>1, <1>3 DEF Rewritten
<1> QED
  BY <1>4 DEF g

(* list_remove writes the links of the node and of its neighbours.         *)
LEMMA RemoveLinks ==
    ASSUME NEW l \in List, NEW k \in Links, NEW s \in Seq(Item), Holds(l, k, s), NEW j \in 1 .. Len(s)
    PROVE  LET r == list_remove(l, k, s[j])
           IN  /\ r.l \in List /\ r.k \in Links
               /\ r.l.head = IF j = 1 THEN After(s, j) ELSE l.head
               /\ r.l.tail = IF j = Len(s) THEN Before(s, j) ELSE l.tail
               /\ r.l.counter = Len(s) - 1
               /\ \A i \in Item : i # s[j] =>
                    /\ r.k.next[i] = IF i = Before(s, j) THEN After(s, j) ELSE k.next[i]
                    /\ r.k.prev[i] = IF i = After(s, j) THEN Before(s, j) ELSE k.prev[i]
<1> DEFINE d == s[j]
           p == Before(s, j)
           n == After(s, j)
           r == list_remove(l, k, d)
<1>1. /\ Len(s) \in Nat /\ l.counter = Len(s) /\ l.head = s[1] /\ l.tail = s[Len(s)]
      /\ k.next[d] = n /\ k.prev[d] = p
      /\ l.head = d <=> j = 1
      /\ l.tail = d <=> j = Len(s)
  <2>1. /\ Len(s) \in Nat /\ Len(s) # 0 /\ l.counter = Len(s)
        /\ 1 \in 1 .. Len(s) /\ Len(s) \in 1 .. Len(s)
    BY HoldsIs
  <2>2. l.head = s[1] /\ l.tail = s[Len(s)]
    BY <2>1, HoldsIs
  <2>3. k.next[d] = n /\ k.prev[d] = p
    BY HoldsIs DEF After, Before
  <2>4. (s[1] = d <=> j = 1) /\ (s[Len(s)] = d <=> j = Len(s))
    BY <2>1, HoldsIs
  <2> QED
    BY <2>1, <2>2, <2>3, <2>4
<1>2. d \in Item /\ d # Null /\ p \in Pointer /\ n \in Pointer /\ (j # Len(s) => n \in Item) /\ (j # 1 => p \in Item)
  <2>1. \A i \in 1 .. Len(s) : s[i] \in Item
    BY HoldsIs
  <2>2. (j # 1 => j - 1 \in 1 .. Len(s)) /\ (j # Len(s) => j + 1 \in 1 .. Len(s))
    BY <1>1
  <2> QED
    BY <2>1, <2>2, PointerIs DEF After, Before
<1>3. k.next \in [Item -> Pointer] /\ k.prev \in [Item -> Pointer] /\ l.head \in Pointer /\ l.tail \in Pointer
  BY DEF Links, List
<1> HIDE DEF d, p, n
<1>4. r = [l |-> [head    |-> IF j = 1 THEN n ELSE l.head,
                  tail    |-> IF j = Len(s) THEN p ELSE l.tail,
                  counter |-> Len(s) - 1],
           k |-> [next |-> Set(Set(k.next, p, n), d, Null),
                  prev |-> Set(Set(k.prev, n, p), d, Null)]]
  BY <1>1 DEF list_remove
<1> HIDE DEF r
<1>5. /\ Set(Set(k.next, p, n), d, Null) \in [Item -> Pointer]
      /\ \A i \in Item : i # d => Set(Set(k.next, p, n), d, Null)[i] = IF i = p THEN n ELSE k.next[i]
      /\ Set(Set(k.prev, n, p), d, Null) \in [Item -> Pointer]
      /\ \A i \in Item : i # d => Set(Set(k.prev, n, p), d, Null)[i] = IF i = n THEN p ELSE k.prev[i]
  <2> DEFINE f == k.next
             g == k.prev
  <2>1. f \in [Item -> Pointer] /\ g \in [Item -> Pointer]
    BY <1>3
  <2> HIDE DEF f, g
  <2>2. Rewritten(Set(Set(f, p, n), d, Null), f, p, n, d)
    BY <1>2, <2>1, SetTwice
  <2>3. Rewritten(Set(Set(g, n, p), d, Null), g, n, p, d)
    BY <1>2, <2>1, SetTwice
  <2> QED
    BY <2>2, <2>3 DEF f, g, Rewritten
<1>6. r.l \in List
  BY <1>1, <1>2, <1>3, <1>4, PointerIs DEF List
<1>7. r.k \in Links
  BY <1>2, <1>3, <1>4, <1>5 DEF Links
<1>8. \A i \in Item : i # d =>
        /\ r.k.next[i] = IF i = p THEN n ELSE k.next[i]
        /\ r.k.prev[i] = IF i = n THEN p ELSE k.prev[i]
  <2>1. r.k.next = Set(Set(k.next, p, n), d, Null) /\ r.k.prev = Set(Set(k.prev, n, p), d, Null)
    BY <1>4
  <2> QED
    BY <1>5, <2>1
<1> QED
  BY <1>4, <1>6, <1>7, <1>8 DEF r, d, p, n

(* list_remove: the list holds the other nodes, in order.                  *)
LEMMA RemoveHolds ==
    ASSUME NEW l \in List, NEW k \in Links, NEW s \in Seq(Item), Holds(l, k, s), NEW j \in 1 .. Len(s)
    PROVE  LET r == list_remove(l, k, s[j])
           IN  Holds(r.l, r.k, Without(s, j))
<1> DEFINE r == list_remove(l, k, s[j])
           v == Without(s, j)
           n == Len(s)
<1>1. /\ n \in Nat /\ n # 0 /\ \A i \in 1 .. n : s[i] \in Item /\ s[i] # Null
      /\ \A i, m \in 1 .. n : s[i] = s[m] => i = m
      /\ \A i \in 1 .. n : k.next[s[i]] = IF i = n THEN Null ELSE s[i + 1]
      /\ \A i \in 1 .. n : k.prev[s[i]] = IF i = 1 THEN Null ELSE s[i - 1]
      /\ l.head = s[1] /\ l.tail = s[n]
  <2>1. n \in Nat /\ n # 0
    BY HoldsIs
  <2> QED
    BY <2>1, HoldsIs
<1>2. v \in Seq(Item) /\ Len(v) = n - 1 /\ \A i \in 1 .. n - 1 : v[i] = IF i < j THEN s[i] ELSE s[i + 1]
  <2>1. \A i \in 1 .. n - 1 : (IF i < j THEN s[i] ELSE s[i + 1]) \in Item
    <3> TAKE i \in 1 .. n - 1
    <3>1. i \in 1 .. n /\ i + 1 \in 1 .. n
      BY <1>1
    <3> QED
      BY <1>1, <3>1
  <2>2. n - 1 \in Nat
    BY <1>1
  <2> QED
    BY <2>1, <2>2 DEF Without
<1>3. /\ r.l.head = IF j = 1 THEN After(s, j) ELSE l.head
      /\ r.l.tail = IF j = n THEN Before(s, j) ELSE l.tail
      /\ r.l.counter = n - 1
      /\ \A i \in Item : i # s[j] =>
            /\ r.k.next[i] = IF i = Before(s, j) THEN After(s, j) ELSE k.next[i]
            /\ r.k.prev[i] = IF i = After(s, j) THEN Before(s, j) ELSE k.prev[i]
  BY RemoveLinks
<1> HIDE DEF r, v, n
<1> DEFINE At(i) == IF i < j THEN i ELSE i + 1
<1>4. j \in 1 .. n
  BY DEF n
<1>5. \A i \in 1 .. n - 1 : At(i) \in 1 .. n /\ At(i) # j /\ v[i] = s[At(i)] /\ s[At(i)] \in Item /\ s[At(i)] # s[j]
  <2> TAKE i \in 1 .. n - 1
  <2>1. At(i) \in 1 .. n /\ At(i) # j
    BY <1>1, <1>4
  <2>2. v[i] = s[At(i)]
    BY <1>2
  <2> QED
    BY <1>1, <1>4, <2>1, <2>2
<1>6. \A i, m \in 1 .. Len(v) : v[i] = v[m] => i = m
  <2> SUFFICES ASSUME NEW i \in 1 .. n - 1, NEW m \in 1 .. n - 1, v[i] = v[m] PROVE i = m
    BY <1>2
  <2>1. At(i) = At(m)
    <3>1. s[At(i)] = s[At(m)] /\ At(i) \in 1 .. n /\ At(m) \in 1 .. n
      BY <1>5
    <3> HIDE DEF At
    <3> QED
      BY <1>1, <3>1
  <2> QED
    BY <1>1, <1>4, <2>1
<1>7. ASSUME NEW i \in 1 .. n - 1
      PROVE  r.k.next[v[i]] = IF i = n - 1 THEN Null ELSE v[i + 1]
  <2>1. r.k.next[v[i]] = IF s[At(i)] = Before(s, j) THEN After(s, j) ELSE k.next[s[At(i)]]
    BY <1>3, <1>5
  <2>2. i # n - 1 => i + 1 \in 1 .. n - 1 /\ v[i + 1] = s[At(i + 1)]
    BY <1>1, <1>5
  <2>3. CASE At(i) = j - 1
    <3>1. j # 1 /\ Before(s, j) = s[At(i)]
      BY <1>1, <1>5, <2>3 DEF Before
    <3>2. r.k.next[v[i]] = IF j = n THEN Null ELSE s[j + 1]
      BY <2>1, <3>1 DEF After, n
    <3>3. i = j - 1 /\ At(i + 1) = j + 1
      BY <1>1, <1>4, <2>3
    <3>4. i = n - 1 <=> j = n
      BY <1>1, <1>4, <3>3
    <3> QED
      BY <2>2, <3>2, <3>3, <3>4
  <2>4. CASE At(i) # j - 1
    <3>1. s[At(i)] # Before(s, j)
      <4>1. CASE j = 1
        BY <1>1, <1>5, <4>1 DEF Before
      <4>2. CASE j # 1
        <5>1. j - 1 \in 1 .. n
          BY <1>1, <1>4, <4>2
        <5> QED
          BY <1>1, <1>5, <2>4, <4>2, <5>1 DEF Before
      <4> QED
        BY <4>1, <4>2
    <3>2. r.k.next[v[i]] = IF At(i) = n THEN Null ELSE s[At(i) + 1]
      <4>1. r.k.next[v[i]] = k.next[s[At(i)]]
        BY <2>1, <3>1
      <4>2. At(i) \in 1 .. n
        BY <1>5
      <4> HIDE DEF At
      <4>3. k.next[s[At(i)]] = IF At(i) = n THEN Null ELSE s[At(i) + 1]
        BY <1>1, <4>2
      <4> QED
        BY <4>1, <4>3
    <3>3. At(i + 1) = At(i) + 1 /\ (At(i) = n <=> i = n - 1)
      BY <1>1, <1>4, <2>4
    <3> HIDE DEF At
    <3>4. CASE i = n - 1
      BY <3>2, <3>3, <3>4
    <3>5. CASE i # n - 1
      BY <2>2, <3>2, <3>3, <3>5
    <3> QED
      BY <3>4, <3>5
  <2> QED
    BY <2>3, <2>4
<1>8. ASSUME NEW i \in 1 .. n - 1
      PROVE  r.k.prev[v[i]] = IF i = 1 THEN Null ELSE v[i - 1]
  <2>1. r.k.prev[v[i]] = IF s[At(i)] = After(s, j) THEN Before(s, j) ELSE k.prev[s[At(i)]]
    BY <1>3, <1>5
  <2>2. i # 1 => i - 1 \in 1 .. n - 1 /\ v[i - 1] = s[At(i - 1)]
    BY <1>1, <1>5
  <2>3. CASE At(i) = j + 1
    <3>1. j # n /\ After(s, j) = s[At(i)]
      BY <1>1, <1>4, <1>5, <2>3 DEF After, n
    <3>2. r.k.prev[v[i]] = IF j = 1 THEN Null ELSE s[j - 1]
      BY <2>1, <3>1 DEF Before
    <3>3. i = j /\ At(i - 1) = j - 1
      BY <1>1, <1>4, <2>3
    <3> QED
      BY <2>2, <3>2, <3>3
  <2>4. CASE At(i) # j + 1
    <3>1. s[At(i)] # After(s, j)
      <4>1. CASE j = n
        BY <1>1, <1>5, <4>1 DEF After, n
      <4>2. CASE j # n
        <5>1. j + 1 \in 1 .. n
          BY <1>1, <1>4, <4>2
        <5> QED
          BY <1>1, <1>5, <2>4, <4>2, <5>1 DEF After, n
      <4> QED
        BY <4>1, <4>2
    <3>2. r.k.prev[v[i]] = IF At(i) = 1 THEN Null ELSE s[At(i) - 1]
      BY <1>1, <1>5, <2>1, <3>1
    <3>3. (i # 1 => At(i - 1) = At(i) - 1) /\ (At(i) = 1 <=> i = 1)
      BY <1>1, <1>4, <2>4
    <3> QED
      BY <2>2, <3>2, <3>3
  <2> QED
    BY <2>3, <2>4
<1>9. /\ r.l.counter = Len(v)
      /\ r.l.head = IF Len(v) = 0 THEN Null ELSE v[1]
      /\ r.l.tail = IF Len(v) = 0 THEN Null ELSE v[Len(v)]
  <2>1. CASE n = 1
    BY <1>1, <1>2, <1>3, <1>4, <2>1 DEF After, Before, n
  <2>2. CASE n # 1
    <3>1. 1 \in 1 .. n - 1 /\ n - 1 \in 1 .. n - 1 /\ Len(v) # 0
      BY <1>1, <1>2, <2>2
    <3>2. v[1] = s[At(1)] /\ v[n - 1] = s[At(n - 1)]
      BY <1>5, <3>1
    <3>3. r.l.head = v[1]
      <4>1. CASE j = 1
        <5>1. At(1) = 2 /\ After(s, j) = s[2]
          BY <1>1, <2>2, <4>1 DEF After, n
        <5> QED
          BY <1>3, <3>2, <4>1, <5>1
      <4>2. CASE j # 1
        <5>1. At(1) = 1
          BY <1>4, <4>2
        <5> QED
          BY <1>1, <1>3, <3>2, <4>2, <5>1
      <4> QED
        BY <4>1, <4>2
    <3>4. r.l.tail = v[n - 1]
      BY <1>1, <1>3, <1>4, <2>2, <3>2 DEF Before
    <3> QED
      BY <1>2, <1>3, <3>1, <3>3, <3>4
  <2> QED
    BY <2>1, <2>2
<1>10. Holds(r.l, r.k, v)
  BY <1>2, <1>6, <1>7, <1>8, <1>9, HoldsFrom
<1> QED
  BY <1>10 DEF r, v

(* What a queue holds is what a walk finds.                                *)
LEMMA ChainedListed ==
    ASSUME NEW S, NEW W, NEW K, Chained(S, W, K), NEW q \in WaitQueue
    PROVE  Walk(K.next, W[q].head, MaxItems) = S[q]
<1>1. S[q] \in Seq(Item) /\ Holds(W[q], K, S[q])
  BY DEF Chained
<1>2. Len(S[q]) <= MaxItems /\ MaxItems \in Nat
  BY <1>1, HoldsSize, PointerIs
<1>3. Linked(K.next, W[q].head, S[q])
  BY <1>1 DEF Holds
<1> QED
  BY <1>1, <1>2, <1>3, WalkFinds

(* The queues after a step on one of them: it holds v, and the links of    *)
(* the nodes of the others are what they were.                             *)
LEMMA ChainedStep ==
    ASSUME NEW S, NEW W, NEW K, Chained(S, W, K), NEW q \in WaitQueue, NEW v \in Seq(Item),
           NEW l \in List, NEW m \in Links, Holds(l, m, v),
           \A p \in WaitQueue : p # q => Range(v) \cap Range(S[p]) = {},
           \A p \in WaitQueue : p # q =>
                \A i \in Range(S[p]) : m.next[i] = K.next[i] /\ m.prev[i] = K.prev[i]
    PROVE  Chained([S EXCEPT ![q] = v], [W EXCEPT ![q] = l], m)
<1> DEFINE T == [S EXCEPT ![q] = v]
           V == [W EXCEPT ![q] = l]
<1>1. S \in [WaitQueue -> Seq(Item)] /\ W \in [WaitQueue -> List]
  BY DEF Chained
<1>2. /\ T \in [WaitQueue -> Seq(Item)] /\ T[q] = v /\ \A p \in WaitQueue : p # q => T[p] = S[p]
      /\ V \in [WaitQueue -> List] /\ V[q] = l /\ \A p \in WaitQueue : p # q => V[p] = W[p]
  BY <1>1
<1> HIDE DEF T, V
<1>3. ASSUME NEW p \in WaitQueue, p # q PROVE Holds(W[p], m, S[p])
  <2>1. S[p] \in Seq(Item) /\ Holds(W[p], K, S[p])
    BY <1>1 DEF Chained
  <2>2. \A i \in 1 .. Len(S[p]) : S[p][i] \in Range(S[p])
    BY <2>1, RangeSeq
  <2>3. \A i \in 1 .. Len(S[p]) : m.next[S[p][i]] = K.next[S[p][i]] /\ m.prev[S[p][i]] = K.prev[S[p][i]]
    BY <1>3, <2>2
  <2> QED
    BY <2>1, <2>3, HoldsOther
<1>4. \A p \in WaitQueue : Holds(V[p], m, T[p])
  BY <1>2, <1>3
<1>5. \A p, o \in WaitQueue : p # o => Range(T[p]) \cap Range(T[o]) = {}
  <2>1. \A p, o \in WaitQueue : p # o => Range(S[p]) \cap Range(S[o]) = {}
    BY DEF Chained
  <2> QED
    BY <1>2, <2>1
<1>6. Chained(T, V, m)
  BY <1>2, <1>4, <1>5 DEF Chained
<1> QED
  BY <1>6 DEF T, V

(* What a sequence holds when one more is appended.                        *)
LEMMA AppendRange ==
    ASSUME NEW s \in Seq(Item), NEW d \in Item
    PROVE  Append(s, d) \in Seq(Item) /\ Range(Append(s, d)) = Range(s) \cup {d}
<1> DEFINE v == Append(s, d)
<1>1. /\ v \in Seq(Item) /\ Len(v) = Len(s) + 1 /\ v[Len(s) + 1] = d
      /\ \A i \in 1 .. Len(s) : v[i] = s[i] /\ i \in 1 .. Len(v)
      /\ Len(s) + 1 \in 1 .. Len(v) /\ Len(s) \in Nat
  BY AppendProperties, LenProperties
<1> HIDE DEF v
<1>2. ASSUME NEW e \in Range(v) PROVE e = d \/ e \in Range(s)
  <2>1. PICK i \in 1 .. Len(v) : v[i] = e
    BY <1>1, <1>2, RangeSeq
  <2>2. i = Len(s) + 1 \/ i \in 1 .. Len(s)
    BY <1>1
  <2> QED
    BY <1>1, <2>1, <2>2, RangeSeq
<1>3. d \in Range(v)
  BY <1>1, RangeSeq
<1>4. ASSUME NEW e \in Range(s) PROVE e \in Range(v)
  <2>1. PICK i \in 1 .. Len(s) : s[i] = e
    BY <1>4, RangeSeq
  <2> QED
    BY <1>1, <2>1, RangeSeq
<1>5. Range(v) = Range(s) \cup {d}
  BY <1>2, <1>3, <1>4
<1> QED
  BY <1>1, <1>5 DEF v

(* list_append on one queue leaves the others as they were.                *)
LEMMA ChainedAppend ==
    ASSUME NEW S, NEW W, NEW K, Chained(S, W, K), NEW q \in WaitQueue, NEW d \in Item,
           \A p \in WaitQueue : d \notin Range(S[p])
    PROVE  LET r == list_append(W[q], K, d)
           IN  Chained([S EXCEPT ![q] = Append(S[q], d)], [W EXCEPT ![q] = r.l], r.k)
<1> DEFINE r == list_append(W[q], K, d)
           s == S[q]
           v == Append(s, d)
<1>1. s \in Seq(Item) /\ W[q] \in List /\ K \in Links /\ Holds(W[q], K, s) /\ d \notin Range(s)
  BY DEF Chained
<1>2. Holds(r.l, r.k, v)
  BY <1>1, AppendHolds
<1>3. /\ r.l \in List /\ r.k \in Links
      /\ \A i \in Item : r.k.next[i] = IF Len(s) # 0 /\ i = s[Len(s)] THEN d
                                       ELSE IF i = d THEN Null ELSE K.next[i]
      /\ \A i \in Item : r.k.prev[i] = IF i = d THEN IF Len(s) = 0 THEN Null ELSE s[Len(s)]
                                       ELSE K.prev[i]
  BY <1>1, AppendLinks
<1>4. /\ v \in Seq(Item) /\ Range(v) \subseteq Range(s) \cup {d}
      /\ Len(s) # 0 => s[Len(s)] \in Range(s)
  <2>1. Len(s) \in Nat /\ (Len(s) # 0 => Len(s) \in 1 .. Len(s))
    BY <1>1, LenProperties
  <2> HIDE DEF s
  <2> QED
    BY <1>1, <2>1, AppendRange, RangeSeq
<1>5. ASSUME NEW p \in WaitQueue, p # q
      PROVE  /\ Range(v) \cap Range(S[p]) = {}
             /\ \A i \in Range(S[p]) : r.k.next[i] = K.next[i] /\ r.k.prev[i] = K.prev[i]
  <2>1. /\ Range(s) \cap Range(S[p]) = {} /\ d \notin Range(S[p])
        /\ Range(S[p]) \subseteq Item
    BY <1>5, RangeSeq DEF Chained
  <2> HIDE DEF r, s, v
  <2>2. Range(v) \cap Range(S[p]) = {}
    BY <1>4, <2>1
  <2>3. ASSUME NEW i \in Range(S[p])
        PROVE  r.k.next[i] = K.next[i] /\ r.k.prev[i] = K.prev[i]
    <3>1. i \in Item /\ i # d /\ ~(Len(s) # 0 /\ i = s[Len(s)])
      BY <1>4, <2>1, <2>3
    <3>2. r.k.next[i] = K.next[i]
      BY <1>3, <3>1
    <3>3. r.k.prev[i] = K.prev[i]
      BY <1>3, <3>1
    <3> QED
      BY <3>2, <3>3
  <2> QED
    BY <2>2, <2>3
<1>6. Chained([S EXCEPT ![q] = v], [W EXCEPT ![q] = r.l], r.k)
  <2> HIDE DEF r, s, v
  <2> DEFINE l == r.l
             m == r.k
  <2>1. /\ l \in List /\ m \in Links /\ v \in Seq(Item) /\ Holds(l, m, v)
        /\ \A p \in WaitQueue : p # q => Range(v) \cap Range(S[p]) = {}
    BY <1>2, <1>3, <1>4, <1>5
  <2>2. \A p \in WaitQueue : p # q =>
            \A i \in Range(S[p]) : m.next[i] = K.next[i] /\ m.prev[i] = K.prev[i]
    BY <1>5
  <2> HIDE DEF l, m
  <2>3. Chained([S EXCEPT ![q] = v], [W EXCEPT ![q] = l], m)
    BY <2>1, <2>2, ChainedStep
  <2> QED
    BY <2>3 DEF l, m
<1> QED
  BY <1>6

(* What a sequence holds without its j-th.                                 *)
LEMMA WithoutIs ==
    ASSUME NEW s \in Seq(Item), NEW j \in 1 .. Len(s)
    PROVE  /\ Without(s, j) \in Seq(Item)
           /\ Range(Without(s, j)) \subseteq Range(s)
           /\ \A e \in Range(s) : e = s[j] \/ e \in Range(Without(s, j))
<1> DEFINE v == Without(s, j)
           n == Len(s)
<1>1. n \in Nat /\ n - 1 \in Nat /\ \A i \in 1 .. n : s[i] \in Item
  BY LenProperties, ElementOfSeq
<1>2. v \in Seq(Item) /\ Len(v) = n - 1 /\ \A i \in 1 .. n - 1 : v[i] = IF i < j THEN s[i] ELSE s[i + 1]
  <2>1. \A i \in 1 .. n - 1 : (IF i < j THEN s[i] ELSE s[i + 1]) \in Item
    <3> TAKE i \in 1 .. n - 1
    <3>1. i \in 1 .. n /\ i + 1 \in 1 .. n
      BY <1>1
    <3> QED
      BY <1>1, <3>1
  <2> QED
    BY <1>1, <2>1 DEF Without
<1> HIDE DEF v
<1>3. ASSUME NEW e \in Range(v) PROVE e \in Range(s)
  <2>1. PICK i \in 1 .. n - 1 : v[i] = e
    BY <1>2, <1>3, RangeSeq
  <2>2. i \in 1 .. n /\ i + 1 \in 1 .. n
    BY <1>1
  <2> QED
    BY <1>2, <2>1, <2>2, RangeSeq
<1>4. ASSUME NEW e \in Range(s), e # s[j] PROVE e \in Range(v)
  <2>1. PICK i \in 1 .. n : s[i] = e
    BY <1>4, RangeSeq
  <2>2. i # j
    BY <1>4, <2>1
  <2>3. CASE i < j
    <3>1. i \in 1 .. n - 1 /\ v[i] = s[i]
      BY <1>1, <1>2, <2>3
    <3> QED
      BY <1>2, <2>1, <3>1, RangeSeq
  <2>4. CASE j < i
    <3>1. i - 1 \in 1 .. n - 1 /\ ~(i - 1 < j) /\ (i - 1) + 1 = i
      BY <1>1, <2>4
    <3>2. v[i - 1] = s[i]
      BY <1>2, <3>1
    <3> QED
      BY <1>2, <2>1, <3>1, <3>2, RangeSeq
  <2> QED
    BY <1>1, <2>2, <2>3, <2>4
<1> QED
  BY <1>2, <1>3, <1>4 DEF v

(* A node that is there once is gone.                                      *)
LEMMA WithoutNode ==
    ASSUME NEW s \in Seq(Item), NEW j \in 1 .. Len(s),
           \A i, m \in 1 .. Len(s) : s[i] = s[m] => i = m
    PROVE  s[j] \notin Range(Without(s, j))
<1> DEFINE v == Without(s, j)
           n == Len(s)
<1>1. n \in Nat /\ n - 1 \in Nat
  BY LenProperties
<1>2. v \in Seq(Item)
  BY WithoutIs
<1>3. Len(v) = n - 1 /\ \A i \in 1 .. n - 1 : v[i] = IF i < j THEN s[i] ELSE s[i + 1]
  BY <1>1, <1>2 DEF Without
<1> HIDE DEF v
<1>4. ASSUME NEW i \in 1 .. n - 1, v[i] = s[j] PROVE FALSE
  <2>1. i \in 1 .. n /\ i + 1 \in 1 .. n
    BY <1>1
  <2>2. CASE i < j
    BY <1>3, <1>4, <2>1, <2>2
  <2>3. CASE ~(i < j)
    <3>1. s[i + 1] = s[j]
      BY <1>3, <1>4, <2>3
    <3>2. i + 1 = j
      BY <2>1, <3>1
    <3> QED
      BY <2>3, <3>2
  <2> QED
    BY <2>2, <2>3
<1> QED
  BY <1>2, <1>3, <1>4, RangeSeq DEF v

(* list_remove on one queue leaves the others as they were.                *)
LEMMA ChainedRemove ==
    ASSUME NEW S, NEW W, NEW K, Chained(S, W, K), NEW q \in WaitQueue, NEW j \in 1 .. Len(S[q])
    PROVE  LET r == list_remove(W[q], K, S[q][j])
           IN  Chained([S EXCEPT ![q] = Without(S[q], j)], [W EXCEPT ![q] = r.l], r.k)
<1> DEFINE s == S[q]
           r == list_remove(W[q], K, s[j])
           v == Without(s, j)
<1>1. s \in Seq(Item) /\ W[q] \in List /\ K \in Links /\ Holds(W[q], K, s)
  BY DEF Chained
<1>2. Holds(r.l, r.k, v)
  BY <1>1, RemoveHolds
<1>3. /\ r.l \in List /\ r.k \in Links
      /\ \A i \in Item : i # s[j] =>
            /\ r.k.next[i] = IF i = Before(s, j) THEN After(s, j) ELSE K.next[i]
            /\ r.k.prev[i] = IF i = After(s, j) THEN Before(s, j) ELSE K.prev[i]
  BY <1>1, RemoveLinks
<1>4. v \in Seq(Item) /\ Range(v) \subseteq Range(s)
  BY <1>1, WithoutIs
<1>5. /\ s[j] \in Range(s)
      /\ Before(s, j) \in Range(s) \cup {Null} /\ After(s, j) \in Range(s) \cup {Null}
  <2>1. Len(s) \in Nat /\ j \in 1 .. Len(s)
    BY <1>1, LenProperties
  <2>2. (j # 1 => j - 1 \in 1 .. Len(s)) /\ (j # Len(s) => j + 1 \in 1 .. Len(s))
    BY <2>1
  <2> HIDE DEF s
  <2> QED
    BY <1>1, <2>1, <2>2, RangeSeq DEF Before, After
<1>6. ASSUME NEW p \in WaitQueue, p # q
      PROVE  /\ Range(v) \cap Range(S[p]) = {}
             /\ \A i \in Range(S[p]) : r.k.next[i] = K.next[i] /\ r.k.prev[i] = K.prev[i]
  <2>1. /\ Range(s) \cap Range(S[p]) = {} /\ Range(S[p]) \subseteq Item
    BY <1>6, RangeSeq DEF Chained
  <2> HIDE DEF r, s, v
  <2>2. Range(v) \cap Range(S[p]) = {}
    BY <1>4, <2>1
  <2>3. ASSUME NEW i \in Range(S[p])
        PROVE  r.k.next[i] = K.next[i] /\ r.k.prev[i] = K.prev[i]
    <3>1. i \in Item /\ i # s[j] /\ i # Before(s, j) /\ i # After(s, j)
      BY <1>5, <2>1, <2>3, PointerIs
    <3>2. r.k.next[i] = K.next[i]
      BY <1>3, <3>1
    <3>3. r.k.prev[i] = K.prev[i]
      BY <1>3, <3>1
    <3> QED
      BY <3>2, <3>3
  <2> QED
    BY <2>2, <2>3
<1>7. Chained([S EXCEPT ![q] = v], [W EXCEPT ![q] = r.l], r.k)
  <2> HIDE DEF r, s, v
  <2> DEFINE l == r.l
             m == r.k
  <2>1. /\ l \in List /\ m \in Links /\ v \in Seq(Item) /\ Holds(l, m, v)
        /\ \A p \in WaitQueue : p # q => Range(v) \cap Range(S[p]) = {}
    BY <1>2, <1>3, <1>4, <1>6
  <2>2. \A p \in WaitQueue : p # q =>
            \A i \in Range(S[p]) : m.next[i] = K.next[i] /\ m.prev[i] = K.prev[i]
    BY <1>6
  <2> HIDE DEF l, m
  <2>3. Chained([S EXCEPT ![q] = v], [W EXCEPT ![q] = l], m)
    BY <2>1, <2>2, ChainedStep
  <2> QED
    BY <2>3 DEF l, m
<1> QED
  BY <1>7

(***************************************************************************)
(* What the calls of io_waits.c do to the queues.                          *)
(***************************************************************************)

(* What the invariant says of a queue: the walk along its links, its       *)
(* counter and what thread_io_resume visits agree.                         *)
LEMMA ListedIs ==
    ASSUME ChainInv, NEW q \in WaitQueue
    PROVE  /\ Lists[q] = Listed(q) /\ Listed(q) \in Seq(Item) /\ Holds(wq[q], links, Listed(q))
           /\ wq[q].counter = Len(Listed(q)) /\ wq[q] \in List
           /\ ListedItems(q) = Range(Listed(q)) /\ ListedItems(q) \subseteq used
           /\ Visited(q) = ListedItems(q)
           /\ Listed(q) = <<>> <=> ListedItems(q) = {}
<1>1. Lists[q] = Listed(q)
  BY DEF Lists
<1>2. Listed(q) \in Seq(Item) /\ Holds(wq[q], links, Listed(q)) /\ wq[q] \in List
  BY <1>1 DEF ChainInv, Chained
<1>3. wq[q].counter = Len(Listed(q))
  BY <1>2 DEF Holds
<1>4. DOMAIN Listed(q) = 1 .. Len(Listed(q))
  BY <1>2, LenProperties
<1>5. ListedItems(q) = Range(Listed(q)) /\ Visited(q) = ListedItems(q)
  BY <1>3, <1>4 DEF ListedItems, Visited, Range
<1>6. Listed(q) = <<>> <=> Range(Listed(q)) = {}
  <2>1. Len(Listed(q)) \in Nat /\ (Listed(q) = <<>> <=> Len(Listed(q)) = 0)
    BY <1>2, EmptySeq, LenProperties
  <2>2. Len(Listed(q)) # 0 <=> \E i \in 1 .. Len(Listed(q)) : TRUE
    BY <2>1
  <2> QED
    BY <1>2, <2>1, <2>2, RangeSeq
<1> QED
  BY <1>1, <1>2, <1>3, <1>5, <1>6 DEF ChainInv

(* The queues after a step, when it is known what they hold.               *)
LEMMA ChainInvFrom ==
    ASSUME NEW S, Chained(S, wq', links'), \A q \in WaitQueue : Range(S[q]) \subseteq used'
    PROVE  ChainInv' /\ \A q \in WaitQueue : Listed(q)' = S[q] /\ ListedItems(q)' = Range(S[q])
<1>1. \A q \in WaitQueue : Listed(q)' = S[q]
  BY ChainedListed DEF Listed
<1>2. S = [q \in WaitQueue |-> Listed(q)']
  BY <1>1 DEF Chained
<1>3. Chained(Lists', wq', links')
  BY <1>2 DEF Lists
<1>4. \A q \in WaitQueue : ListedItems(q)' = Range(S[q])
  BY <1>1 DEF ListedItems, Range
<1> QED
  BY <1>1, <1>3, <1>4 DEF ChainInv

(* A step that leaves the queues alone.                                    *)
LEMMA ChainInvKept ==
    ASSUME ChainInv, UNCHANGED <<wq, links>>, used \subseteq used'
    PROVE  ChainInv' /\ \A q \in WaitQueue : Listed(q)' = Listed(q) /\ ListedItems(q)' = ListedItems(q)
<1>1. \A q \in WaitQueue : Listed(q)' = Listed(q)
  BY DEF Listed
<1>2. \A q \in WaitQueue : ListedItems(q)' = ListedItems(q)
  BY <1>1 DEF ListedItems
<1>3. Lists' = Lists
  BY <1>1 DEF Lists
<1> QED
  BY <1>1, <1>2, <1>3 DEF ChainInv

(* thread_io_wait puts one more item at the end of the queue.              *)
LEMMA WaitEffect ==
    ASSUME ChainInv, used \subseteq Item, NEW q \in WaitQueue, NEW m, thread_io_wait(q, m)
    PROVE  /\ ChainInv'
           /\ \E i \in Item \ used :
                /\ used' = used \cup {i}
                /\ item' = [item EXCEPT ![i] = [poll |-> FALSE, tid |-> current]]
                /\ ListedItems(q)' = ListedItems(q) \cup {i}
           /\ \A p \in WaitQueue : p # q => ListedItems(p)' = ListedItems(p)
<1> DEFINE i == FirstFree(used)
           r == list_append(wq[q], links, i)
           S == [Lists EXCEPT ![q] = Append(Lists[q], i)]
<1>1. /\ i \in Item \ used
      /\ used' = used \cup {i} /\ item' = [item EXCEPT ![i] = [poll |-> FALSE, tid |-> current]]
      /\ wq' = [wq EXCEPT ![q] = r.l] /\ links' = r.k
  <2>1. Item \ used # {}
    BY AllocIs DEF thread_io_wait
  <2> QED
    BY <2>1, FirstFreeIs DEF thread_io_wait
<1> HIDE DEF i
<1>2. \A p \in WaitQueue : Lists[p] = Listed(p) /\ Lists[p] \in Seq(Item) /\ Range(Lists[p]) = ListedItems(p)
                           /\ i \notin Range(Lists[p])
  BY <1>1, ListedIs
<1>3. Chained(S, wq', links')
  <2>1. Chained(Lists, wq, links)
    BY DEF ChainInv
  <2> QED
    BY <1>1, <1>2, <2>1, ChainedAppend
<1>4. /\ Range(S[q]) = ListedItems(q) \cup {i}
      /\ \A p \in WaitQueue : p # q => Range(S[p]) = ListedItems(p)
  <2>1. Lists \in [WaitQueue -> Seq(Item)]
    BY DEF ChainInv, Chained
  <2>2. S[q] = Append(Lists[q], i) /\ \A p \in WaitQueue : p # q => S[p] = Lists[p]
    BY <2>1
  <2>3. Range(Append(Lists[q], i)) = Range(Lists[q]) \cup {i}
    BY <1>1, <1>2, AppendRange
  <2> QED
    BY <1>2, <2>2, <2>3
<1>5. \A p \in WaitQueue : Range(S[p]) \subseteq used'
  BY <1>1, <1>4, ListedIs
<1> HIDE DEF S
<1>6. ChainInv' /\ \A p \in WaitQueue : ListedItems(p)' = Range(S[p])
  BY <1>3, <1>5, ChainInvFrom
<1> QED
  BY <1>1, <1>4, <1>6

(* thread_io_resume empties the queue, and marks the threads of its items. *)
Sleepers(q) == {item[i].tid : i \in {v \in ListedItems(q) : ~item[v].poll}} \cap Thread
Pollers(q) == {item[i].tid : i \in {v \in ListedItems(q) : item[v].poll}}

(* The queue is empty, its items free and its threads marked.              *)
LEMMA ResumeEffect ==
    ASSUME ChainInv, used \subseteq Item, NEW q \in WaitQueue, thread_io_resume(q)
    PROVE  /\ ChainInv'
           /\ ListedItems(q)' = {}
           /\ \A p \in WaitQueue : p # q => ListedItems(p)' = ListedItems(p)
           /\ used' = used \ ListedItems(q)
           /\ bits' = bits \cup Sleepers(q)
           /\ pbits' = pbits \cup (Pollers(q) \ signalled)
           /\ signalled' = signalled \cup Pollers(q)
           /\ UNCHANGED <<item, table, stage>>
<1> DEFINE none == [head |-> Null, tail |-> Null, counter |-> 0]
           S == [Lists EXCEPT ![q] = <<>>]
<1>1. /\ Listed(q) \in Seq(Item) /\ Visited(q) = ListedItems(q) /\ wq[q].counter = Len(Listed(q))
      /\ Len(Listed(q)) \in Nat
  BY ListedIs, LenProperties
<1>2. SubSeq(Listed(q), wq[q].counter + 1, Len(Listed(q))) = <<>>
  BY <1>1
<1>3. /\ wq' = [wq EXCEPT ![q] = none]
      /\ links' = [next |-> [i \in Item |-> IF i \in ListedItems(q) THEN Null ELSE links.next[i]],
                   prev |-> [i \in Item |-> IF i \in ListedItems(q) \cup {Null} THEN Null ELSE links.prev[i]]]
  BY <1>1, <1>2 DEF thread_io_resume
<1>4. none \in List /\ Holds(none, links', <<>>) /\ <<>> \in Seq(Item) /\ Range(<<>>) = {}
  BY PointerIs DEF List, Holds, Linked, Range
<1>5. links' \in Links
  <2>1. links.next \in [Item -> Pointer] /\ links.prev \in [Item -> Pointer]
    BY DEF ChainInv, Chained, Links
  <2> QED
    BY <1>3, <2>1, PointerIs DEF Links
<1>6. \A p \in WaitQueue : p # q =>
            \A i \in Range(Lists[p]) : links'.next[i] = links.next[i] /\ links'.prev[i] = links.prev[i]
  <2> SUFFICES ASSUME NEW p \in WaitQueue, p # q, NEW i \in Range(Lists[p])
               PROVE  links'.next[i] = links.next[i] /\ links'.prev[i] = links.prev[i]
    OBVIOUS
  <2>1. i \in Item /\ i # Null /\ i \notin Range(Lists[q])
    BY RangeSeq, PointerIs DEF ChainInv, Chained
  <2>2. Range(Lists[q]) = ListedItems(q)
    BY ListedIs
  <2> QED
    BY <1>3, <2>1, <2>2
<1>7. Chained(S, wq', links')
  <2>1. Chained(Lists, wq, links)
    BY DEF ChainInv
  <2> HIDE DEF none
  <2>2. Chained(S, [wq EXCEPT ![q] = none], links')
    BY <1>4, <1>5, <1>6, <2>1, ChainedStep
  <2> QED
    BY <1>3, <2>2
<1>8. Range(S[q]) = {} /\ \A p \in WaitQueue : p # q => Range(S[p]) = ListedItems(p)
  <2>1. Lists \in [WaitQueue -> Seq(Item)]
    BY DEF ChainInv, Chained
  <2>2. S[q] = <<>> /\ \A p \in WaitQueue : p # q => S[p] = Lists[p]
    BY <2>1
  <2> HIDE DEF S
  <2> QED
    BY <1>4, <2>2, ListedIs
<1>9. used' = used \ ListedItems(q) /\ UNCHANGED <<item, table, stage>>
  BY <1>1 DEF thread_io_resume
<1>10. \A p \in WaitQueue : Range(S[p]) \subseteq used'
  <2> SUFFICES ASSUME NEW p \in WaitQueue, p # q PROVE Range(S[p]) \subseteq used'
    BY <1>8
  <2>1. Range(Lists[p]) \cap Range(Lists[q]) = {}
    BY DEF ChainInv, Chained
  <2>2. ListedItems(p) = Range(Lists[p]) /\ ListedItems(q) = Range(Lists[q]) /\ ListedItems(p) \subseteq used
    BY ListedIs
  <2> HIDE DEF S
  <2> QED
    BY <1>8, <1>9, <2>1, <2>2
<1> HIDE DEF S
<1>11. ChainInv' /\ \A p \in WaitQueue : ListedItems(p)' = Range(S[p])
  BY <1>7, <1>10, ChainInvFrom
<1>12. /\ bits' = bits \cup Sleepers(q)
       /\ pbits' = pbits \cup (Pollers(q) \ signalled)
       /\ signalled' = signalled \cup (Pollers(q) \ signalled)
  BY <1>1 DEF thread_io_resume, poll_wakeup, Sleepers, Pollers
<1> QED
  BY <1>8, <1>9, <1>11, <1>12

(* cancel_io_waits takes out items of the thread, one from a queue that    *)
(* has any.                                                                *)
LEMMA CancelEffect ==
    ASSUME ~Aliases, ChainInv, used \subseteq Item, NEW t, cancel_io_waits(t)
    PROVE  /\ ChainInv'
           /\ \A q \in WaitQueue :
                /\ ListedItems(q)' \subseteq ListedItems(q)
                /\ \A i \in ListedItems(q) :
                        item[i] # [poll |-> FALSE, tid |-> t] => i \in ListedItems(q)'
           /\ used' \subseteq used
           /\ bits' = bits \ {t}
           /\ UNCHANGED <<item, pbits, table, signalled, stage>>
<1>0. PICK P \in Alike : CancelSeeming(t, P) /\ P = {}
  BY DEF cancel_io_waits, Alike
<1>s. \A i : Seems(i, t, P) <=> item[i] = [poll |-> FALSE, tid |-> t]
  BY <1>0 DEF Seems
<1> DEFINE own(q) == {j \in DOMAIN Listed(q) : Seems(Listed(q)[j], t, P)}
           C == {q \in WaitQueue : own(q) # {}}
           at(q) == CHOOSE j \in own(q) : \A k \in own(q) : j <= k
           hit == [q \in C |-> Listed(q)[at(q)]]
           gone == {hit[q] : q \in C}
<1>1. /\ wq' = [q \in WaitQueue |-> IF q \in C THEN list_remove(wq[q], links, hit[q]).l ELSE wq[q]]
      /\ \/ C = {} /\ UNCHANGED links
         \/ \E q \in C : gone = {hit[q]} /\ links' = list_remove(wq[q], links, hit[q]).k
      /\ used' = used \ gone /\ bits' = bits \ {t}
      /\ UNCHANGED <<item, pbits, table, signalled, stage>>
  BY <1>0 DEF CancelSeeming
<1>2. ASSUME NEW q \in C
      PROVE  /\ at(q) \in 1 .. Len(Listed(q)) /\ hit[q] = Listed(q)[at(q)]
             /\ item[hit[q]] = [poll |-> FALSE, tid |-> t] /\ hit[q] \in ListedItems(q)
  <2>1. q \in WaitQueue /\ own(q) # {}
    OBVIOUS
  <2>2. Listed(q) \in Seq(Item) /\ DOMAIN Listed(q) = 1 .. Len(Listed(q)) /\ Len(Listed(q)) \in Nat
    BY <2>1, ListedIs, LenProperties
  <2>3. own(q) \subseteq 0 .. Len(Listed(q))
    BY <2>2
  <2>4. \E j \in own(q) : \A k \in own(q) : j <= k
    <3> HIDE DEF own
    <3> QED
      BY <2>1, <2>2, <2>3, HasLeast
  <2>5. at(q) \in own(q)
    <3> HIDE DEF own
    <3> QED
      BY <2>4
  <2>6. hit[q] = Listed(q)[at(q)]
    OBVIOUS
  <2>7. at(q) \in 1 .. Len(Listed(q)) /\ item[Listed(q)[at(q)]] = [poll |-> FALSE, tid |-> t]
    <3>1. at(q) \in 1 .. Len(Listed(q)) /\ Seems(Listed(q)[at(q)], t, P)
      <4> HIDE DEF at
      <4> QED
        BY <2>2, <2>5
    <3> QED
      BY <1>s, <3>1
  <2>8. hit[q] \in ListedItems(q)
    <3> HIDE DEF at, hit
    <3> QED
      BY <2>2, <2>6, <2>7 DEF ListedItems
  <2> QED
    BY <2>6, <2>7, <2>8
<1>3. Chained(Lists, wq, links) /\ wq \in [WaitQueue -> List] /\ Lists \in [WaitQueue -> Seq(Item)]
  BY DEF ChainInv, Chained
<1> HIDE DEF C, at, hit, gone
<1>4. CASE C = {}
  <2>1. wq' = wq /\ links' = links /\ used' = used
    BY <1>1, <1>3, <1>4 DEF gone
  <2> QED
    BY <1>1, <2>1, ChainInvKept
<1>5. CASE C # {}
  <2>1. PICK q \in C : gone = {hit[q]} /\ links' = list_remove(wq[q], links, hit[q]).k
    BY <1>1, <1>5
  <2> DEFINE r == list_remove(wq[q], links, hit[q])
             S == [Lists EXCEPT ![q] = Without(Lists[q], at(q))]
  <2>2. q \in WaitQueue /\ Lists[q] = Listed(q) /\ at(q) \in 1 .. Len(Lists[q]) /\ hit[q] = Lists[q][at(q)]
    BY <1>2, <2>1, ListedIs DEF C
  <2>3. ASSUME NEW p \in C, p # q PROVE FALSE
    <3>1. hit[p] = hit[q]
      BY <2>1 DEF gone
    <3>2. hit[p] \in Range(Lists[p]) /\ hit[q] \in Range(Lists[q]) /\ p \in WaitQueue
      <4>1. p \in WaitQueue /\ q \in WaitQueue
        BY DEF C
      <4>2. hit[p] \in ListedItems(p) /\ hit[q] \in ListedItems(q)
        BY <1>2
      <4>3. ListedItems(p) = Range(Lists[p]) /\ ListedItems(q) = Range(Lists[q])
        BY <4>1, ListedIs
      <4> QED
        BY <4>1, <4>2, <4>3
    <3>3. Range(Lists[p]) \cap Range(Lists[q]) = {}
      BY <1>3, <2>2, <2>3, <3>2 DEF Chained
    <3> QED
      BY <3>1, <3>2, <3>3
  <2>4. wq' = [wq EXCEPT ![q] = r.l] /\ links' = r.k
    BY <1>1, <1>3, <2>1, <2>2, <2>3
  <2>5. Chained(S, wq', links')
    BY <1>3, <2>2, <2>4, ChainedRemove
  <2>6. /\ Range(S[q]) \subseteq ListedItems(q) 
        /\ \A i \in ListedItems(q) : i = hit[q] \/ i \in Range(S[q])
        /\ \A p \in WaitQueue : p # q => Range(S[p]) = ListedItems(p)
    <3>1. S[q] = Without(Lists[q], at(q)) /\ \A p \in WaitQueue : p # q => S[p] = Lists[p]
      BY <1>3, <2>2
    <3>2. Lists[q] \in Seq(Item) /\ \A p \in WaitQueue : ListedItems(p) = Range(Lists[p])
      BY <1>3, <2>2, ListedIs
    <3>3. /\ Range(Without(Lists[q], at(q))) \subseteq Range(Lists[q])
          /\ \A e \in Range(Lists[q]) : e = hit[q] \/ e \in Range(Without(Lists[q], at(q)))
      BY <2>2, <3>2, WithoutIs
    <3> HIDE DEF S
    <3> QED
      BY <2>2, <3>1, <3>2, <3>3
  <2>7. hit[q] \notin Range(S[q])
    <3>1. Lists[q] \in Seq(Item) /\ \A i, j \in 1 .. Len(Lists[q]) : Lists[q][i] = Lists[q][j] => i = j
      BY <1>3, <2>2 DEF Chained, Holds
    <3>2. S[q] = Without(Lists[q], at(q))
      BY <1>3, <2>2
    <3> HIDE DEF S
    <3> QED
      BY <2>2, <3>1, <3>2, WithoutNode
  <2>8. \A p \in WaitQueue : Range(S[p]) \subseteq used'
    <3>1. used' = used \ {hit[q]} /\ \A p \in WaitQueue : ListedItems(p) \subseteq used
      BY <1>1, <2>1, ListedIs
    <3>2. \A p \in WaitQueue : p # q => hit[q] \notin ListedItems(p)
      <4>1. hit[q] \in Range(Lists[q])
        BY <1>2, <2>1, <2>2, ListedIs
      <4>2. \A p \in WaitQueue : p # q => Range(Lists[p]) \cap Range(Lists[q]) = {}
        BY <1>3, <2>2 DEF Chained
      <4>3. \A p \in WaitQueue : ListedItems(p) = Range(Lists[p])
        BY ListedIs
      <4> QED
        BY <4>1, <4>2, <4>3
    <3> HIDE DEF S
    <3> QED
      BY <2>6, <2>7, <3>1, <3>2
  <2> HIDE DEF S
  <2>9. ChainInv' /\ \A p \in WaitQueue : ListedItems(p)' = Range(S[p])
    BY <2>5, <2>8, ChainInvFrom
  <2>10. item[hit[q]] = [poll |-> FALSE, tid |-> t]
    BY <1>2, <2>1
  <2>11. used' \subseteq used
    BY <1>1
  <2>12. ASSUME NEW p \in WaitQueue
         PROVE  /\ ListedItems(p)' \subseteq ListedItems(p)
                /\ \A i \in ListedItems(p) :
                        item[i] # [poll |-> FALSE, tid |-> t] => i \in ListedItems(p)'
    <3>1. CASE p = q
      BY <2>6, <2>9, <2>10, <3>1
    <3>2. CASE p # q
      BY <2>6, <2>9, <3>2
    <3> QED
      BY <3>1, <3>2
  <2> QED
    BY <1>1, <2>9, <2>11, <2>12
<1> QED
  BY <1>4, <1>5

(***************************************************************************)
(* What poll leaves in the queues and takes back: one entry or two.        *)
(***************************************************************************)
Entries == Seq([item : Item, wq : WaitQueue])

(* poll_wait: one item more, at the end of the queue, and an entry for it. *)
LEMMA LinksEffect ==
    ASSUME ChainInv, used \subseteq Item, table \in [Thread -> Entries],
           NEW t \in Thread, NEW q \in WaitQueue, poll_links(t, q)
    PROVE  /\ ChainInv' /\ UNCHANGED <<item, bits, pbits, signalled, stage>>
           /\ \E i \in Item \ used :
                /\ used' = used \cup {i}
                /\ table' = [table EXCEPT ![t] = Append(@, [item |-> i, wq |-> q])]
                /\ ListedItems(q)' = ListedItems(q) \cup {i}
           /\ \A p \in WaitQueue : p # q => ListedItems(p)' = ListedItems(p)
<1> DEFINE i == FirstFree(used)
           r == list_append(wq[q], links, i)
           S == [Lists EXCEPT ![q] = Append(Lists[q], i)]
<1>1. /\ i \in Item \ used /\ used' = used \cup {i} /\ wq' = [wq EXCEPT ![q] = r.l] /\ links' = r.k
      /\ table' = [table EXCEPT ![t] = Append(@, [item |-> i, wq |-> q])]
      /\ UNCHANGED <<item, bits, pbits, signalled, stage>>
  <2>1. Item \ used # {}
    BY AllocIs DEF poll_links
  <2> QED
    BY <2>1, FirstFreeIs DEF poll_links
<1> HIDE DEF i
<1>2. \A p \in WaitQueue : Lists[p] = Listed(p) /\ Lists[p] \in Seq(Item) /\ Range(Lists[p]) = ListedItems(p)
                           /\ i \notin Range(Lists[p])
  BY <1>1, ListedIs
<1>3. Chained(S, wq', links')
  <2>1. Chained(Lists, wq, links)
    BY DEF ChainInv
  <2> QED
    BY <1>1, <1>2, <2>1, ChainedAppend
<1>4. /\ Range(S[q]) = ListedItems(q) \cup {i}
      /\ \A p \in WaitQueue : p # q => Range(S[p]) = ListedItems(p)
  <2>1. Lists \in [WaitQueue -> Seq(Item)]
    BY DEF ChainInv, Chained
  <2>2. S[q] = Append(Lists[q], i) /\ \A p \in WaitQueue : p # q => S[p] = Lists[p]
    BY <2>1
  <2>3. Range(Append(Lists[q], i)) = Range(Lists[q]) \cup {i}
    BY <1>1, <1>2, AppendRange
  <2> QED
    BY <1>2, <2>2, <2>3
<1>5. \A p \in WaitQueue : Range(S[p]) \subseteq used'
  BY <1>1, <1>4, ListedIs
<1> HIDE DEF S
<1>6. ChainInv' /\ \A p \in WaitQueue : ListedItems(p)' = Range(S[p])
  BY <1>3, <1>5, ChainInvFrom
<1> QED
  BY <1>1, <1>4, <1>6

(* An item of a poll: filled once poll_wait is done with it, and in the    *)
(* queue its entry says, unless an interrupt has emptied that queue.       *)
Entry(t, e, filled) ==
    \/ ListedItems(e.wq) = {}
    \/ e.item \in ListedItems(e.wq) /\ (filled => item[e.item] = [poll |-> TRUE, tid |-> t])

(* One item of a poll taken back.                                          *)
Takes(S, s, e) ==
    \E T : /\ Chained(T, TakenBack(s, e).wq, TakenBack(s, e).links)
           /\ Range(T[e.wq]) = Range(S[e.wq]) \ {e.item}
           /\ \A q \in WaitQueue : q # e.wq => T[q] = S[q]
LEMMA TakenEffect ==
    ASSUME NEW S, NEW s, NEW e, Chained(S, s.wq, s.links), e \in [item : Item, wq : WaitQueue],
           S[e.wq] = <<>> \/ e.item \in Range(S[e.wq])
    PROVE  Takes(S, s, e)
<1>0. PICK q, i, W, K : q = e.wq /\ i = e.item /\ W = s.wq /\ K = s.links
  OBVIOUS
<1>1. q \in WaitQueue /\ i \in Item /\ Chained(S, W, K)
  BY <1>0
<1>2. S \in [WaitQueue -> Seq(Item)] /\ W \in [WaitQueue -> List] /\ S[q] \in Seq(Item)
      /\ Holds(W[q], K, S[q])
  BY <1>1 DEF Chained
<1>3. PICK r : r = list_remove(W[q], K, i)
  OBVIOUS
<1>z. PICK z : z = TakenBack(s, e)
  OBVIOUS
<1>4. z.wq = [W EXCEPT ![q] = r.l] /\ z.links = r.k
  BY <1>0, <1>3, <1>z DEF TakenBack
<1>5. CASE S[q] = <<>>
  <2>1. W[q].counter = 0
    BY <1>2, <1>5 DEF Holds
  <2>2. r.l = W[q] /\ r.k = K
    BY <1>3, <2>1 DEF list_remove
  <2>3. z.wq = W /\ z.links = K
    BY <1>1, <1>2, <1>4, <2>2
  <2>4. Range(S[q]) = {}
    BY <1>5 DEF Range
  <2> QED
    BY <1>0, <1>1, <1>z, <2>3, <2>4 DEF Takes
<1>6. CASE i \in Range(S[q])
  <2>1. PICK j \in 1 .. Len(S[q]) : S[q][j] = i
    BY <1>2, <1>6, RangeSeq
  <2>2. PICK v : v = Without(S[q], j)
    OBVIOUS
  <2>3. PICK T : T = [S EXCEPT ![q] = v]
    OBVIOUS
  <2>4. Chained(T, z.wq, z.links)
    <3>1. LET x == list_remove(W[q], K, S[q][j])
          IN  Chained([S EXCEPT ![q] = Without(S[q], j)], [W EXCEPT ![q] = x.l], x.k)
      BY <1>1, <2>1, ChainedRemove
    <3> QED
      BY <1>3, <1>4, <2>1, <2>2, <2>3, <3>1
  <2>5. /\ v \in Seq(Item) /\ Range(v) \subseteq Range(S[q])
        /\ \A k \in Range(S[q]) : k = i \/ k \in Range(v)
    BY <1>2, <2>1, <2>2, WithoutIs
  <2>6. i \notin Range(v)
    <3>1. \A m, n \in 1 .. Len(S[q]) : S[q][m] = S[q][n] => m = n
      BY <1>2 DEF Holds
    <3> QED
      BY <1>2, <2>1, <2>2, <3>1, WithoutNode
  <2>7. T[q] = v /\ \A p \in WaitQueue : p # q => T[p] = S[p]
    BY <1>1, <1>2, <2>3
  <2>8. Range(T[q]) = Range(S[q]) \ {i}
    BY <2>5, <2>6, <2>7
  <2> QED
    BY <1>0, <1>z, <2>4, <2>7, <2>8 DEF Takes
<1> QED
  BY <1>0, <1>5, <1>6

Cleans(tab, w) ==
    w = [n \in 0 .. Len(tab) |->
            IF n = 0 THEN [used |-> used, wq |-> wq, links |-> links]
            ELSE TakenBack(w[n - 1], tab[n])]

(* Cleaned unrolled, for a table of one entry or two.                      *)
LEMMA CleanedIs ==
    ASSUME NEW tab, Len(tab) \in {1, 2}
    PROVE  LET z == [used |-> used, wq |-> wq, links |-> links]
               y == TakenBack(z, tab[1])
           IN  Cleaned(tab) = IF Len(tab) = 1 THEN y ELSE TakenBack(y, tab[2])
<1>0. \A n \in 0 .. Len(tab) : n = 0 \/ n = 1 \/ (n = 2 /\ Len(tab) = 2)
  <2>1. CASE Len(tab) = 1
    BY <2>1
  <2>2. CASE Len(tab) = 2
    BY <2>2
  <2> QED
    BY <2>1, <2>2
<1> DEFINE z == [used |-> used, wq |-> wq, links |-> links]
<1>1. PICK y, x : y = TakenBack(z, tab[1]) /\ x = TakenBack(y, tab[2])
  OBVIOUS
<1> DEFINE v == [n \in 0 .. Len(tab) |-> IF n = 0 THEN z ELSE IF n = 1 THEN y ELSE x]
<1>2. v = [n \in 0 .. Len(tab) |-> IF n = 0 THEN z ELSE TakenBack(v[n - 1], tab[n])]
  <2> DEFINE F(n) == IF n = 0 THEN z ELSE TakenBack(v[n - 1], tab[n])
  <2> HIDE DEF z
  <2>1. \A n \in 0 .. Len(tab) : v[n] = F(n)
    <3> TAKE n \in 0 .. Len(tab)
    <3>1. n = 0 \/ n = 1 \/ (n = 2 /\ Len(tab) = 2)
      BY <1>0
    <3>2. v[0] = z /\ v[1] = y /\ (Len(tab) = 2 => v[2] = x)
      OBVIOUS
    <3> QED
      BY <1>1, <3>1, <3>2
  <2>2. v = [n \in 0 .. Len(tab) |-> v[n]]
    OBVIOUS
  <2> HIDE DEF v, F
  <2>3. v = [n \in 0 .. Len(tab) |-> F(n)]
    BY <2>1, <2>2
  <2> QED
    BY <2>3 DEF F
<1>3. Cleans(tab, v)
  BY <1>2 DEF Cleans
<1> HIDE DEF v
<1>4. Cleaned(tab) = (CHOOSE w : Cleans(tab, w))[Len(tab)]
  BY DEF Cleaned, Cleans
<1>5. PICK w : Cleans(tab, w) /\ Cleaned(tab) = w[Len(tab)]
  BY <1>3, <1>4
<1> HIDE DEF z
<1>6. w[0] = z /\ w[1] = y
  BY <1>1, <1>5 DEF Cleans, z
<1>7. Len(tab) = 2 => w[2] = x
  BY <1>1, <1>5, <1>6 DEF Cleans
<1> QED
  BY <1>1, <1>5, <1>6, <1>7 DEF z

(* While a thread polls, the queues hold its items and no others.          *)
Own(t) ==
    \A q \in WaitQueue : \A i \in ListedItems(q) :
        \E j \in 1 .. Len(table[t]) : table[t][j] = [item |-> i, wq |-> q]

(* cleanup empties the queues, also when an interrupt has done so before.  *)
LEMMA CleanupEffect ==
    ASSUME ChainInv, used \subseteq Item, NEW t \in Thread, table[t] \in Entries, Own(t),
           Len(table[t]) \in {1, 2}, table[t][1].wq = "r", Len(table[t]) = 2 => table[t][2].wq = "w",
           \A j \in 1 .. Len(table[t]) : Entry(t, table[t][j], TRUE), cleanup(t)
    PROVE  ChainInv' /\ used' \subseteq used /\ \A q \in WaitQueue : ListedItems(q)' = {}
<1>z. PICK z0, e, z1, z2 : /\ z0 = [used |-> used, wq |-> wq, links |-> links] /\ e = table[t]
                           /\ z1 = TakenBack(z0, e[1]) /\ z2 = TakenBack(z1, e[2])
  OBVIOUS
<1>s. PICK S0 : S0 = Lists
  OBVIOUS
<1>1. /\ Chained(S0, z0.wq, z0.links)
      /\ \A q \in WaitQueue : /\ S0[q] = Listed(q) /\ Range(S0[q]) = ListedItems(q)
                              /\ ListedItems(q) = {} => S0[q] = <<>>
  BY <1>z, <1>s, ListedIs DEF ChainInv
<1>2. \A j \in 1 .. Len(e) : /\ e[j] \in [item : Item, wq : WaitQueue]
                             /\ S0[e[j].wq] = <<>> \/ e[j].item \in Range(S0[e[j].wq])
  <2> TAKE j \in 1 .. Len(e)
  <2>1. e[j] \in [item : Item, wq : WaitQueue] /\ Entry(t, e[j], TRUE)
    BY <1>z, ElementOfSeq DEF Entries
  <2> QED
    BY <1>1, <2>1 DEF Entry
<1>3. /\ Len(e) \in {1, 2} /\ 1 \in 1 .. Len(e) /\ (Len(e) = 2 => 2 \in 1 .. Len(e))
      /\ \A j \in 1 .. Len(e) : j = 1 \/ (j = 2 /\ Len(e) = 2)
      /\ e[1].wq = "r" /\ (Len(e) = 2 => e[2].wq = "w")
  <2>1. CASE Len(e) = 1
    BY <1>z, <2>1
  <2>2. CASE Len(e) = 2
    BY <1>z, <2>2
  <2> QED
    BY <1>z, <2>1, <2>2
<1>4. PICK S1 : /\ Chained(S1, z1.wq, z1.links) /\ Range(S1["r"]) = Range(S0["r"]) \ {e[1].item}
                /\ \A q \in WaitQueue : q # "r" => S1[q] = S0[q]
  <2>1. e[1] \in [item : Item, wq : WaitQueue] /\ (S0[e[1].wq] = <<>> \/ e[1].item \in Range(S0[e[1].wq]))
    BY <1>2, <1>3
  <2>d. PICK d : d = e[1]
    OBVIOUS
  <2>h. d \in [item : Item, wq : WaitQueue] /\ (S0[d.wq] = <<>> \/ d.item \in Range(S0[d.wq]))
    BY <2>1, <2>d
  <2>2. Takes(S0, z0, d)
    BY <1>1, <2>h, TakenEffect
  <2> QED
    BY <1>3, <1>z, <2>2, <2>d DEF Takes
<1>5. /\ Range(S1["r"]) = {}
      /\ \A q \in WaitQueue : q \notin {"r", "w"} => Range(S0[q]) = {}
      /\ Range(S0["w"]) # {} => Len(e) = 2 /\ Range(S0["w"]) \subseteq {e[2].item}
  <2>1. \A q \in WaitQueue : \A i \in Range(S0[q]) :
            \E j \in 1 .. Len(e) : e[j].item = i /\ e[j].wq = q
    <3> SUFFICES ASSUME NEW q \in WaitQueue, NEW i \in ListedItems(q)
                 PROVE  \E j \in 1 .. Len(e) : e[j].item = i /\ e[j].wq = q
      BY <1>1
    <3>1. PICK j \in 1 .. Len(e) : e[j] = [item |-> i, wq |-> q]
      BY <1>z DEF Own
    <3>2. e[j].item = i /\ e[j].wq = q
      BY <3>1
    <3> QED
      BY <3>2
  <2>2. "r" \in WaitQueue /\ "w" \in WaitQueue
    BY DriversAssumption
  <2>3. \A i \in Range(S0["r"]) : i = e[1].item
    <3> SUFFICES ASSUME NEW i \in Range(S0["r"]) PROVE i = e[1].item
      OBVIOUS
    <3>1. PICK j \in 1 .. Len(e) : e[j].item = i /\ e[j].wq = "r"
      BY <2>1, <2>2
    <3>2. j = 1 \/ (j = 2 /\ e[j].wq = "w")
      BY <1>3
    <3> QED
      BY <3>1, <3>2
  <2>4. \A i \in Range(S0["w"]) : Len(e) = 2 /\ i = e[2].item
    <3> SUFFICES ASSUME NEW i \in Range(S0["w"]) PROVE Len(e) = 2 /\ i = e[2].item
      OBVIOUS
    <3>1. PICK j \in 1 .. Len(e) : e[j].item = i /\ e[j].wq = "w"
      BY <2>1, <2>2
    <3>2. (j = 1 /\ e[j].wq = "r") \/ (j = 2 /\ Len(e) = 2)
      BY <1>3
    <3> QED
      BY <3>1, <3>2
  <2>5. \A q \in WaitQueue : q \notin {"r", "w"} => Range(S0[q]) = {}
    <3> SUFFICES ASSUME NEW q \in WaitQueue, NEW i \in Range(S0[q]) PROVE q \in {"r", "w"}
      OBVIOUS
    <3>1. PICK j \in 1 .. Len(e) : e[j].wq = q
      BY <2>1
    <3>2. j = 1 \/ (j = 2 /\ Len(e) = 2)
      BY <1>3
    <3> QED
      BY <1>3, <3>1, <3>2
  <2>6. Range(S1["r"]) = {}
    BY <1>4, <2>3
  <2> QED
    BY <2>4, <2>5, <2>6
<1>6. Cleaned(table[t]) = IF Len(e) = 1 THEN z1 ELSE z2
  BY <1>z, CleanedIs
<1>7. used' \subseteq used
  <2>1. z1.used \subseteq used /\ z2.used \subseteq z1.used
    BY <1>z DEF TakenBack
  <2> QED
    BY <1>6, <2>1 DEF cleanup
<1>8. CASE Len(e) = 1
  <2>1. wq' = z1.wq /\ links' = z1.links
    BY <1>6, <1>8 DEF cleanup
  <2>2. \A q \in WaitQueue : Range(S1[q]) = {}
    BY <1>4, <1>5, <1>8
  <2> QED
    BY <1>4, <1>7, <2>1, <2>2, ChainInvFrom
<1>9. CASE Len(e) = 2
  <2>1. wq' = z2.wq /\ links' = z2.links
    BY <1>6, <1>9 DEF cleanup
  <2>2. S1[e[2].wq] = <<>> \/ e[2].item \in Range(S1[e[2].wq])
    BY <1>2, <1>3, <1>4, <1>9
  <2>3. PICK S2 : /\ Chained(S2, z2.wq, z2.links) /\ Range(S2["w"]) = Range(S1["w"]) \ {e[2].item}
                  /\ \A q \in WaitQueue : q # "w" => S2[q] = S1[q]
    <3>1. e[2] \in [item : Item, wq : WaitQueue]
      BY <1>2, <1>3, <1>9
    <3>d. PICK d : d = e[2]
      OBVIOUS
    <3>h. d \in [item : Item, wq : WaitQueue] /\ (S1[d.wq] = <<>> \/ d.item \in Range(S1[d.wq]))
      BY <2>2, <3>1, <3>d
    <3>2. Takes(S1, z1, d)
      BY <1>4, <3>h, TakenEffect
    <3> QED
      BY <1>3, <1>9, <1>z, <3>2, <3>d DEF Takes
  <2>4. \A q \in WaitQueue : Range(S2[q]) = {}
    BY <1>3, <1>4, <1>5, <1>9, <2>3
  <2> QED
    BY <1>7, <2>1, <2>3, <2>4, ChainInvFrom
<1> QED
  BY <1>3, <1>8, <1>9

(***************************************************************************)
(* The inductive invariant of the wait queues.                             *)
(***************************************************************************)

(* What the variables hold.  An item that has been a poll's names a        *)
(* thread.                                                                 *)
TypeInv ==
    /\ ThreadsTypeOK
    /\ used \subseteq Item
    /\ item \in [Item -> [poll : BOOLEAN, tid : Thread \cup {NoThread}]]
    /\ \A i \in Item : item[i].poll => item[i].tid \in Thread
    /\ bits \subseteq Thread /\ pbits \subseteq Thread /\ signalled \subseteq Thread
    /\ table \in [Thread -> Entries]
    /\ stage \in {"io", "poll", "done"}
    /\ pc \in [Thread -> Place]

(* A thread that is between its test and its wait has the processor, no    *)
(* pass of the scheduler is under way then, and where a thread is goes     *)
(* with its job.                                                           *)
Polling == {"tested", "linked", "poll", "pollz", "polled"}
Busy == {"rdz", "wrz", "tested", "linked", "poll", "pollz"}
PlaceOf(j) ==
    CASE j = "read" -> {"rd", "rdz"} [] j = "write" -> {"wr", "wrz"}
      [] j = "poll" -> Polling [] j = "timed" -> {"timed"} [] OTHER -> {}
RunInv ==
    /\ current # NoThread => status[current] = "RUNNING" /\ stage = "done"
    /\ \A t \in Thread : pc[t] \in Busy => current = t
    /\ \A t \in Thread : pc[t] \in {"app"} \cup PlaceOf(job[t])

(* The threads that use the device do the same with it, and do not poll,   *)
(* or one thread uses it.  The mouse is polled, not read.                  *)
JobInv ==
    /\ \A t, u \in Thread : t # u =>
            "none" \in {job[t], job[u]} \/ (job[t] = job[u] /\ job[t] # "poll")
    /\ \A t \in Thread : job[t] = "read" => dev # "mouse"

(* A thread asleep is marked, or its item is in the queue it waits on.     *)
Waiting(t, q) == \E i \in ListedItems(q) : item[i] = [poll |-> FALSE, tid |-> t]
SleepInv ==
    \A t \in Thread : /\ Reading(t) => t \in bits \/ Waiting(t, "r")
                      /\ Writing(t) => t \in bits \/ Waiting(t, "w")

(* The table of a thread that polls: input first, and output if the device *)
(* has it.  Only the last entry may wait to be filled, and a thread that   *)
(* is not in poll has none.                                                *)
Filled(t, j) == pc[t] = "linked" => j # Len(table[t])
TableLength(t) ==
    CASE pc[t] = "app" -> Len(table[t]) = 0
      [] pc[t] = "tested" -> Len(table[t]) < Len(PollQueues)
      [] pc[t] = "linked" -> Len(table[t]) \in 1 .. Len(PollQueues)
      [] OTHER -> Len(table[t]) = Len(PollQueues)
PollTable(t) ==
    /\ TableLength(t) /\ Own(t)
    /\ \A j \in 1 .. Len(table[t]) : /\ table[t][j].wq = PollQueues[j]
                                     /\ Entry(t, table[t][j], Filled(t, j))
PollInv == \A t \in Thread : job[t] = "poll" => PollTable(t)

QueueInv == TypeInv /\ RunInv /\ JobInv /\ ChainInv /\ SleepInv /\ PollInv

(* One queue, or two.                                                      *)
LEMMA QueuesOf ==
    /\ Len(PollQueues) \in {1, 2} /\ PollQueues[1] = "r"
    /\ \A j \in 1 .. Len(PollQueues) : PollQueues[j] \in WaitQueue /\ (j = 1 \/ j = 2)
    /\ Len(PollQueues) = 2 => PollQueues[2] = "w"
<1>1. CASE dev = "uart"
  <2>1. PollQueues = <<"r", "w">>
    BY <1>1 DEF PollQueues
  <2> QED
    BY <2>1, DriversAssumption
<1>2. CASE dev # "uart"
  <2>1. PollQueues = <<"r">>
    BY <1>2 DEF PollQueues
  <2> QED
    BY <2>1, DriversAssumption
<1> QED
  BY <1>1, <1>2

(***************************************************************************)
(* What the steps of Threads do.                                           *)
(***************************************************************************)
(* thread_io_wait and poll put the thread that runs to sleep, and no       *)
(* other.                                                                  *)
LEMMA BlockType ==
    ASSUME ThreadsTypeOK, NEW m \in Nat, Block({"COMPLETION"}, m)
    PROVE  /\ ThreadsTypeOK' /\ current' = NoThread /\ current \in Thread
           /\ \A u \in Thread : u # current => status'[u] = status[u] /\ waits'[u] = waits[u]
           /\ status'[current] = "WAITING"
<1>1. current \in Thread /\ current' = NoThread
  BY DEF Block, ThreadsTypeOK
<1>2. \A u \in Thread : u # current => status'[u] = status[u] /\ waits'[u] = waits[u]
  BY DEF Block, ThreadsTypeOK
<1>3. status'[current] = "WAITING" /\ status' \in [Thread -> Status]
  BY <1>1 DEF Block, ThreadsTypeOK, Status
<1>4. waits' \in [Thread -> SUBSET WaitFlag]
  BY <1>1 DEF Block, ThreadsTypeOK, WaitFlag
<1>5. wake' \in [Thread -> Nat] /\ now' \in Nat /\ doomed' \subseteq Thread
  BY <1>1 DEF Block, ThreadsTypeOK
<1> QED
  BY <1>1, <1>2, <1>3, <1>4, <1>5 DEF ThreadsTypeOK

(* The steps of the scheduler put nobody to sleep, and leave the thread    *)
(* that runs alone.                                                        *)
Woken ==
    /\ \A u \in Thread : Asleep(u)' => Asleep(u)
    /\ current' = current \/ (current = NoThread /\ current' \in Thread)
    /\ current' # NoThread => status'[current'] = "RUNNING"

(* scheduler_resume_thread wakes the threads of S.                         *)
LEMMA WakeType ==
    ASSUME ThreadsTypeOK, current # NoThread => status[current] = "RUNNING",
           NEW S, Wake("COMPLETION", S)
    PROVE  ThreadsTypeOK' /\ Woken /\ \A u \in S : u \in Thread => ~Asleep(u)'
<1> DEFINE R == Resumable("COMPLETION", S)
<1> HIDE DEF R
<1>1. /\ status' = [t \in Thread |-> IF t \in R THEN "READY" ELSE status[t]]
      /\ waits' = [t \in Thread |-> IF t \in R THEN {} ELSE waits[t]]
      /\ wake' = [t \in Thread |-> IF t \in R THEN 0 ELSE wake[t]]
      /\ UNCHANGED <<current, doomed, now>>
  BY DEF Wake, R
<1>2. \A t : t \in R <=> t \in S /\ status[t] = "WAITING" /\ "COMPLETION" \in waits[t]
  BY DEF R, Resumable
<1>3. status' \in [Thread -> Status]
  BY <1>1 DEF ThreadsTypeOK, Status
<1>4. waits' \in [Thread -> SUBSET WaitFlag]
  BY <1>1 DEF ThreadsTypeOK
<1>5. wake' \in [Thread -> Nat]
  BY <1>1 DEF ThreadsTypeOK
<1>6. ThreadsTypeOK'
  BY <1>1, <1>3, <1>4, <1>5 DEF ThreadsTypeOK
<1>7. \A u \in Thread : Asleep(u)' => Asleep(u) /\ u \notin S
  BY <1>1, <1>2 DEF Asleep
<1>8. current' # NoThread => status'[current'] = "RUNNING"
  BY <1>1, <1>2 DEF ThreadsTypeOK
<1> QED
  BY <1>1, <1>6, <1>7, <1>8 DEF Woken

(* A timeout, a thread that gets the processor, a killed one put aside.    *)
LEMMA PassType ==
    ASSUME ThreadsTypeOK, current # NoThread => status[current] = "RUNNING", NEW t \in Thread,
           Timeout(t) \/ Dispatch(t) \/ Bury(t)
    PROVE  ThreadsTypeOK' /\ Woken
<1>1. CASE Timeout(t)
  <2>1. ThreadsTypeOK'
    BY <1>1 DEF Timeout, ThreadsTypeOK, Status
  <2>2. \A u \in Thread : Asleep(u)' => Asleep(u)
    BY <1>1 DEF Timeout, ThreadsTypeOK, Asleep
  <2>3. current' = current /\ (current' # NoThread => status'[current'] = "RUNNING")
    BY <1>1 DEF Timeout, ThreadsTypeOK
  <2> QED
    BY <2>1, <2>2, <2>3 DEF Woken
<1>2. CASE Dispatch(t)
  <2>1. ThreadsTypeOK'
    BY <1>2 DEF Dispatch, ThreadsTypeOK, Status
  <2>2. \A u \in Thread : Asleep(u)' => Asleep(u)
    BY <1>2 DEF Dispatch, ThreadsTypeOK, Asleep
  <2>3. /\ current = NoThread /\ current' \in Thread
        /\ current' # NoThread => status'[current'] = "RUNNING"
    BY <1>2 DEF Dispatch, ThreadsTypeOK
  <2> QED
    BY <2>1, <2>2, <2>3 DEF Woken
<1>3. CASE Bury(t)
  <2>1. ThreadsTypeOK'
    BY <1>3 DEF Bury, ThreadsTypeOK, Status
  <2>2. \A u \in Thread : Asleep(u)' => Asleep(u)
    BY <1>3 DEF Bury, ThreadsTypeOK, Asleep
  <2>3. current' = current /\ (current' # NoThread => status'[current'] = "RUNNING")
    BY <1>3 DEF Bury, ThreadsTypeOK
  <2> QED
    BY <2>1, <2>2, <2>3 DEF Woken
<1> QED
  BY <1>1, <1>2, <1>3

(* A thread that is killed is not asleep any more.                         *)
LEMMA KillType ==
    ASSUME ThreadsTypeOK, current # NoThread => status[current] = "RUNNING", NEW t \in Thread,
           status[t] = "WAITING", Kill(t)
    PROVE  ThreadsTypeOK' /\ Woken /\ current' = current /\ ~Asleep(t)'
<1>1. ThreadsTypeOK'
  <2>1. status' \in [Thread -> Status]
    BY DEF Kill, ThreadsTypeOK, Status
  <2>2. waits' \in [Thread -> SUBSET WaitFlag]
    BY DEF Kill, ThreadsTypeOK
  <2>3. doomed' \subseteq Thread /\ UNCHANGED <<current, wake, now>>
    BY DEF Kill, ThreadsTypeOK
  <2> QED
    BY <2>1, <2>2, <2>3 DEF ThreadsTypeOK
<1>2. waits'[t] = {}
  BY DEF Kill, ThreadsTypeOK
<1>3. \A u \in Thread : u # t => status'[u] = status[u] /\ waits'[u] = waits[u]
  BY DEF Kill, ThreadsTypeOK
<1>4. current' = current /\ current # t
  BY DEF Kill
<1> QED
  BY <1>1, <1>2, <1>3, <1>4 DEF Woken, Asleep, ThreadsTypeOK

(* thread_suspend puts nobody to sleep.                                    *)
LEMMA YieldType ==
    ASSUME ThreadsTypeOK, Yield
    PROVE  ThreadsTypeOK' /\ current' = NoThread /\ \A u \in Thread : Asleep(u)' => Asleep(u)
<1>1. ThreadsTypeOK' /\ current' = NoThread
  BY DEF Yield, ThreadsTypeOK, Status
<1>2. \A u \in Thread : Asleep(u)' => Asleep(u)
  BY DEF Yield, ThreadsTypeOK, Asleep
<1> QED
  BY <1>1, <1>2

(* A thread that polls shares the device with nobody; where a thread is    *)
(* tells its job.                                                          *)
LEMMA OnePoller ==
    ASSUME RunInv, JobInv, NEW t \in Thread, job[t] = "poll", NEW u \in Thread, u # t
    PROVE  job[u] = "none" /\ pc[u] = "app"
<1>1. job[u] = "none"
  BY DEF JobInv
<1> QED
  BY <1>1 DEF RunInv, PlaceOf

(* Where a thread is tells its job.                                        *)
LEMMA PlaceTells ==
    ASSUME RunInv, NEW t \in Thread
    PROVE  /\ pc[t] \in {"rd", "rdz"} => job[t] = "read"
           /\ pc[t] \in {"wr", "wrz"} => job[t] = "write"
           /\ pc[t] \in Polling => job[t] = "poll"
           /\ pc[t] = "timed" => job[t] = "timed"
BY DEF RunInv, PlaceOf, Polling

(* A step that leaves queues and tables as they are keeps the invariant if *)
(* nobody falls asleep in a read or a write, and nobody who sleeps loses   *)
(* its mark.                                                               *)
LEMMA LocalKeeps ==
    ASSUME QueueInv, TypeInv', RunInv', UNCHANGED <<wq, links, used, item, table, signalled, dev, job>>,
           \A u \in Thread : /\ Asleep(u)' /\ pc'[u] \in {"rd", "wr"} =>
                                    Asleep(u) /\ pc'[u] = pc[u] /\ (u \in bits => u \in bits')
                             /\ job[u] = "poll" => \/ pc'[u] = pc[u]
                                                   \/ {pc[u], pc'[u]} \subseteq {"poll", "pollz", "polled"}
    PROVE  QueueInv'
<1>1. ChainInv' /\ \A q \in WaitQueue : ListedItems(q)' = ListedItems(q)
  BY ChainInvKept DEF QueueInv
<1>2. "r" \in WaitQueue /\ "w" \in WaitQueue /\ PollQueues' = PollQueues
  BY DriversAssumption DEF PollQueues
<1>3. JobInv'
  BY DEF QueueInv, JobInv
<1>4. \A u \in Thread, q \in WaitQueue : Waiting(u, q) => Waiting(u, q)'
  BY <1>1 DEF Waiting
<1>5. SleepInv'
  <2> SUFFICES ASSUME NEW u \in Thread
               PROVE  /\ Reading(u)' => u \in bits' \/ Waiting(u, "r")'
                      /\ Writing(u)' => u \in bits' \/ Waiting(u, "w")'
    BY DEF SleepInv
  <2>1. Reading(u)' => Reading(u) /\ (u \in bits => u \in bits')
    BY DEF Reading
  <2>2. Writing(u)' => Writing(u) /\ (u \in bits => u \in bits')
    BY DEF Writing
  <2> QED
    BY <1>2, <1>4, <2>1, <2>2 DEF QueueInv, SleepInv
<1>6. PollInv'
  <2> SUFFICES ASSUME NEW u \in Thread, job[u] = "poll" PROVE PollTable(u)'
    BY DEF PollInv
  <2>1. PollTable(u)
    BY DEF QueueInv, PollInv
  <2>2. \A j \in 1 .. Len(table[u]) : table[u][j] \in [item : Item, wq : WaitQueue]
    BY ElementOfSeq DEF QueueInv, TypeInv, Entries
  <2>3. Own(u)'
    BY <1>1, <2>1 DEF Own, PollTable
  <2>4. TableLength(u)'
    BY <1>2, <2>1 DEF TableLength, PollTable
  <2>5. \A j \in 1 .. Len(table[u]) : Filled(u, j)' => Filled(u, j)
    BY DEF Filled
  <2>6. \A j \in 1 .. Len(table[u]) : Entry(u, table[u][j], Filled(u, j)) => Entry(u, table[u][j], Filled(u, j))'
    <3> TAKE j \in 1 .. Len(table[u])
    <3>1. Filled(u, j)' => Filled(u, j)
      BY <2>5
    <3>2. ListedItems(table[u][j].wq)' = ListedItems(table[u][j].wq)
      BY <1>1, <2>2
    <3> QED
      BY <3>1, <3>2 DEF Entry
  <2> QED
    BY <1>2, <2>1, <2>3, <2>4, <2>6 DEF PollTable
<1> QED
  BY <1>1, <1>3, <1>5, <1>6 DEF QueueInv

(* Steps of the thread that runs, outside the queues.                      *)
LEMMA MovesKeeps ==
    ASSUME QueueInv, NEW t \in Thread, NEW at, NEW to, Moves(t, at, to),
           to \in {"app"} \cup PlaceOf(job[t]), to \in Place,
           job[t] = "poll" => to = at \/ {at, to} \subseteq {"poll", "pollz", "polled"},
           UNCHANGED <<threadsVars, ioVars, dev, job>>
    PROVE  QueueInv'
<1>1. /\ current = t /\ status[t] = "RUNNING" /\ pc' = [pc EXCEPT ![t] = to]
      /\ pc'[t] = to /\ \A u \in Thread : u # t => pc'[u] = pc[u]
  BY NoThreadAssumption DEF Moves, QueueInv, RunInv, TypeInv
<1>2. /\ UNCHANGED <<current, status, waits, wake, doomed, now>>
      /\ UNCHANGED <<wq, links, used, item, bits, pbits, table, signalled, stage>>
  BY DEF threadsVars, ioVars
<1>3. TypeInv'
  BY <1>1, <1>2 DEF QueueInv, TypeInv, ThreadsTypeOK
<1>4. RunInv'
  <2>1. current' # NoThread => status'[current'] = "RUNNING" /\ stage' = "done"
    BY <1>1, <1>2 DEF QueueInv, RunInv
  <2>2. \A u \in Thread : pc'[u] \in Busy => current' = u
    BY <1>1, <1>2 DEF QueueInv, RunInv
  <2>3. \A u \in Thread : pc'[u] \in {"app"} \cup PlaceOf(job'[u])
    <3> TAKE u \in Thread
    <3>1. CASE u = t
      BY <1>1, <3>1
    <3>2. CASE u # t
      BY <1>1, <3>2 DEF QueueInv, RunInv
    <3> QED
      BY <3>1, <3>2
  <2> QED
    BY <2>1, <2>2, <2>3 DEF RunInv
<1>5. \A u \in Thread : Asleep(u)' => Asleep(u) /\ u # t
  BY <1>1, <1>2 DEF Asleep
<1>6. \A u \in Thread : job[u] = "poll" => \/ pc'[u] = pc[u]
                                           \/ {pc[u], pc'[u]} \subseteq {"poll", "pollz", "polled"}
  BY <1>1 DEF Moves
<1> QED
  BY <1>1, <1>2, <1>3, <1>4, <1>5, <1>6, LocalKeeps

(* Steps that move nobody: the line, and what the scheduler does.          *)
LEMMA WokenKeeps ==
    ASSUME QueueInv, ThreadsTypeOK', Woken, UNCHANGED <<wq, links, used, item, table, signalled, dev, job, pc>>,
           bits' \subseteq Thread, pbits' \subseteq Thread, stage' \in {"io", "poll", "done"},
           current' # NoThread => stage' = "done", \A u \in bits : Asleep(u)' => u \in bits'
    PROVE  QueueInv'
<1>1. TypeInv'
  BY DEF QueueInv, TypeInv
<1>2. RunInv'
  <2>1. \A u \in Thread : pc'[u] \in Busy => current' = u
    BY NoThreadAssumption DEF QueueInv, RunInv, Woken
  <2>2. \A u \in Thread : pc'[u] \in {"app"} \cup PlaceOf(job'[u])
    BY DEF QueueInv, RunInv
  <2> QED
    BY <2>1, <2>2 DEF RunInv, Woken
<1>3. \A u \in Thread : Asleep(u)' => Asleep(u)
  BY DEF Woken
<1> QED
  BY <1>1, <1>2, <1>3, LocalKeeps

(* thread_io_resume: who slept in the queue is marked.                     *)
LEMMA ResumeMarks ==
    ASSUME QueueInv, NEW q \in WaitQueue, thread_io_resume(q)
    PROVE  /\ Sleepers(q) \subseteq Thread /\ Pollers(q) \subseteq Thread
           /\ \A u \in Thread : Waiting(u, q) => u \in bits'
<1>0. ChainInv /\ used \subseteq Item /\ ListedItems(q) \subseteq used /\ TypeInv
  BY ListedIs DEF QueueInv, TypeInv
<1>1. bits' = bits \cup Sleepers(q)
  BY <1>0, ResumeEffect
<1>2. \A u \in Thread : Waiting(u, q) => u \in bits'
  <2> SUFFICES ASSUME NEW u \in Thread, NEW i \in ListedItems(q), item[i] = [poll |-> FALSE, tid |-> u]
               PROVE  u \in Sleepers(q)
    BY <1>1 DEF Waiting
  <2>1. ~item[i].poll /\ item[i].tid = u
    OBVIOUS
  <2> QED
    BY <2>1 DEF Sleepers
<1>3. Sleepers(q) \subseteq Thread /\ Pollers(q) \subseteq Thread
  BY <1>0 DEF Sleepers, Pollers, TypeInv
<1> QED
  BY <1>2, <1>3

(* An interrupt that resumes a queue keeps the invariant.                  *)
LEMMA ResumeKeeps ==
    ASSUME QueueInv, NEW q \in WaitQueue, thread_io_resume(q), UNCHANGED <<threadsVars, dev, job, pc>>
    PROVE  QueueInv'
<1>0. /\ ChainInv /\ used \subseteq Item /\ "r" \in WaitQueue /\ "w" \in WaitQueue
      /\ UNCHANGED <<current, status, waits, wake, doomed, now>>
  BY DriversAssumption DEF QueueInv, TypeInv, threadsVars
<1>1. /\ ChainInv' /\ ListedItems(q)' = {} /\ used' = used \ ListedItems(q)
      /\ \A p \in WaitQueue : p # q => ListedItems(p)' = ListedItems(p)
      /\ bits' = bits \cup Sleepers(q) /\ pbits' = pbits \cup (Pollers(q) \ signalled)
      /\ signalled' = signalled \cup Pollers(q) /\ UNCHANGED <<item, table, stage>>
  BY <1>0, ResumeEffect
<1>2. /\ Sleepers(q) \subseteq Thread /\ Pollers(q) \subseteq Thread
      /\ \A u \in Thread : Waiting(u, q) => u \in bits'
  BY ResumeMarks
<1>3. TypeInv'
  BY <1>0, <1>1, <1>2 DEF QueueInv, TypeInv, ThreadsTypeOK
<1>4. RunInv' /\ JobInv'
  BY <1>0, <1>1 DEF QueueInv, RunInv, JobInv
<1>5. SleepInv'
  <2>1. \A u \in Thread, p \in WaitQueue : Waiting(u, p) => u \in bits' \/ Waiting(u, p)'
    BY <1>1, <1>2 DEF Waiting
  <2>2. \A u \in Thread : (Reading(u)' => Reading(u)) /\ (Writing(u)' => Writing(u))
    BY <1>0 DEF Reading, Writing, Asleep
  <2> QED
    BY <1>0, <1>1, <2>1, <2>2 DEF QueueInv, SleepInv
<1>6. PollInv'
  <2> SUFFICES ASSUME NEW u \in Thread, job[u] = "poll" PROVE PollTable(u)'
    BY <1>0 DEF PollInv
  <2>1. PollTable(u) /\ PollQueues' = PollQueues
    BY DEF QueueInv, PollInv, PollQueues
  <2>2. \A j \in 1 .. Len(table[u]) : table[u][j] \in [item : Item, wq : WaitQueue]
    BY ElementOfSeq DEF QueueInv, TypeInv, Entries
  <2>3. Own(u)' /\ TableLength(u)'
    BY <1>1, <2>1 DEF PollTable, Own, TableLength
  <2>4. \A j \in 1 .. Len(table[u]) : Entry(u, table[u][j], Filled(u, j)) => Entry(u, table[u][j], Filled(u, j))'
    <3> TAKE j \in 1 .. Len(table[u])
    <3>1. Filled(u, j)' = Filled(u, j) /\ table[u][j].wq \in WaitQueue
      BY <1>1, <2>2 DEF Filled
    <3> QED
      BY <1>1, <3>1 DEF Entry
  <2> QED
    BY <1>1, <2>1, <2>3, <2>4 DEF PollTable
<1> QED
  BY <1>1, <1>3, <1>4, <1>5, <1>6 DEF QueueInv

(* thread_io_wait: the thread that falls asleep has left its item.         *)
LEMMA WaitKeeps ==
    ASSUME QueueInv, NEW t \in Thread, job[t] \in {"read", "write", "timed"}, NEW at,
           <<at, job[t]>> \in {<<"rdz", "read">>, <<"wrz", "write">>, <<"app", "timed">>}, NEW to, NEW q,
           <<to, q, job[t]>> \in {<<"rd", "r", "read">>, <<"wr", "w", "write">>, <<"timed", "r", "timed">>},
           Moves(t, at, to), NEW m \in Nat, thread_io_wait(q, m), UNCHANGED <<dev, job>>
    PROVE  QueueInv'
<1>0. /\ ChainInv /\ used \subseteq Item /\ "r" \in WaitQueue /\ "w" \in WaitQueue /\ q \in WaitQueue
      /\ TypeInv /\ ThreadsTypeOK /\ RunInv /\ JobInv /\ SleepInv
  BY DriversAssumption DEF QueueInv, TypeInv
<1>1. current = t /\ pc' = [pc EXCEPT ![t] = to] /\ pc'[t] = to /\ \A u \in Thread : u # t => pc'[u] = pc[u]
  BY <1>0 DEF Moves, TypeInv
<1>2. Block({"COMPLETION"}, m) /\ stage' = "io" /\ UNCHANGED <<bits, pbits, table, signalled>>
  BY DEF thread_io_wait
<1>3. /\ ThreadsTypeOK' /\ current' = NoThread
      /\ \A u \in Thread : u # t => status'[u] = status[u] /\ waits'[u] = waits[u]
  BY <1>0, <1>1, <1>2, BlockType
<1>4. ChainInv'
  BY <1>0, WaitEffect
<1>5. PICK i \in Item \ used :
        /\ used' = used \cup {i} /\ item' = [item EXCEPT ![i] = [poll |-> FALSE, tid |-> current]]
        /\ ListedItems(q)' = ListedItems(q) \cup {i}
        /\ \A p \in WaitQueue : p # q => ListedItems(p)' = ListedItems(p)
  BY <1>0, WaitEffect
<1>6. /\ item'[i] = [poll |-> FALSE, tid |-> t] /\ \A k \in used : item'[k] = item[k]
      /\ item' \in [Item -> [poll : BOOLEAN, tid : Thread \cup {NoThread}]]
  BY <1>0, <1>1, <1>5 DEF TypeInv
<1>7. TypeInv'
  <2>1. pc' \in [Thread -> Place]
    BY <1>0, <1>1 DEF TypeInv, Place
  <2>2. used' \subseteq Item /\ \A k \in Item : item'[k].poll => item'[k].tid \in Thread
    BY <1>0, <1>5, <1>6 DEF TypeInv
  <2> QED
    BY <1>0, <1>2, <1>3, <1>6, <2>1, <2>2 DEF TypeInv
<1>8. RunInv'
  <2>1. \A u \in Thread : pc'[u] \notin Busy
    BY <1>0, <1>1 DEF RunInv, Busy
  <2>2. \A u \in Thread : pc'[u] \in {"app"} \cup PlaceOf(job'[u])
    BY <1>0, <1>1 DEF RunInv, PlaceOf
  <2> QED
    BY <1>3, <2>1, <2>2 DEF RunInv
<1>9. JobInv'
  BY <1>0 DEF JobInv
<1>10. SleepInv'
  <2>1. \A u \in Thread, p \in WaitQueue : Waiting(u, p) => Waiting(u, p)'
    <3>1. \A p \in WaitQueue : ListedItems(p) \subseteq ListedItems(p)' /\ ListedItems(p) \subseteq used
      BY <1>0, <1>5, ListedIs
    <3> QED
      BY <1>6, <3>1 DEF Waiting
  <2>2. \A u \in Thread : u # t => (Reading(u)' => Reading(u)) /\ (Writing(u)' => Writing(u))
    BY <1>1, <1>3 DEF Reading, Writing, Asleep
  <2>3. Waiting(t, q)'
    BY <1>5, <1>6 DEF Waiting
  <2>4. (Reading(t)' => q = "r") /\ (Writing(t)' => q = "w")
    BY <1>1 DEF Reading, Writing
  <2> QED
    BY <1>0, <1>2, <2>1, <2>2, <2>3, <2>4 DEF SleepInv
<1>11. PollInv'
  BY <1>0 DEF PollInv, JobInv
<1> QED
  BY <1>4, <1>7, <1>8, <1>9, <1>10, <1>11 DEF QueueInv

(* A step of poll: nobody else uses the device.                            *)
LEMMA PollStep ==
    ASSUME QueueInv, NEW t \in Thread, job[t] = "poll", NEW at, NEW to \in {"app"} \cup Polling, Moves(t, at, to)
    PROVE  /\ pc[t] = at /\ pc'[t] = to /\ \A u \in Thread : u # t => pc[u] = "app" /\ pc'[u] = "app" /\ job[u] = "none"
           /\ pc' \in [Thread -> Place] /\ current = t /\ status[t] = "RUNNING" /\ stage = "done"
           /\ \A u \in Thread : pc'[u] \in {"app"} \cup PlaceOf(job[u])
           /\ \A u \in Thread : pc'[u] \notin {"rd", "wr"}
<1>1. /\ current = t /\ pc[t] = at /\ pc' = [pc EXCEPT ![t] = to] /\ pc \in [Thread -> Place] /\ to \in Place
      /\ RunInv /\ JobInv
  BY DEF QueueInv, TypeInv, Moves, Place, Polling
<1>2. pc'[t] = to /\ \A u \in Thread : u # t => pc'[u] = pc[u]
  BY <1>1
<1>3. \A u \in Thread : u # t => pc[u] = "app" /\ job[u] = "none"
  BY <1>1, OnePoller
<1>4. pc' \in [Thread -> Place]
  BY <1>1
<1>5. current = t /\ status[t] = "RUNNING" /\ stage = "done"
  BY <1>1, NoThreadAssumption DEF RunInv
<1>6. \A u \in Thread : pc'[u] \in {"app"} \cup PlaceOf(job[u])
  BY <1>2, <1>3 DEF PlaceOf
<1>7. \A u \in Thread : pc'[u] \notin {"rd", "wr"}
  BY <1>2, <1>3 DEF Polling
<1> QED
  BY <1>1, <1>2, <1>3, <1>4, <1>5, <1>6, <1>7

(* ... and what is left to show when it does not sleep.                    *)
LEMMA PollKeeps ==
    ASSUME QueueInv, NEW t \in Thread, job[t] = "poll", NEW at, NEW to \in {"app"} \cup Polling, Moves(t, at, to),
           UNCHANGED <<threadsVars, dev, job, bits, pbits, stage>>, used' \subseteq Item,
           item' \in [Item -> [poll : BOOLEAN, tid : Thread \cup {NoThread}]],
           \A i \in Item : item'[i].poll => item'[i].tid \in Thread,
           signalled' \subseteq Thread, table' \in [Thread -> Entries], ChainInv', PollTable(t)'
    PROVE  QueueInv'
<1>0. UNCHANGED <<current, status, waits, wake, doomed, now>>
  BY DEF threadsVars
<1>1. TypeInv'
  BY <1>0, PollStep DEF QueueInv, TypeInv, ThreadsTypeOK
<1>2. \A u \in Thread : u # t => pc'[u] = "app" /\ job[u] = "none"
  BY PollStep
<1>3. RunInv'
  <2>1. current' = t /\ status'[t] = "RUNNING" /\ stage' = "done"
    BY <1>0, PollStep
  <2>2. \A u \in Thread : pc'[u] \in Busy => current' = u
    BY <1>2, <2>1 DEF Busy
  <2>3. \A u \in Thread : pc'[u] \in {"app"} \cup PlaceOf(job'[u])
    BY PollStep
  <2> QED
    BY <2>1, <2>2, <2>3 DEF RunInv
<1>4. JobInv'
  BY DEF QueueInv, JobInv
<1>5. SleepInv'
  BY PollStep DEF SleepInv, Reading, Writing
<1>6. PollInv'
  BY <1>2 DEF PollInv
<1> QED
  BY <1>1, <1>3, <1>4, <1>5, <1>6 DEF QueueInv

(* The driver tests its ring, and the table is empty.                      *)
LEMMA PollTestsKeeps ==
    ASSUME QueueInv, NEW t \in Thread, PollTests(t)
    PROVE  QueueInv'
<1>0. /\ job[t] = "poll" /\ Moves(t, "app", "tested") /\ signalled' = signalled \ {t}
      /\ UNCHANGED <<threadsVars, wq, links, used, item, bits, pbits, table, stage, dev, job>>
      /\ TypeInv /\ ChainInv /\ PollTable(t) /\ PollQueues' = PollQueues
  BY DEF PollTests, Quiet, QueueInv, PollInv, PollQueues
<1>1. pc[t] = "app" /\ pc'[t] = "tested"
  BY <1>0, PollStep DEF Polling
<1>2. ChainInv' /\ \A q \in WaitQueue : ListedItems(q)' = ListedItems(q)
  BY <1>0, ChainInvKept
<1>3. Len(table[t]) = 0
  BY <1>0, <1>1 DEF PollTable, TableLength
<1>4. TableLength(t)'
  BY <1>0, <1>1, <1>3, QueuesOf DEF TableLength
<1>5. Own(t)'
  BY <1>0, <1>2 DEF PollTable, Own
<1>6. PollTable(t)'
  BY <1>0, <1>3, <1>4, <1>5 DEF PollTable
<1>7. signalled' \subseteq Thread
  BY <1>0 DEF TypeInv
<1> QED
  BY <1>0, <1>2, <1>6, <1>7, PollKeeps DEF Polling, TypeInv

(* An item is linked, and the table has an entry more.                     *)
LEMMA PollLinksKeeps ==
    ASSUME QueueInv, NEW t \in Thread, PollLinks(t)
    PROVE  QueueInv'
<1>0. /\ Moves(t, "tested", "linked") /\ UNCHANGED <<threadsVars, dev, job>>
      /\ poll_links(t, PollQueues[Len(table[t]) + 1])
      /\ TypeInv /\ ChainInv /\ RunInv /\ PollQueues' = PollQueues
  BY DEF PollLinks, Quiet, QueueInv, PollQueues
<1>1. job[t] = "poll" /\ PollTable(t)
  <2>1. pc[t] = "tested"
    BY <1>0 DEF Moves
  <2>2. job[t] = "poll"
    BY <1>0, <2>1, PlaceTells DEF Polling
  <2> QED
    BY <2>2 DEF QueueInv, PollInv
<1>2. pc[t] = "tested" /\ pc'[t] = "linked"
  BY <1>0, <1>1, PollStep DEF Polling
<1>3. PICK n, q : n = Len(table[t]) /\ q = PollQueues[n + 1]
  OBVIOUS
<1>4. /\ table[t] \in Entries /\ n \in Nat /\ n + 1 \in 1 .. Len(PollQueues) /\ q \in WaitQueue
      /\ \A j \in 1 .. n : j \in 1 .. Len(PollQueues) /\ PollQueues[j] # q
  <2>0. table[t] \in Entries
    BY <1>0 DEF TypeInv
  <2>1. table[t] \in Entries /\ n \in Nat
    BY <1>3, <2>0 DEF Entries
  <2>2. n < Len(PollQueues)
    BY <1>1, <1>2, <1>3 DEF PollTable, TableLength
  <2>3. n = 0 \/ (n = 1 /\ Len(PollQueues) = 2)
    BY <2>1, <2>2, QueuesOf
  <2> QED
    BY <1>3, <2>1, <2>2, <2>3, QueuesOf
<1>5. poll_links(t, q) /\ used \subseteq Item /\ table \in [Thread -> Entries]
  BY <1>0, <1>3 DEF TypeInv
<1>6. ChainInv' /\ UNCHANGED <<item, bits, pbits, signalled, stage>>
      /\ \A p \in WaitQueue : p # q => ListedItems(p)' = ListedItems(p)
  BY <1>0, <1>4, <1>5, LinksEffect
<1>7. PICK i \in Item \ used :
        /\ used' = used \cup {i}
        /\ table' = [table EXCEPT ![t] = Append(@, [item |-> i, wq |-> q])]
        /\ ListedItems(q)' = ListedItems(q) \cup {i}
  BY <1>0, <1>4, <1>5, LinksEffect
<1>8. PICK e : e = [item |-> i, wq |-> q]
  OBVIOUS
<1>9. /\ e \in [item : Item, wq : WaitQueue] /\ e.item = i /\ e.wq = q
      /\ table'[t] = Append(table[t], e)
  BY <1>4, <1>5, <1>7, <1>8
<1>10. /\ table'[t] \in Entries /\ Len(table'[t]) = n + 1 /\ table'[t][n + 1] = e
       /\ \A j \in 1 .. n : table'[t][j] = table[t][j]
  BY <1>3, <1>4, <1>9, AppendProperties DEF Entries
<1>11. table' \in [Thread -> Entries]
  BY <1>5, <1>7, <1>9, <1>10
<1>12. TableLength(t)'
  BY <1>0, <1>2, <1>4, <1>10 DEF TableLength
<1>13. Own(t)'
  <2> SUFFICES ASSUME NEW p \in WaitQueue, NEW k \in ListedItems(p)'
               PROVE  \E j \in 1 .. n + 1 : table'[t][j] = [item |-> k, wq |-> p]
    BY <1>10 DEF Own
  <2>1. CASE k \in ListedItems(p)
    <3>1. PICK j \in 1 .. n : table[t][j] = [item |-> k, wq |-> p]
      BY <1>1, <1>3, <2>1 DEF PollTable, Own
    <3>2. j \in 1 .. n + 1
      BY <1>4
    <3> QED
      BY <1>10, <3>1, <3>2
  <2>2. CASE k \notin ListedItems(p)
    <3>1. p = q /\ k = i
      BY <1>6, <1>7, <2>2
    <3>2. n + 1 \in 1 .. n + 1
      BY <1>4
    <3> QED
      BY <1>8, <1>10, <3>1, <3>2
  <2> QED
    BY <2>1, <2>2
<1>14. \A j \in 1 .. n + 1 : table'[t][j].wq = PollQueues[j] /\ Entry(t, table[t][j], Filled(t, j))'
  <2> TAKE j \in 1 .. n + 1
  <2>1. CASE j = n + 1
    <3>1. e.item \in ListedItems(e.wq)' /\ ~Filled(t, j)'
      BY <1>2, <1>7, <1>9, <1>10, <2>1 DEF Filled
    <3> QED
      BY <1>3, <1>9, <1>10, <2>1, <3>1 DEF Entry
  <2>2. CASE j # n + 1
    <3>1. j \in 1 .. n
      BY <1>4, <2>2
    <3>2. /\ table'[t][j] = table[t][j] /\ table[t][j].wq = PollQueues[j] /\ PollQueues[j] # q
          /\ Entry(t, table[t][j], Filled(t, j)) /\ PollQueues[j] \in WaitQueue
      BY <1>1, <1>3, <1>4, <1>10, <3>1, QueuesOf DEF PollTable
    <3>3. Filled(t, j)
      BY <1>2 DEF Filled
    <3>4. ListedItems(table[t][j].wq)' = ListedItems(table[t][j].wq)
      <4>1. ListedItems(PollQueues[j])' = ListedItems(PollQueues[j])
        BY <1>0, <1>6, <3>2
      <4> QED
        BY <1>0, <3>2, <4>1
    <3> QED
      BY <1>6, <3>2, <3>3, <3>4 DEF Entry
  <2> QED
    BY <2>1, <2>2
<1>15. PollTable(t)'
  BY <1>0, <1>10, <1>12, <1>13, <1>14 DEF PollTable
<1>16. used' \subseteq Item
  BY <1>5, <1>7
<1> QED
  BY <1>0, <1>1, <1>6, <1>11, <1>15, <1>16, PollKeeps DEF Polling, TypeInv

(* The item is told whose it is.                                           *)
LEMMA PollFillsKeeps ==
    ASSUME QueueInv, NEW t \in Thread, PollFills(t)
    PROVE  QueueInv'
<1>0. /\ UNCHANGED <<threadsVars, dev, job, wq, links, used, bits, pbits, table, stage>>
      /\ TypeInv /\ ChainInv /\ RunInv /\ PollQueues' = PollQueues
  BY DEF PollFills, poll_fills, Quiet, QueueInv, PollQueues
<1>p. PICK to \in {"poll", "tested"} : /\ Moves(t, "linked", to)
                                       /\ to = IF AllLinked(t) THEN "poll" ELSE "tested"
  BY DEF PollFills
<1>1. job[t] = "poll" /\ PollTable(t)
  <2>1. pc[t] = "linked"
    BY <1>p DEF Moves
  <2>2. job[t] = "poll"
    BY <1>0, <2>1, PlaceTells DEF Polling
  <2> QED
    BY <2>2 DEF QueueInv, PollInv
<1>2. pc[t] = "linked" /\ pc'[t] = to
  BY <1>p, <1>1, PollStep DEF Polling
<1>3. PICK n, i : n = Len(table[t]) /\ i = table[t][n].item
  OBVIOUS
<1>4. /\ n \in 1 .. Len(PollQueues) /\ i \in Item
      /\ item' = [item EXCEPT ![i] = [poll |-> TRUE, tid |-> t]]
      /\ \A j \in 1 .. n : table[t][j] \in [item : Item, wq : WaitQueue]
  <2>1. n \in 1 .. Len(PollQueues) /\ n \in 1 .. n
    BY <1>1, <1>2, <1>3, QueuesOf DEF PollTable, TableLength
  <2>2. \A j \in 1 .. n : table[t][j] \in [item : Item, wq : WaitQueue]
    BY <1>0, <1>3, ElementOfSeq DEF TypeInv, Entries
  <2> QED
    BY <1>3, <2>1, <2>2 DEF PollFills, poll_fills
<1>5. /\ item' \in [Item -> [poll : BOOLEAN, tid : Thread \cup {NoThread}]]
      /\ item'[i] = [poll |-> TRUE, tid |-> t]
      /\ \A k \in Item : k # i => item'[k] = item[k]
  BY <1>0, <1>4 DEF TypeInv
<1>6. \A k \in Item : item'[k].poll => item'[k].tid \in Thread
  BY <1>0, <1>5 DEF TypeInv
<1>7. ChainInv' /\ \A q \in WaitQueue : ListedItems(q)' = ListedItems(q)
  BY <1>0, ChainInvKept
<1>8. Own(t)'
  BY <1>0, <1>1, <1>7 DEF PollTable, Own
<1>9. TableLength(t)'
  BY <1>0, <1>2, <1>3, <1>4, <1>p, QueuesOf DEF TableLength, AllLinked
<1>10. \A j \in 1 .. n : Entry(t, table[t][j], Filled(t, j))'
  <2> TAKE j \in 1 .. n
  <2>1. Entry(t, table[t][j], Filled(t, j)) /\ ListedItems(table[t][j].wq)' = ListedItems(table[t][j].wq)
    BY <1>0, <1>1, <1>3, <1>4, <1>7 DEF PollTable
  <2>2. CASE table[t][j].item = i
    BY <1>0, <1>5, <2>1, <2>2 DEF Entry
  <2>3. CASE table[t][j].item # i
    <3>1. j # n
      BY <1>3, <2>3
    <3>2. Filled(t, j) /\ item'[table[t][j].item] = item[table[t][j].item]
      BY <1>3, <1>4, <1>5, <2>3, <3>1 DEF Filled
    <3> QED
      BY <1>0, <2>1, <3>2 DEF Entry
  <2> QED
    BY <2>2, <2>3
<1>11. PollTable(t)'
  BY <1>0, <1>1, <1>3, <1>8, <1>9, <1>10 DEF PollTable
<1>12. signalled' \subseteq Thread
  BY <1>0 DEF PollFills, poll_fills, TypeInv
<1> QED
  BY <1>0, <1>1, <1>5, <1>6, <1>7, <1>11, <1>12, <1>p, PollKeeps DEF Polling, TypeInv

(* poll sleeps.                                                            *)
LEMMA PollSleepsKeeps ==
    ASSUME QueueInv, NEW t \in Thread, PollSleeps(t)
    PROVE  QueueInv'
<1>0. TypeInv /\ ThreadsTypeOK /\ RunInv /\ JobInv /\ UNCHANGED <<dev, job>> /\ Moves(t, "pollz", "polled")
  BY DEF QueueInv, TypeInv, PollSleeps, Quiet
<1>1. job[t] = "poll"
  BY <1>0, PlaceTells DEF Moves, Polling
<1>2. /\ pc[t] = "pollz" /\ pc'[t] = "polled" /\ current = t /\ pc' \in [Thread -> Place]
      /\ \A u \in Thread : u # t => pc[u] = "app" /\ pc'[u] = "app"
      /\ \A u \in Thread : pc'[u] \in {"app"} \cup PlaceOf(job[u])
  BY <1>0, <1>1, PollStep DEF Polling
<1>3. PICK m \in PollTimes : poll_sleep(m)
  BY DEF PollSleeps
<1>4. /\ Block({"COMPLETION"}, m) /\ stage' = "io" /\ m \in Nat
      /\ UNCHANGED <<wq, links, used, item, bits, pbits, table, signalled>>
  BY <1>3, DriversAssumption DEF poll_sleep
<1>5. ThreadsTypeOK' /\ current' = NoThread
  BY <1>0, <1>4, BlockType
<1>6. TypeInv'
  BY <1>0, <1>2, <1>4, <1>5 DEF TypeInv
<1>7. RunInv'
  <2>1. \A u \in Thread : pc'[u] \notin Busy
    BY <1>2 DEF Busy
  <2> QED
    BY <1>0, <1>2, <1>5, <2>1 DEF RunInv
<1>8. \A u \in Thread : /\ pc'[u] \notin {"rd", "wr"}
                        /\ pc'[u] = pc[u] \/ {pc[u], pc'[u]} \subseteq {"poll", "pollz", "polled"}
  BY <1>2
<1> QED
  BY <1>0, <1>4, <1>6, <1>7, <1>8, LocalKeeps

(* poll returns, and takes back its items.                                 *)
LEMMA PollReturnsKeeps ==
    ASSUME QueueInv, NEW t \in Thread, PollReturns(t)
    PROVE  QueueInv'
<1>0. /\ TypeInv /\ RunInv /\ JobInv /\ ChainInv /\ used \subseteq Item /\ cleanup(t)
      /\ UNCHANGED <<threadsVars, dev, job>> /\ table \in [Thread -> Entries]
  BY DEF QueueInv, TypeInv, PollReturns, Quiet
<1>p. PICK at \in {"poll", "polled"} : Moves(t, at, "app")
  BY DEF PollReturns
<1>1. job[t] = "poll"
  BY <1>0, <1>p, PlaceTells DEF Moves, Polling
<1>2. pc[t] = at /\ pc'[t] = "app"
  BY <1>1, <1>p, PollStep
<1>3. PollTable(t) /\ table[t] \in Entries
  BY <1>0, <1>1 DEF QueueInv, PollInv
<1>4. /\ Len(table[t]) \in {1, 2} /\ table[t][1].wq = "r"
      /\ Len(table[t]) = 2 => table[t][2].wq = "w"
  <2>1. Len(table[t]) = Len(PollQueues)
    BY <1>2, <1>3 DEF PollTable, TableLength
  <2>2. 1 \in 1 .. Len(table[t]) /\ (Len(table[t]) = 2 => 2 \in 1 .. Len(table[t]))
    BY <2>1, QueuesOf
  <2> QED
    BY <1>3, <2>1, <2>2, QueuesOf DEF PollTable
<1>5. Own(t) /\ \A j \in 1 .. Len(table[t]) : Entry(t, table[t][j], TRUE)
  <2>1. \A j \in 1 .. Len(table[t]) : Filled(t, j) = TRUE
    BY <1>2 DEF Filled
  <2> QED
    BY <1>3, <2>1 DEF PollTable
<1>6. ChainInv' /\ used' \subseteq used /\ \A q \in WaitQueue : ListedItems(q)' = {}
  BY <1>0, <1>3, <1>4, <1>5, CleanupEffect
<1>7. /\ table' = [table EXCEPT ![t] = <<>>] /\ signalled' = signalled \ {t}
      /\ UNCHANGED <<item, bits, pbits, stage>>
  BY <1>0 DEF cleanup
<1>8. <<>> \in Entries /\ Len(<<>>) = 0
  BY DEF Entries
<1>9. table' \in [Thread -> Entries] /\ table'[t] = <<>>
  BY <1>0, <1>7, <1>8
<1>10. PollTable(t)'
  <2>1. TableLength(t)'
    BY <1>2, <1>8, <1>9 DEF TableLength
  <2>2. Own(t)'
    BY <1>6 DEF Own
  <2> QED
    BY <1>8, <1>9, <2>1, <2>2 DEF PollTable
<1>11. used' \subseteq Item /\ signalled' \subseteq Thread
  BY <1>0, <1>6, <1>7 DEF TypeInv
<1> QED
  BY <1>0, <1>1, <1>6, <1>7, <1>9, <1>10, <1>11, <1>p, PollKeeps DEF TypeInv

(* A thread gives the processor up.                                        *)
LEMMA GivesUpKeeps ==
    ASSUME QueueInv, NEW t \in Thread, GivesUp(t)
    PROVE  QueueInv'
<1>0. /\ TypeInv /\ ThreadsTypeOK /\ RunInv /\ Yield /\ stage' = "io" /\ UNCHANGED <<dev, job>>
      /\ UNCHANGED <<wq, links, used, item, bits, pbits, table, signalled>>
  BY DEF QueueInv, TypeInv, GivesUp, Quiet
<1>1. current = t /\ pc[t] = "app" /\ pc' = pc
  BY <1>0 DEF GivesUp, Moves, TypeInv
<1>2. ThreadsTypeOK' /\ current' = NoThread /\ \A u \in Thread : Asleep(u)' => Asleep(u)
  BY <1>0, YieldType
<1>3. TypeInv'
  BY <1>0, <1>1, <1>2 DEF TypeInv
<1>4. RunInv'
  <2>1. \A u \in Thread : pc'[u] \notin Busy
    BY <1>0, <1>1 DEF RunInv, Busy
  <2> QED
    BY <1>0, <1>1, <1>2, <2>1 DEF RunInv
<1> QED
  BY <1>0, <1>1, <1>2, <1>3, <1>4, LocalKeeps

(* cancel_io_waits takes the items of the thread that is killed, and no    *)
(* others.                                                                 *)
LEMMA KillKeeps ==
    ASSUME ~Aliases, QueueInv, NEW t \in Thread, KillWaiter(t)
    PROVE  QueueInv'
<1>0. /\ TypeInv /\ ThreadsTypeOK /\ RunInv /\ ChainInv /\ used \subseteq Item /\ "r" \in WaitQueue
      /\ "w" \in WaitQueue /\ UNCHANGED <<dev, job, pc>> /\ cancel_io_waits(t)
      /\ current # NoThread => status[current] = "RUNNING"
  BY DriversAssumption DEF QueueInv, TypeInv, RunInv, KillWaiter, driverVars
<1>1. ThreadsTypeOK' /\ Woken /\ current' = current /\ ~Asleep(t)'
  BY <1>0, KillType DEF KillWaiter
<1>2. /\ ChainInv' /\ used' \subseteq used /\ bits' = bits \ {t}
      /\ \A q \in WaitQueue :
            /\ ListedItems(q)' \subseteq ListedItems(q)
            /\ \A i \in ListedItems(q) : item[i] # [poll |-> FALSE, tid |-> t] => i \in ListedItems(q)'
  BY <1>0, CancelEffect
<1>3. UNCHANGED <<item, pbits, table, signalled, stage>>
  BY <1>0, CancelEffect
<1>4. TypeInv'
  BY <1>0, <1>1, <1>2, <1>3 DEF TypeInv
<1>5. RunInv' /\ JobInv'
  BY <1>0, <1>1, <1>3 DEF QueueInv, RunInv, JobInv, Woken
<1>6. SleepInv'
  <2> SUFFICES ASSUME NEW u \in Thread, Asleep(u)'
               PROVE  /\ Reading(u)' => u \in bits' \/ Waiting(u, "r")'
                      /\ Writing(u)' => u \in bits' \/ Waiting(u, "w")'
    BY DEF SleepInv, Reading, Writing
  <2>1. u # t /\ Asleep(u)
    BY <1>1 DEF Woken
  <2>2. \A q \in WaitQueue : Waiting(u, q) => Waiting(u, q)'
    <3> SUFFICES ASSUME NEW q \in WaitQueue, NEW i \in ListedItems(q), item[i] = [poll |-> FALSE, tid |-> u]
                 PROVE  Waiting(u, q)'
      BY DEF Waiting
    <3>1. item[i].tid = u /\ item[i] # [poll |-> FALSE, tid |-> t]
      BY <2>1
    <3>2. i \in ListedItems(q)'
      BY <1>2, <3>1
    <3> QED
      BY <1>3, <3>2 DEF Waiting
  <2>3. (Reading(u)' => Reading(u)) /\ (Writing(u)' => Writing(u))
    BY <1>0, <2>1 DEF Reading, Writing
  <2> QED
    BY <1>0, <1>2, <2>1, <2>2, <2>3 DEF QueueInv, SleepInv
<1>7. PollInv'
  <2> SUFFICES ASSUME NEW u \in Thread, job[u] = "poll" PROVE PollTable(u)'
    BY <1>0 DEF PollInv
  <2>1. PollTable(u) /\ PollQueues' = PollQueues
    BY <1>0 DEF QueueInv, PollInv, PollQueues
  <2>2. \A j \in 1 .. Len(table[u]) : table[u][j] \in [item : Item, wq : WaitQueue]
    BY ElementOfSeq DEF QueueInv, TypeInv, Entries
  <2>3. Own(u)' /\ TableLength(u)'
    BY <1>0, <1>2, <1>3, <2>1 DEF PollTable, Own, TableLength
  <2>4. \A j \in 1 .. Len(table[u]) : Filled(u, j) /\ Filled(u, j)'
    <3>1. pc[u] # "linked"
      BY <1>0 DEF RunInv, Busy, KillWaiter
    <3> QED
      BY <1>0, <3>1 DEF Filled
  <2>5. ASSUME NEW j \in 1 .. Len(table[u]) PROVE Entry(u, table[u][j], Filled(u, j))'
    <3>1. PICK e : e = table[u][j] /\ e \in [item : Item, wq : WaitQueue]
      BY <2>2
    <3>2. Entry(u, e, TRUE)
      BY <2>1, <2>4, <3>1 DEF PollTable, Entry
    <3>3. CASE ListedItems(e.wq) = {}
      BY <1>2, <1>3, <3>1, <3>3 DEF Entry
    <3>4. CASE e.item \in ListedItems(e.wq) /\ item[e.item] = [poll |-> TRUE, tid |-> u]
      <4>1. item[e.item].poll = TRUE
        BY <3>4
      <4>2. item[e.item] # [poll |-> FALSE, tid |-> t]
        BY <4>1
      <4>3. e.item \in ListedItems(e.wq)'
        BY <1>2, <3>1, <3>4, <4>2
      <4> QED
        BY <1>3, <3>1, <3>4, <4>3 DEF Entry
    <3> QED
      BY <3>2, <3>3, <3>4 DEF Entry
  <2> QED
    BY <1>3, <2>1, <2>3, <2>5 DEF PollTable
<1> QED
  BY <1>2, <1>4, <1>5, <1>6, <1>7 DEF QueueInv

(* Nothing of the threads and of the I/O waits changes.                    *)
LEMMA StillKeeps ==
    ASSUME QueueInv, UNCHANGED <<threadsVars, ioVars, dev, job, pc>>
    PROVE  QueueInv'
<1>1. /\ UNCHANGED <<current, status, waits, wake, doomed, now>>
      /\ UNCHANGED <<wq, links, used, item, bits, pbits, table, signalled, stage>>
  BY DEF threadsVars, ioVars
<1>2. ThreadsTypeOK' /\ Woken
  BY <1>1 DEF QueueInv, TypeInv, RunInv, ThreadsTypeOK, Woken, Asleep
<1>3. current' # NoThread => stage' = "done"
  BY <1>1 DEF QueueInv, RunInv
<1> QED
  BY <1>1, <1>2, <1>3, WokenKeeps DEF QueueInv, TypeInv

(* The interrupts of the receivers.                                        *)
LEMMA ReceiveKeeps ==
    ASSUME QueueInv, NEW n, NEW m, NEW b, Receive(n, m, b)
    PROVE  QueueInv'
<1>1. UNCHANGED <<threadsVars, dev, job, pc>> /\ (thread_io_resume("r") \/ UNCHANGED ioVars)
  BY DEF Receive, Quiet
<1>2. "r" \in WaitQueue
  BY DriversAssumption
<1> QED
  BY <1>1, <1>2, ResumeKeeps, StillKeeps

(* All the interrupts.                                                     *)
LEMMA InterruptKeeps ==
    ASSUME QueueInv, Interrupt
    PROVE  QueueInv'
<1>1. CASE uart_handle_recv_data_fifo
  BY <1>1, ReceiveKeeps DEF uart_handle_recv_data_fifo
<1>2. CASE uart_handle_recv_data_timeout
  BY <1>2, ReceiveKeeps DEF uart_handle_recv_data_timeout
<1>3. CASE kbd_interrupt
  BY <1>3, ReceiveKeeps DEF kbd_interrupt
<1>4. CASE mse_interrupt
  BY <1>4, ReceiveKeeps DEF mse_interrupt
<1>5. CASE uart_handle_tx_data
  <2>1. thread_io_resume("w") /\ UNCHANGED <<threadsVars, dev, job, pc>> /\ "w" \in WaitQueue
    BY <1>5, DriversAssumption DEF uart_handle_tx_data, Quiet
  <2> QED
    BY <2>1, ResumeKeeps
<1> QED
  BY <1>1, <1>2, <1>3, <1>4, <1>5 DEF Interrupt

(* The passes of the scheduler.                                            *)
LEMMA PassKeeps ==
    ASSUME QueueInv, Pass
    PROVE  QueueInv'
<1>0. /\ ThreadsTypeOK /\ (current # NoThread => status[current] = "RUNNING" /\ stage = "done")
      /\ bits \subseteq Thread /\ pbits \subseteq Thread /\ stage \in {"io", "poll", "done"}
  BY DEF QueueInv, TypeInv, RunInv
<1>1. CASE ResumeIo /\ UNCHANGED driverVars
  <2>1. /\ Wake("COMPLETION", bits) /\ bits' = {} /\ stage' = "poll" /\ UNCHANGED <<dev, job, pc>>
        /\ UNCHANGED <<wq, links, used, item, pbits, table, signalled>>
    BY <1>1 DEF ResumeIo, driverVars
  <2>2. ThreadsTypeOK' /\ Woken /\ \A u \in bits : ~Asleep(u)'
    BY <1>0, <2>1, WakeType
  <2>3. current' = NoThread
    BY <1>0, <1>1, <2>1 DEF ResumeIo, Wake
  <2> QED
    BY <1>0, <2>1, <2>2, <2>3, WokenKeeps
<1>2. CASE ResumePoll /\ UNCHANGED driverVars
  <2>1. /\ Wake("COMPLETION", Polled(pbits)) /\ pbits' = {} /\ stage' = "done" /\ UNCHANGED <<dev, job, pc>>
        /\ UNCHANGED <<wq, links, used, item, bits, table, signalled>>
    BY <1>2 DEF ResumePoll, driverVars
  <2>2. ThreadsTypeOK' /\ Woken
    BY <1>0, <2>1, WakeType
  <2>3. current' = NoThread
    BY <1>0, <1>2, <2>1 DEF ResumePoll, Wake
  <2> QED
    BY <1>0, <2>1, <2>2, <2>3, WokenKeeps
<1>3. CASE current = NoThread /\ stage' = "io" /\ UNCHANGED <<threadsVars, wq, links, used, item, bits, pbits, table, signalled, driverVars>>
  <2>1. ThreadsTypeOK' /\ Woken /\ current' = NoThread
    BY <1>0, <1>3 DEF ThreadsTypeOK, Woken, Asleep, threadsVars
  <2> QED
    BY <1>0, <1>3, <2>1, WokenKeeps DEF driverVars
<1>4. ASSUME stage = "done", NEW t \in Thread, Timeout(t) \/ Dispatch(t) \/ Bury(t), UNCHANGED <<ioVars, driverVars>>
      PROVE  QueueInv'
  <2>1. ThreadsTypeOK' /\ Woken
    BY <1>0, <1>4, PassType
  <2> QED
    BY <1>0, <1>4, <2>1, WokenKeeps DEF ioVars, driverVars
<1> QED
  BY <1>1, <1>2, <1>3, <1>4 DEF Pass

(* The clock.                                                              *)
LEMMA TickKeeps ==
    ASSUME QueueInv, Tick, UNCHANGED <<ioVars, driverVars>>
    PROVE  QueueInv'
<1>1. ThreadsTypeOK' /\ Woken
  BY BoundAssumption DEF QueueInv, TypeInv, RunInv, ThreadsTypeOK, Tick, Woken, Asleep
<1>2. current' # NoThread => stage' = "done"
  BY DEF QueueInv, RunInv, Tick, ioVars
<1> QED
  BY <1>1, <1>2, WokenKeeps DEF ioVars, driverVars, QueueInv, TypeInv

(* The steps of the thread that runs.                                      *)
LEMMA ThinksKeeps ==
    ASSUME QueueInv, NEW t \in Thread, Thinks(t)
    PROVE  QueueInv'
<1>0. RunInv /\ TypeInv
  BY DEF QueueInv
<1>1. CASE Calls(t)
  <2>1. UNCHANGED <<threadsVars, ioVars, dev, job>>
    BY <1>1 DEF Calls, Quiet
  <2>2. CASE Moves(t, "app", "rd") /\ job[t] = "read"
    BY <2>1, <2>2, MovesKeeps DEF PlaceOf, Place
  <2>3. CASE Moves(t, "app", "wr") /\ job[t] = "write"
    BY <2>1, <2>3, MovesKeeps DEF PlaceOf, Place
  <2> QED
    BY <1>1, <2>2, <2>3 DEF Calls
<1>2. CASE GivesUp(t)
  BY <1>2, GivesUpKeeps
<1>3. CASE StopStart(t)
  BY <1>3, MovesKeeps DEF StopStart, Quiet, Place
<1>4. CASE ReadFinds(t)
  <2>1. Moves(t, "rd", "rdz") /\ UNCHANGED <<threadsVars, ioVars, dev, job>> /\ pc[t] = "rd"
    BY <1>4 DEF ReadFinds, Quiet, Moves
  <2>2. "rdz" \in PlaceOf(job[t])
    BY <1>0, <2>1, PlaceTells DEF PlaceOf
  <2> QED
    BY <2>1, <2>2, PlaceTells, <1>0, MovesKeeps DEF Place
<1>5. CASE Waits(t, "rdz", "rd", "r")
  <2>1. /\ Moves(t, "rdz", "rd") /\ thread_io_wait("r", 0) /\ UNCHANGED <<dev, job>> /\ pc[t] = "rdz"
    BY <1>5 DEF Waits, Quiet, Moves
  <2>2. job[t] = "read"
    BY <1>0, <2>1, PlaceTells
  <2> QED
    BY <2>1, <2>2, WaitKeeps
<1>6. ASSUME NEW n \in Bytes, ReadCopies(t, n) PROVE QueueInv'
  <2>1. Moves(t, "rd", "app") /\ UNCHANGED <<threadsVars, ioVars, dev, job>> /\ pc[t] = "rd"
    BY <1>6 DEF ReadCopies, Quiet, Moves
  <2> QED
    BY <1>0, <2>1, PlaceTells, MovesKeeps DEF Place
<1>7. CASE WriteFinds(t)
  <2>1. Moves(t, "wr", "wrz") /\ UNCHANGED <<threadsVars, ioVars, dev, job>> /\ pc[t] = "wr"
    BY <1>7 DEF WriteFinds, Quiet, Moves
  <2>2. "wrz" \in PlaceOf(job[t])
    BY <1>0, <2>1, PlaceTells DEF PlaceOf
  <2> QED
    BY <2>1, <2>2, PlaceTells, <1>0, MovesKeeps DEF Place
<1>8. CASE Waits(t, "wrz", "wr", "w")
  <2>1. /\ Moves(t, "wrz", "wr") /\ thread_io_wait("w", 0) /\ UNCHANGED <<dev, job>> /\ pc[t] = "wrz"
    BY <1>8 DEF Waits, Quiet, Moves
  <2>2. job[t] = "write"
    BY <1>0, <2>1, PlaceTells
  <2> QED
    BY <2>1, <2>2, WaitKeeps
<1>9. CASE WriteCopies(t)
  <2>1. PICK to \in {"app", "wr"} : Moves(t, "wr", to)
    BY <1>9 DEF WriteCopies
  <2>2. UNCHANGED <<threadsVars, ioVars, dev, job>> /\ pc[t] = "wr"
    BY <1>9, <2>1 DEF WriteCopies, Quiet, Moves
  <2>3. "wr" \in PlaceOf(job[t])
    BY <1>0, <2>2, PlaceTells DEF PlaceOf
  <2> QED
    BY <1>0, <2>1, <2>2, <2>3, PlaceTells, MovesKeeps DEF Place
<1>10. CASE PollTests(t) \/ PollLinks(t) \/ PollFills(t)
  BY <1>10, PollTestsKeeps, PollLinksKeeps, PollFillsKeeps
<1>15. CASE PollLooks(t)
  <2>1. Moves(t, "poll", "pollz") /\ UNCHANGED <<threadsVars, ioVars, dev, job>> /\ pc[t] = "poll"
    BY <1>15 DEF PollLooks, Quiet, Moves
  <2>2. "pollz" \in PlaceOf(job[t])
    BY <1>0, <2>1, PlaceTells DEF PlaceOf, Polling
  <2> QED
    BY <2>1, <2>2, MovesKeeps DEF Place
<1>11. CASE PollSleeps(t)
  BY <1>11, PollSleepsKeeps
<1>12. CASE PollReturns(t)
  BY <1>12, PollReturnsKeeps
<1>13. CASE TimedWaits(t)
  <2>1. Moves(t, "app", "timed") /\ thread_io_wait("r", 1) /\ UNCHANGED <<dev, job>> /\ job[t] = "timed"
    BY <1>13 DEF TimedWaits, Quiet
  <2> QED
    BY <2>1, WaitKeeps
<1>14. CASE TimedReturns(t)
  <2>1. Moves(t, "timed", "app") /\ UNCHANGED <<threadsVars, ioVars, dev, job>> /\ pc[t] = "timed"
    BY <1>14 DEF TimedReturns, Quiet, Moves
  <2> QED
    BY <1>0, <2>1, PlaceTells, MovesKeeps DEF Place
<1> QED
  BY <1>1, <1>2, <1>3, <1>4, <1>5, <1>6, <1>7, <1>8, <1>9, <1>10, <1>11, <1>12, <1>13, <1>14, <1>15 DEF Thinks

(* Every step keeps the wait queues.                                       *)
LEMMA NextQueueInv ==
    ASSUME ~Aliases, QueueInv, [Next]_vars
    PROVE  QueueInv'
<1>1. CASE LineReceives
  BY <1>1, StillKeeps DEF LineReceives, Quiet
<1>2. CASE Interrupt
  BY <1>2, InterruptKeeps
<1>3. CASE Pass
  BY <1>3, PassKeeps
<1>4. CASE Tick /\ UNCHANGED <<ioVars, driverVars>>
  BY <1>4, TickKeeps
<1>5. ASSUME NEW t \in Thread, Thinks(t) \/ KillWaiter(t) PROVE QueueInv'
  BY <1>5, ThinksKeeps, KillKeeps
<1>6. CASE UNCHANGED vars
  BY <1>6, StillKeeps DEF vars, driverVars
<1> QED
  BY <1>1, <1>2, <1>3, <1>4, <1>5, <1>6 DEF Next

(* The queues start empty.                                                 *)
LEMMA InitQueueInv ==
    ASSUME ~Sharing, Init
    PROVE  QueueInv
<1>1. /\ IoInit /\ ThreadsInit /\ status = [t \in Thread |-> "READY"] /\ pc = [t \in Thread |-> "app"]
      /\ wq = [q \in WaitQueue |-> list_init] /\ links = NoLinks /\ used = {}
  BY DEF Init, IoInit
<1>2. TypeInv
  <2>1. ThreadsTypeOK
    BY <1>1 DEF ThreadsInit, ThreadsTypeOK, Status
  <2>2. <<>> \in Entries
    BY DEF Entries
  <2> QED
    BY <1>1, <2>1, <2>2 DEF IoInit, TypeInv, Place
<1>3. RunInv /\ SleepInv
  BY <1>1 DEF IoInit, ThreadsInit, RunInv, Busy, SleepInv, Reading, Writing
<1>4. JobInv
  BY DEF Init, JobInv
<1>5. PICK S : S = [q \in WaitQueue |-> <<>>]
  OBVIOUS
<1>6. Chained(S, wq, links)
  <2>1. S \in [WaitQueue -> Seq(Item)] /\ \A q \in WaitQueue : S[q] = <<>> /\ Range(S[q]) = {}
    BY <1>5 DEF Range
  <2>2. wq \in [WaitQueue -> List] /\ links \in Links
    BY <1>1 DEF list_init, NoLinks, List, Links, Pointer
  <2>3. \A q \in WaitQueue : Holds(wq[q], links, S[q])
    BY <1>1, <2>1 DEF list_init, Holds, Linked
  <2> QED
    BY <2>1, <2>2, <2>3 DEF Chained
<1>7. \A q \in WaitQueue : Listed(q) = S[q]
  BY <1>6, ChainedListed DEF Listed
<1>8. Lists = S
  BY <1>5, <1>7 DEF Lists
<1>9. \A q \in WaitQueue : ListedItems(q) = {}
  BY <1>5, <1>7 DEF ListedItems
<1>10. PollInv
  <2>1. \A t \in Thread : table[t] = <<>> /\ pc[t] = "app" /\ Len(<<>>) = 0
    BY <1>1 DEF IoInit
  <2> QED
    BY <1>9, <2>1 DEF PollInv, PollTable, TableLength, Own
<1> QED
  BY <1>2, <1>3, <1>4, <1>6, <1>8, <1>9, <1>10 DEF QueueInv, ChainInv

(* The queues of waiting threads are whole.                                *)
LEMMA QueuesWhole == QueueInv => WaitQueuesSound
<1> SUFFICES ASSUME QueueInv PROVE WaitQueuesSound
  OBVIOUS
<1>0. TypeInv /\ ChainInv /\ SleepInv /\ "r" \in WaitQueue /\ "w" \in WaitQueue
  BY DriversAssumption DEF QueueInv
<1>1. \A q \in WaitQueue :
        /\ Listed(q) \in Seq(Item) /\ Holds(wq[q], links, Listed(q)) /\ wq[q] \in List
        /\ wq[q].counter = Len(Listed(q)) /\ ListedItems(q) \subseteq used /\ Visited(q) = ListedItems(q)
  BY <1>0, ListedIs
<1>2. \A q \in WaitQueue : wq[q].counter \in 0 .. MaxItems
  BY <1>1, HoldsSize
<1>3. \A q \in WaitQueue :
        wq[q] \in [head : Item \cup {Null}, tail : Item \cup {Null}, counter : 0 .. MaxItems]
  BY <1>1, <1>2 DEF List, Pointer
<1>4. \A t \in Thread : \A j \in DOMAIN table[t] : table[t][j] \in [item : Item, wq : WaitQueue]
  <2> TAKE t \in Thread
  <2>1. table[t] \in Seq([item : Item, wq : WaitQueue])
    BY <1>0 DEF TypeInv, Entries
  <2>2. DOMAIN table[t] = 1 .. Len(table[t])
    BY <2>1, LenProperties
  <2> QED
    BY <2>1, <2>2, ElementOfSeq
<1>5. CallersTypeOK
  BY <1>0, <1>3, <1>4 DEF CallersTypeOK, IoTypeOK, TypeInv
<1>6. QueuesCounted
  BY <1>1 DEF QueuesCounted
<1>7. SleeperReached
  <2> SUFFICES ASSUME NEW t \in Thread, Reading(t) \/ Writing(t), t \notin bits
               PROVE  LET q == IF Reading(t) THEN "r" ELSE "w"
                      IN  \E i \in Visited(q) : i \in used /\ item[i] = [poll |-> FALSE, tid |-> t]
    BY DEF SleeperReached
  <2>1. CASE Reading(t)
    BY <1>0, <1>1, <2>1 DEF SleepInv, Waiting
  <2>2. CASE ~Reading(t)
    BY <1>0, <1>1, <2>2 DEF SleepInv, Waiting
  <2> QED
    BY <2>1, <2>2
<1> QED
  BY <1>5, <1>6, <1>7 DEF WaitQueuesSound

(* io_waits.c and poll.c: the counter of a wait queue, by which            *)
(* thread_io_resume alone knows when to stop, is the number of items its   *)
(* links lead to, each of them allocated; and a thread asleep in a read or *)
(* a write is marked, or has an item there that the next interrupt         *)
(* reaches.  For any number of threads and items, if threads that share a  *)
(* device do the same with it and do not poll, and no address of a poll    *)
(* table ends in the number of a thread; timeouts, kills and interrupts    *)
(* at any point of a read, a write or a poll included.                     *)
THEOREM WaitQueuesAreSound ==
    ASSUME ~Sharing, ~Aliases
    PROVE  Spec => []WaitQueuesSound
<1>1. Init => QueueInv
  BY InitQueueInv
<1>2. QueueInv /\ [Next]_vars => QueueInv'
  BY NextQueueInv
<1>3. QueueInv => WaitQueuesSound
  BY QueuesWhole
<1> QED
  BY <1>1, <1>2, <1>3, PTL DEF Spec

(***************************************************************************)
(* The inductive invariant of the marks, on top of those of the rings and  *)
(* of the wait queues.                                                     *)
(***************************************************************************)

(* What a caller found when it tested the ring still holds when it sleeps. *)
TestInv ==
    \A t \in Thread : /\ pc[t] = "rdz" => cbuffer_is_empty(rx)
                      /\ pc[t] = "wrz" => cbuffer_free_space(tx) < TX_SEQ_MAX

(* Bytes to send keep the transmitter interrupt enabled, and are a         *)
(* writer's.                                                               *)
SendInv == ~cbuffer_is_empty(tx) => etbei /\ \E t \in Thread : job[t] = "write"

(* A poll has been told of an event: it is signalled, or will be, as the   *)
(* driver's test has found it.                                             *)
Told(t) ==
    \/ t \in signalled
    \/ pc[t] \in {"tested", "linked"} /\ result[t] = "found"

(* It has looked, and will sleep or does.                                  *)
Due(t) == pc[t] = "pollz" \/ (Asleep(t) /\ pc[t] = "polled")

(* A poll is told of events, and a poll that was signalled after it looked *)
(* is marked.                                                              *)
SignalInv ==
    \A t \in Thread :
        /\ Event /\ pc[t] \in Polling => Told(t)
        /\ Due(t) /\ t \in signalled => t \in pbits
MarkInv == TestInv /\ SendInv /\ SignalInv /\ ReaderMarked /\ WriterMarked

(* The thread that runs is not asleep, and nobody else is between a test   *)
(* and a wait.                                                             *)
LEMMA RunnerMoves ==
    ASSUME QueueInv, NEW t \in Thread, NEW at, NEW to, Moves(t, at, to)
    PROVE  /\ ~Asleep(t) /\ pc[t] = at /\ pc'[t] = to
           /\ \A u \in Thread : u # t => pc'[u] = pc[u] /\ pc[u] \notin Busy
<1>1. status[t] = "RUNNING"
  BY NoThreadAssumption DEF Moves, QueueInv, RunInv
<1>2. pc[t] = at /\ pc'[t] = to /\ \A u \in Thread : u # t => pc'[u] = pc[u]
  BY DEF Moves, QueueInv, TypeInv
<1> QED
  BY <1>1, <1>2 DEF Asleep, Moves, QueueInv, RunInv

(* The item of a poll in the queue for input stays there until the poll is *)
(* signalled.                                                              *)
HeldInv ==
    \A t \in Thread :
        pc[t] \in Polling /\ table[t] # <<>> /\ t \notin signalled => ListedItems("r") # {}

Result == {"none", "found", "empty", "slept", "ready", "timedout"}
ResultInv == result \in [Thread -> Result]

(* What a poll found or returned is one of these.                          *)
LEMMA NextResultInv == ResultInv /\ [Next]_vars => ResultInv'
<1> SUFFICES ASSUME ResultInv, [Next]_vars PROVE ResultInv'
  OBVIOUS
<1>1. ASSUME NEW t \in Thread, NEW v \in Result, result' = [result EXCEPT ![t] = v] PROVE ResultInv'
  BY <1>1 DEF ResultInv
<1>2. ASSUME NEW t \in Thread, Thinks(t) PROVE ResultInv'
  <2>1. CASE PollTests(t) \/ PollSleeps(t) \/ PollReturns(t) \/ TimedReturns(t)
    <3>1. \E v \in Result : result' = [result EXCEPT ![t] = v]
      BY <2>1 DEF PollTests, PollSleeps, PollReturns, TimedReturns, Result
    <3> QED
      BY <1>1, <3>1
  <2>2. CASE result' = result
    BY <2>2 DEF ResultInv
  <2> QED
    BY <1>2, <2>1, <2>2 DEF Thinks, Calls, GivesUp, StopStart, ReadFinds, Waits, ReadCopies, WriteFinds,
        WriteCopies, PollLinks, PollFills, PollLooks, TimedWaits
<1>3. CASE UNCHANGED result
  BY <1>3 DEF ResultInv
<1>4. LineReceives \/ Interrupt \/ Pass \/ UNCHANGED driverVars => UNCHANGED result
  BY DEF LineReceives, Interrupt, Pass, driverVars, Receive, uart_handle_recv_data_fifo,
        uart_handle_recv_data_timeout, uart_handle_tx_data, kbd_interrupt, mse_interrupt
<1>5. ASSUME NEW t \in Thread, KillWaiter(t) PROVE UNCHANGED result
  BY <1>5 DEF KillWaiter, driverVars
<1> QED
  BY <1>2, <1>3, <1>4, <1>5 DEF Next, vars

(* Beside a thread that reads, writes or waits nobody polls.               *)
LEMMA NoPoller ==
    ASSUME RunInv, JobInv, NEW t \in Thread, job[t] \in {"read", "write", "timed"}, NEW u \in Thread
    PROVE  pc[u] \notin Polling
<1>1. pc[u] \in Polling => job[u] = "poll"
  BY PlaceTells
<1> QED
  BY <1>1 DEF JobInv

(* The first entry of a poll's table: its item is filled and in the queue  *)
(* for input, unless that is empty.                                        *)
LEMMA FirstEntry ==
    ASSUME QueueInv, NEW u \in Thread, pc[u] \in Polling, table[u] # <<>>, ~Unready(u),
           ListedItems("r") # {}
    PROVE  \E i \in ListedItems("r") : item[i] = [poll |-> TRUE, tid |-> u]
<1>1. table[u] \in Entries /\ PollTable(u)
  <2>1. job[u] = "poll"
    BY PlaceTells DEF QueueInv
  <2> QED
    BY <2>1 DEF QueueInv, TypeInv, PollInv
<1>2. Len(table[u]) \in Nat \ {0}
  BY <1>1, EmptySeq, LenProperties DEF Entries
<1>3. PICK e : e = table[u][1]
  OBVIOUS
<1>4. e.wq = "r" /\ Entry(u, e, Filled(u, 1))
  <2>1. 1 \in 1 .. Len(table[u])
    BY <1>2
  <2> QED
    BY <1>1, <1>3, <2>1, QueuesOf DEF PollTable
<1>5. Filled(u, 1)
  BY <1>2 DEF Filled, Unready
<1> QED
  BY <1>4, <1>5 DEF Entry

(* A poll that registered for input is signalled when that queue is        *)
(* resumed.                                                                *)
LEMMA ResumeReaches ==
    ASSUME QueueInv, HeldInv, NEW u \in Thread, pc[u] \in Polling, ~Unready(u), thread_io_resume("r")
    PROVE  u \in signalled'
<1>1. table[u] # <<>>
  <2>1. job[u] = "poll" /\ Len(<<>>) = 0
    BY PlaceTells DEF QueueInv
  <2>2. TableLength(u)
    BY <2>1 DEF QueueInv, PollInv, PollTable
  <2> QED
    BY <2>1, <2>2, QueuesOf DEF TableLength, Unready, Polling
<1>2. signalled' = signalled \cup Pollers("r")
  BY ResumeEffect, DriversAssumption DEF QueueInv, TypeInv
<1>3. CASE u \in signalled
  BY <1>2, <1>3
<1>4. CASE u \notin signalled
  <2>1. PICK i \in ListedItems("r") : item[i] = [poll |-> TRUE, tid |-> u]
    BY <1>1, <1>4, FirstEntry DEF HeldInv
  <2>2. item[i].poll /\ item[i].tid = u
    BY <2>1
  <2> QED
    BY <1>2, <2>2 DEF Pollers
<1> QED
  BY <1>3, <1>4

(* A step that leaves the queues and tables alone.                         *)
LEMMA QuietHeld ==
    ASSUME HeldInv, UNCHANGED <<wq, links, table>>, signalled \subseteq signalled',
           \A u \in Thread : pc'[u] \in Polling => pc[u] \in Polling
    PROVE  HeldInv'
<1>1. ListedItems("r")' = ListedItems("r")
  BY DEF ListedItems, Listed
<1> QED
  BY <1>1 DEF HeldInv

(* An interrupt resumes a queue.                                           *)
LEMMA ResumeHeld ==
    ASSUME QueueInv, HeldInv, ~Races, IntOn, NEW q \in {"r", "w"}, thread_io_resume(q), pc' = pc
    PROVE  HeldInv'
<1>0. "r" \in WaitQueue /\ "w" \in WaitQueue /\ \A u \in Thread : ~Unready(u)
  BY DriversAssumption DEF IntOn
<1>1. CASE q = "r"
  BY <1>0, <1>1, ResumeReaches DEF HeldInv
<1>2. CASE q = "w"
  <2>1. /\ ListedItems("r")' = ListedItems("r") /\ signalled' = signalled \cup Pollers("w")
        /\ table' = table
    BY <1>0, <1>2, ResumeEffect DEF QueueInv, TypeInv
  <2> QED
    BY <2>1 DEF HeldInv
<1> QED
  BY <1>1, <1>2

(* All the interrupts.                                                     *)
LEMMA InterruptHeld ==
    ASSUME QueueInv, HeldInv, ~Races, Interrupt
    PROVE  HeldInv'
<1>1. ASSUME NEW n, NEW m, NEW b, Receive(n, m, b), IntOn PROVE HeldInv'
  <2>1. pc' = pc /\ (thread_io_resume("r") \/ UNCHANGED ioVars)
    BY <1>1 DEF Receive
  <2>2. CASE thread_io_resume("r")
    BY <1>1, <2>1, <2>2, ResumeHeld
  <2>3. CASE UNCHANGED ioVars
    BY <2>1, <2>3, QuietHeld DEF ioVars
  <2> QED
    BY <2>1, <2>2, <2>3
<1>2. CASE uart_handle_tx_data
  <2>1. pc' = pc /\ thread_io_resume("w") /\ IntOn
    BY <1>2 DEF uart_handle_tx_data
  <2> QED
    BY <2>1, ResumeHeld
<1>3. CASE \/ uart_handle_recv_data_fifo \/ uart_handle_recv_data_timeout
           \/ kbd_interrupt \/ mse_interrupt
  <2>1. IntOn /\ \E n, m, b : Receive(n, m, b)
    BY <1>3 DEF uart_handle_recv_data_fifo, uart_handle_recv_data_timeout, kbd_interrupt, mse_interrupt
  <2> QED
    BY <1>1, <2>1
<1> QED
  BY <1>2, <1>3 DEF Interrupt

(* A kill leaves the items of polls where they are.                        *)
LEMMA KillHeld ==
    ASSUME ~Aliases, QueueInv, HeldInv, NEW t \in Thread, KillWaiter(t)
    PROVE  HeldInv'
<1>0. /\ ChainInv /\ used \subseteq Item /\ cancel_io_waits(t) /\ pc' = pc /\ "r" \in WaitQueue
  BY DriversAssumption DEF QueueInv, TypeInv, KillWaiter, driverVars
<1>1. /\ UNCHANGED <<table, signalled>>
      /\ \A i \in ListedItems("r") : item[i] # [poll |-> FALSE, tid |-> t] => i \in ListedItems("r")'
  BY <1>0, CancelEffect
<1>2. ASSUME NEW u \in Thread, pc[u] \in Polling, table[u] # <<>>, ListedItems("r") # {}
      PROVE  ListedItems("r")' # {}
  <2>1. ~Unready(u)
    BY DEF Unready, QueueInv, RunInv, Busy, KillWaiter
  <2>2. PICK i \in ListedItems("r") : item[i] = [poll |-> TRUE, tid |-> u]
    BY <1>2, <2>1, FirstEntry
  <2>3. item[i].poll = TRUE
    BY <2>2
  <2>4. item[i] # [poll |-> FALSE, tid |-> t]
    BY <2>3
  <2> QED
    BY <1>1, <2>2, <2>4
<1> QED
  BY <1>0, <1>1, <1>2 DEF HeldInv

(* The steps of the thread that runs.                                      *)
LEMMA ThinksHeld ==
    ASSUME QueueInv, HeldInv, NEW t \in Thread, Thinks(t)
    PROVE  HeldInv'
<1>0. RunInv /\ JobInv /\ TypeInv
  BY DEF QueueInv
<1>1. ASSUME NEW at, NEW to, Moves(t, at, to), UNCHANGED <<wq, links, table>>, signalled \subseteq signalled',
             to \in Polling => at \in Polling
      PROVE  HeldInv'
  <2>1. \A u \in Thread : pc'[u] \in Polling => pc[u] \in Polling
    BY <1>1, RunnerMoves
  <2> QED
    BY <1>1, <2>1, QuietHeld
<1>2. CASE \/ Calls(t) \/ GivesUp(t) \/ StopStart(t) \/ ReadFinds(t) \/ WriteFinds(t) \/ WriteCopies(t)
           \/ (\E n \in Bytes : ReadCopies(t, n)) \/ TimedReturns(t)
  <2>1. UNCHANGED <<wq, links, table, signalled>>
    BY <1>2 DEF Calls, GivesUp, StopStart, ReadFinds, WriteFinds, WriteCopies, ReadCopies, TimedReturns, ioVars
  <2>2. \E at : \E to \in {"app", "rd", "rdz", "wr", "wrz"} : Moves(t, at, to)
    BY <1>2 DEF Calls, GivesUp, StopStart, ReadFinds, WriteFinds, WriteCopies, ReadCopies, TimedReturns
  <2> QED
    BY <1>1, <2>1, <2>2 DEF Polling
<1>3. CASE PollLooks(t) \/ PollSleeps(t) \/ PollFills(t)
  <2>1. UNCHANGED <<wq, links, table>> /\ signalled \subseteq signalled'
    BY <1>3 DEF PollLooks, PollSleeps, PollFills, poll_sleep, poll_fills, ioVars
  <2>2. \E at, to \in Polling : Moves(t, at, to)
    BY <1>3 DEF PollLooks, PollSleeps, PollFills, Polling
  <2> QED
    BY <1>1, <2>1, <2>2
<1>4. CASE Waits(t, "rdz", "rd", "r") \/ Waits(t, "wrz", "wr", "w") \/ TimedWaits(t)
  <2>1. PICK at \in {"rdz", "wrz", "app"}, to \in {"rd", "wr", "timed"} :
            Moves(t, at, to) /\ (at = "app" => job[t] = "timed")
    BY <1>4 DEF Waits, TimedWaits
  <2>2. pc[t] = at /\ pc'[t] = to /\ \A u \in Thread : u # t => pc'[u] = pc[u]
    BY <2>1, RunnerMoves
  <2>3. job[t] \in {"read", "write", "timed"}
    BY <1>0, <2>1, <2>2, PlaceTells
  <2>4. \A u \in Thread : pc[u] \notin Polling
    BY <1>0, <2>3, NoPoller
  <2> QED
    BY <2>2, <2>4 DEF HeldInv, Polling
<1>5. ASSUME NEW at, NEW to \in {"app"} \cup Polling, Moves(t, at, to), job[t] = "poll"
      PROVE  pc[t] = at /\ pc'[t] = to /\ \A u \in Thread : u # t => pc'[u] \notin Polling
  BY <1>5, PollStep DEF Polling
<1>6. CASE PollReturns(t)
  <2>1. PICK at \in Polling : Moves(t, at, "app") /\ pc[t] = at
    BY <1>6 DEF PollReturns, Moves, Polling
  <2>2. job[t] = "poll"
    BY <1>0, <2>1, PlaceTells
  <2> QED
    BY <1>5, <2>1, <2>2 DEF HeldInv, Polling
<1>7. CASE PollTests(t)
  <2>1. Moves(t, "app", "tested") /\ job[t] = "poll" /\ table' = table
    BY <1>7 DEF PollTests
  <2>2. pc[t] = "app" /\ \A u \in Thread : u # t => pc'[u] \notin Polling
    BY <1>5, <2>1 DEF Polling
  <2>3. table[t] = <<>>
    <3>1. Len(table[t]) = 0
      BY <2>1, <2>2 DEF QueueInv, PollInv, PollTable, TableLength
    <3>2. table[t] \in Entries
      BY <1>0 DEF TypeInv
    <3> QED
      BY <3>1, <3>2, EmptySeq DEF Entries
  <2> QED
    BY <2>1, <2>2, <2>3 DEF HeldInv
<1>8. CASE PollLinks(t)
  <2>1. Moves(t, "tested", "linked") /\ poll_links(t, PollQueues[Len(table[t]) + 1]) /\ pc[t] = "tested"
    BY <1>8 DEF PollLinks, Moves
  <2>2. job[t] = "poll"
    BY <1>0, <2>1, PlaceTells DEF Polling
  <2>3. \A u \in Thread : u # t => pc'[u] \notin Polling
    BY <1>5, <2>1, <2>2 DEF Polling
  <2>4. PICK n, q : n = Len(table[t]) /\ q = PollQueues[n + 1]
    OBVIOUS
  <2>5. table[t] \in Entries
    BY <1>0 DEF TypeInv
  <2>6. n \in Nat /\ (n = 0 <=> table[t] = <<>>)
    BY <2>4, <2>5, EmptySeq, LenProperties DEF Entries
  <2>7. n < Len(PollQueues)
    BY <2>1, <2>2, <2>4 DEF QueueInv, PollInv, PollTable, TableLength
  <2>8. (n = 0 /\ q = "r") \/ (n = 1 /\ q = "w")
    <3>1. n = 0 \/ (n = 1 /\ Len(PollQueues) = 2)
      BY <2>6, <2>7, QueuesOf
    <3>2. 0 + 1 = 1 /\ 1 + 1 = 2
      OBVIOUS
    <3> QED
      BY <2>4, <3>1, <3>2, QueuesOf
  <2>9. "r" \in WaitQueue /\ "w" \in WaitQueue /\ poll_links(t, q) /\ used \subseteq Item
        /\ table \in [Thread -> Entries] /\ ChainInv
    BY <1>0, <2>1, <2>4, DriversAssumption DEF TypeInv, QueueInv
  <2>10. CASE q = "r"
    <3>1. ListedItems("r")' # {}
      BY <2>9, <2>10, LinksEffect
    <3> QED
      BY <3>1 DEF HeldInv
  <2>11. CASE q = "w"
    <3>1. ListedItems("r")' = ListedItems("r") /\ signalled' = signalled
      BY <2>9, <2>11, LinksEffect
    <3>2. table[t] # <<>> /\ pc[t] \in Polling
      BY <2>1, <2>6, <2>8, <2>11 DEF Polling
    <3> QED
      BY <2>3, <3>1, <3>2 DEF HeldInv
  <2> QED
    BY <2>8, <2>10, <2>11
<1> QED
  BY <1>2, <1>3, <1>4, <1>6, <1>7, <1>8 DEF Thinks

(* Every step.                                                             *)
LEMMA NextHeldInv ==
    ASSUME ~Aliases, ~Races, QueueInv, HeldInv, [Next]_vars
    PROVE  HeldInv'
<1>1. CASE UNCHANGED <<wq, links, table, signalled, pc>>
  BY <1>1, QuietHeld
<1>2. CASE Interrupt
  BY <1>2, InterruptHeld
<1>3. LineReceives \/ Pass \/ UNCHANGED <<ioVars, driverVars>> => UNCHANGED <<wq, links, table, signalled, pc>>
  BY DEF LineReceives, Pass, ResumeIo, ResumePoll, ioVars, driverVars
<1>4. ASSUME NEW t \in Thread, Thinks(t) \/ KillWaiter(t) PROVE HeldInv'
  BY <1>4, ThinksHeld, KillHeld
<1> QED
  BY <1>1, <1>2, <1>3, <1>4 DEF Next, vars

(* Three ways to say that a ring is empty.                                 *)
LEMMA EmptyIs ==
    ASSUME NEW c \in Ring
    PROVE  /\ cbuffer_is_empty(c) <=> cbuffer_in_use(c) = 0
           /\ cbuffer_is_empty(c) <=> cbuffer_free_space(c) = BUF_SIZE - 1
           /\ cbuffer_is_empty(c) <=> Len(Contents(c)) = 0
<1>1. cbuffer_is_empty(c) <=> cbuffer_in_use(c) = 0
  BY DriversAssumption DEF Ring, cbuffer_is_empty, cbuffer_in_use
<1>2. /\ cbuffer_in_use(c) \in Nat /\ cbuffer_free_space(c) \in Nat
      /\ cbuffer_in_use(c) + cbuffer_free_space(c) = BUF_SIZE - 1
  BY Sizes
<1>3. cbuffer_is_empty(c) <=> cbuffer_free_space(c) = BUF_SIZE - 1
  BY <1>1, <1>2, DriversAssumption
<1>4. Len(Contents(c)) = cbuffer_in_use(c)
  BY ContentsType
<1> QED
  BY <1>1, <1>3, <1>4

(* A step that leaves the rings alone.                                     *)
LEMMA QuietMarks ==
    ASSUME MarkInv, UNCHANGED <<rx, tx, etbei, dev, job>>,
           \A u \in Thread :
            /\ pc'[u] = "rdz" => pc[u] = "rdz" \/ cbuffer_is_empty(rx)
            /\ pc'[u] = "wrz" => pc[u] = "wrz" \/ cbuffer_free_space(tx) < TX_SEQ_MAX
            /\ Reading(u)' => (Reading(u) /\ (u \in bits => u \in bits')) \/ cbuffer_is_empty(rx)
            /\ Writing(u)' => \/ Writing(u) /\ (u \in bits => u \in bits')
                              \/ etbei /\ ~cbuffer_is_empty(tx)
            /\ pc'[u] \in Polling => \/ pc[u] \in Polling /\ (Told(u) => Told(u)')
                                    \/ (Event => Told(u)')
            /\ Due(u)' /\ u \in signalled' => /\ Due(u) /\ u \in signalled
                                             /\ (u \in pbits => u \in pbits')
    PROVE  MarkInv'
<1>0. /\ cbuffer_is_empty(rx)' = cbuffer_is_empty(rx) /\ cbuffer_is_empty(tx)' = cbuffer_is_empty(tx)
      /\ cbuffer_free_space(tx)' = cbuffer_free_space(tx) /\ Readable' = Readable
      /\ (Readable <=> ~cbuffer_is_empty(rx)) /\ Event' = Event
  BY DEF Readable, Event, cbuffer_is_empty, cbuffer_free_space, cbuffer_in_use
<1>1. TestInv'
  BY <1>0 DEF MarkInv, TestInv
<1>2. SendInv'
  BY <1>0 DEF MarkInv, SendInv
<1>3. SignalInv'
  <2> SUFFICES ASSUME NEW u \in Thread
               PROVE  /\ Event /\ pc'[u] \in Polling => Told(u)'
                      /\ Due(u)' /\ u \in signalled' => u \in pbits'
    BY <1>0 DEF SignalInv
  <2>1. /\ Event /\ pc[u] \in Polling => Told(u)
        /\ Due(u) /\ u \in signalled => u \in pbits
    BY DEF MarkInv, SignalInv
  <2> QED
    BY <2>1
<1>4. ReaderMarked' /\ WriterMarked'
  BY <1>0 DEF MarkInv, ReaderMarked, WriterMarked
<1> QED
  BY <1>1, <1>2, <1>3, <1>4 DEF MarkInv

(* A step of the thread that runs, outside rings and queues.               *)
LEMMA MovesMarks ==
    ASSUME QueueInv, MarkInv, NEW t \in Thread, NEW at, NEW to, Moves(t, at, to),
           to \notin Polling, to = "rdz" => cbuffer_is_empty(rx),
           to = "wrz" => cbuffer_free_space(tx) < TX_SEQ_MAX,
           UNCHANGED <<threadsVars, bits, pbits, signalled, rx, tx, etbei, dev, job>>
    PROVE  MarkInv'
<1>1. \A u \in Thread : Asleep(u)' => Asleep(u) /\ u # t
  BY RunnerMoves DEF threadsVars, Asleep
<1>2. pc'[t] = to /\ \A u \in Thread : u # t => pc'[u] = pc[u] /\ pc[u] \notin Busy
  BY RunnerMoves
<1>3. \A u \in Thread : (Reading(u)' => Reading(u)) /\ (Writing(u)' => Writing(u))
  BY <1>1, <1>2 DEF Reading, Writing
<1>4. \A u \in Thread : pc'[u] \in Polling => pc[u] \in Polling /\ (Told(u) => Told(u)')
  BY <1>2 DEF Told, Busy
<1>5. \A u \in Thread : Due(u)' => Due(u)
  BY <1>1, <1>2 DEF Due, Polling
<1> QED
  BY <1>1, <1>2, <1>3, <1>4, <1>5, QuietMarks

(* A step of the scheduler that takes no mark from a sleeper.              *)
LEMMA WokenMarks ==
    ASSUME MarkInv, Woken, UNCHANGED <<signalled, rx, tx, etbei, dev, job, pc, result>>,
           \A u \in Thread : /\ Asleep(u)' => (u \in bits => u \in bits')
                             /\ Asleep(u)' \/ pc[u] = "pollz" => (u \in pbits => u \in pbits')
    PROVE  MarkInv'
<1>1. \A u \in Thread : Asleep(u)' => Asleep(u)
  BY DEF Woken
<1>2. \A u \in Thread : (Reading(u)' => Reading(u)) /\ (Writing(u)' => Writing(u))
  BY <1>1 DEF Reading, Writing
<1>3. \A u \in Thread : Reading(u)' \/ Writing(u)' => Asleep(u)'
  BY DEF Reading, Writing
<1>4. \A u \in Thread : /\ Told(u)' = Told(u)
                        /\ Due(u)' => Due(u) /\ (Asleep(u)' \/ pc[u] = "pollz")
  BY <1>1 DEF Told, Due
<1> QED
  BY <1>1, <1>2, <1>3, <1>4, QuietMarks

(* The scheduler takes the marks from those it wakes.                      *)
LEMMA PassMarks ==
    ASSUME QueueInv, MarkInv, Pass
    PROVE  MarkInv'
<1>0. ThreadsTypeOK /\ (current # NoThread => status[current] = "RUNNING")
  BY DEF QueueInv, TypeInv, RunInv
<1>1. CASE ResumeIo /\ UNCHANGED driverVars
  <2>1. /\ Wake("COMPLETION", bits) /\ bits' = {} /\ UNCHANGED <<pbits, signalled, rx, tx, etbei, dev, job, pc, result>>
    BY <1>1 DEF ResumeIo, driverVars
  <2>2. Woken /\ \A u \in bits : u \in Thread => ~Asleep(u)'
    BY <1>0, <2>1, WakeType
  <2> QED
    BY <2>1, <2>2, WokenMarks
<1>2. CASE ResumePoll /\ UNCHANGED driverVars
  <2>1. /\ Wake("COMPLETION", pbits) /\ pbits' = {} /\ UNCHANGED <<bits, signalled, rx, tx, etbei, dev, job, pc, result>>
    BY <1>2 DEF ResumePoll, Polled, driverVars
  <2>2. Woken /\ \A u \in pbits : u \in Thread => ~Asleep(u)'
    BY <1>0, <2>1, WakeType
  <2>3. \A u \in Thread : pc[u] # "pollz"
    BY <1>2, NoThreadAssumption DEF ResumePoll, QueueInv, RunInv, Busy
  <2> QED
    BY <2>1, <2>2, <2>3, WokenMarks
<1>3. CASE UNCHANGED <<threadsVars, wq, links, used, item, bits, pbits, table, signalled, driverVars>>
  <2>1. Woken
    BY <1>0, <1>3 DEF Woken, Asleep, threadsVars
  <2> QED
    BY <1>3, <2>1, WokenMarks DEF driverVars
<1>4. ASSUME NEW t \in Thread, Timeout(t) \/ Dispatch(t) \/ Bury(t), UNCHANGED <<ioVars, driverVars>>
      PROVE  MarkInv'
  <2>1. Woken
    BY <1>0, <1>4, PassType
  <2> QED
    BY <1>4, <2>1, WokenMarks DEF ioVars, driverVars
<1> QED
  BY <1>1, <1>2, <1>3, <1>4 DEF Pass

(* A kill takes the mark of the thread it kills.                           *)
LEMMA KillMarks ==
    ASSUME QueueInv, MarkInv, NEW t \in Thread, KillWaiter(t)
    PROVE  MarkInv'
<1>0. ThreadsTypeOK /\ (current # NoThread => status[current] = "RUNNING")
  BY DEF QueueInv, TypeInv, RunInv
<1>1. Woken /\ ~Asleep(t)'
  BY <1>0, KillType DEF KillWaiter
<1>2. bits' = bits \ {t} /\ UNCHANGED <<pbits, signalled, rx, tx, etbei, dev, job, pc, result>>
  BY DEF KillWaiter, cancel_io_waits, CancelSeeming, driverVars
<1> QED
  BY <1>1, <1>2, WokenMarks

(* An interrupt that tells the threads of the queue.                       *)
LEMMA ResumeSignals ==
    ASSUME QueueInv, MarkInv, NEW q \in WaitQueue, thread_io_resume(q), UNCHANGED <<threadsVars, pc>>
    PROVE  /\ bits \subseteq bits' /\ signalled \subseteq signalled'
           /\ \A u \in Thread : Due(u)' /\ u \in signalled' => u \in pbits'
<1>1. /\ bits' = bits \cup Sleepers(q) /\ pbits' = pbits \cup (Pollers(q) \ signalled)
      /\ signalled' = signalled \cup Pollers(q)
  BY ResumeEffect DEF QueueInv, TypeInv
<1>2. \A u \in Thread : Due(u)' => Due(u)
  BY DEF threadsVars, Asleep, Due
<1> QED
  BY <1>1, <1>2 DEF MarkInv, SignalInv

(* Bytes arrive: readers are marked, and pollers signalled.                *)
LEMMA ReceiveMarks ==
    ASSUME QueueInv, HeldInv, MarkInv, ~Races, IntOn, NEW n, NEW m, NEW b \in BOOLEAN,
           b \/ (dev = "mouse" /\ (Event' => Event)), Receive(n, m, b)
    PROVE  MarkInv'
<1>0. /\ UNCHANGED <<threadsVars, tx, etbei, pc, dev, job, result>> /\ "r" \in WaitQueue /\ RunInv /\ JobInv
      /\ UNCHANGED <<status, waits>>
  BY DriversAssumption DEF Receive, Quiet, QueueInv, threadsVars
<1>1. /\ cbuffer_is_empty(tx)' = cbuffer_is_empty(tx)
      /\ \A u \in Thread : /\ Reading(u)' = Reading(u) /\ Writing(u)' = Writing(u)
                           /\ Due(u)' = Due(u)
  BY <1>0 DEF cbuffer_is_empty, Reading, Writing, Asleep, Due
<1>2. TestInv'
  BY <1>0 DEF TestInv, IntOn, Unready
<1>3. SendInv'
  BY <1>0, <1>1 DEF MarkInv, SendInv
<1>4. CASE b
  <2>1. thread_io_resume("r")
    BY <1>4 DEF Receive
  <2>2. /\ \A u \in Thread : Waiting(u, "r") => u \in bits'
        /\ \A u \in Thread : pc[u] \in Polling => u \in signalled'
    BY <1>0, <2>1, ResumeMarks, ResumeReaches DEF IntOn
  <2>3. /\ bits \subseteq bits' /\ signalled \subseteq signalled'
        /\ \A u \in Thread : Due(u)' /\ u \in signalled' => u \in pbits'
    BY <1>0, <2>1, ResumeSignals
  <2>4. ReaderMarked'
    BY <1>1, <2>2, <2>3 DEF ReaderMarked, QueueInv, SleepInv
  <2>5. WriterMarked'
    BY <1>0, <1>1, <2>3 DEF MarkInv, WriterMarked
  <2>6. SignalInv'
    BY <1>0, <2>2, <2>3 DEF SignalInv, Told
  <2> QED
    BY <1>2, <1>3, <2>4, <2>5, <2>6 DEF MarkInv
<1>5. CASE ~b
  <2>1. dev = "mouse" /\ (Event' => Event) /\ UNCHANGED <<bits, pbits, signalled>>
    BY <1>5 DEF Receive, ioVars
  <2>2. \A u \in Thread : ~Reading(u)
    BY <1>0, <2>1, PlaceTells DEF Reading, JobInv
  <2>3. ReaderMarked' /\ WriterMarked'
    BY <1>0, <1>1, <2>1, <2>2 DEF MarkInv, ReaderMarked, WriterMarked
  <2>4. \A u \in Thread : Told(u)' = Told(u)
    BY <1>0, <2>1 DEF Told
  <2>5. SignalInv'
    BY <1>0, <1>1, <2>1, <2>4 DEF MarkInv, SignalInv
  <2> QED
    BY <1>2, <1>3, <2>3, <2>5 DEF MarkInv
<1> QED
  BY <1>4, <1>5

(* All the interrupts.                                                     *)
LEMMA InterruptMarks ==
    ASSUME QueueInv, HeldInv, MarkInv, RingInv, RingInv', ~Races, Interrupt
    PROVE  MarkInv'
<1>1. CASE uart_handle_recv_data_fifo
  <2>1. IntOn /\ TRUE \in BOOLEAN /\ \E n, m : Receive(n, m, TRUE)
    BY <1>1 DEF uart_handle_recv_data_fifo
  <2> QED
    BY <2>1, ReceiveMarks
<1>2. CASE uart_handle_recv_data_timeout
  <2>1. IntOn /\ TRUE \in BOOLEAN /\ \E n, m : Receive(n, m, TRUE)
    BY <1>2 DEF uart_handle_recv_data_timeout
  <2> QED
    BY <2>1, ReceiveMarks
<1>3. CASE kbd_interrupt
  <2>1. IntOn /\ TRUE \in BOOLEAN /\ \E n, m : Receive(n, m, TRUE)
    BY <1>3 DEF kbd_interrupt, kbd_resumes
  <2> QED
    BY <2>1, ReceiveMarks
<1>4. CASE mse_interrupt
  <2> DEFINE n == Least(1, cbuffer_free_space(rx))
             b == (cbuffer_in_use(rx) + n) % 3 = 0
  <2>1. IntOn /\ dev = "mouse" /\ fifo # <<>> /\ Receive(n, n, b) /\ b \in BOOLEAN
    BY <1>4 DEF mse_interrupt
  <2>2. /\ n \in {0, 1} /\ fifo \in Seq(Bits) /\ 1 <= Len(fifo)
        /\ rx \in Ring /\ rx' \in Ring /\ cbuffer_in_use(rx) \in Nat
    <3>1. rx \in Ring /\ rx' \in Ring /\ cbuffer_in_use(rx) \in Nat /\ cbuffer_free_space(rx) \in Nat
      BY Sizes DEF RingInv
    <3>2. fifo \in Seq(Bits) /\ Len(fifo) \in Nat /\ Len(fifo) # 0
      BY <2>1, EmptySeq DEF RingInv, BytesTyped
    <3>3. n \in {0, 1}
      BY <3>1 DEF Least
    <3> QED
      BY <3>1, <3>2, <3>3
  <2>3. cbuffer_in_use(rx') = cbuffer_in_use(rx) + n
    <3> HIDE DEF n
    <3>1. SubSeq(fifo, 1, n) \in Seq(Bits) /\ Len(SubSeq(fifo, 1, n)) = n
      BY <2>2
    <3>2. rxq' = rxq \o SubSeq(fifo, 1, n) /\ rxq = Contents(rx) /\ rxq' = Contents(rx')
      BY <2>1 DEF Receive, RingInv, RingsHoldBytes
    <3>3. /\ rxq \in Seq(Bits) /\ Len(rxq) = cbuffer_in_use(rx)
          /\ Len(rxq') = cbuffer_in_use(rx')
      BY <2>2, <3>2, ContentsType
    <3> QED
      BY <3>1, <3>2, <3>3
  <2>4. dev' = dev /\ (b \/ (Event' => Event))
    <3> HIDE DEF n
    <3>1. dev' = dev /\ (Event <=> cbuffer_in_use(rx) >= 3) /\ (Event' <=> cbuffer_in_use(rx') >= 3)
      BY <2>1 DEF Receive, Quiet, Event
    <3> QED
      BY <2>2, <2>3, <3>1
  <2> HIDE DEF n, b
  <2> QED
    BY <2>1, <2>4, ReceiveMarks
<1>5. CASE uart_handle_tx_data
  <2> DEFINE n == Least(TX_SEQ_MAX, cbuffer_in_use(tx))
  <2>0. /\ IntOn /\ UNCHANGED <<threadsVars, rx, pc, dev, job, result>> /\ UNCHANGED <<status, waits>>
        /\ thread_io_resume("w") /\ tx' = Removed(tx, n) /\ etbei' = ~cbuffer_is_empty(tx')
        /\ "w" \in WaitQueue
    BY <1>5, DriversAssumption DEF uart_handle_tx_data, EnableUartTx, Quiet, threadsVars
  <2>1. ~cbuffer_is_empty(tx') => ~cbuffer_is_empty(tx)
    <3>1. tx \in Ring /\ cbuffer_in_use(tx) \in Nat /\ TX_SEQ_MAX \in Nat
      BY Sizes, DriversAssumption DEF RingInv
    <3>2. n \in 0 .. cbuffer_in_use(tx)
      BY <3>1 DEF Least
    <3> HIDE DEF n
    <3>3. tx' \in Ring /\ cbuffer_in_use(tx') = cbuffer_in_use(tx) - n
      BY <2>0, <3>1, <3>2, RemovedRing
    <3> QED
      BY <3>1, <3>2, <3>3, EmptyIs
  <2>2. \A u \in Thread : Waiting(u, "w") => u \in bits'
    BY <2>0, ResumeMarks
  <2>3. /\ bits \subseteq bits' /\ signalled \subseteq signalled'
        /\ \A u \in Thread : Due(u)' /\ u \in signalled' => u \in pbits'
    BY <2>0, ResumeSignals
  <2>4. /\ Readable' = Readable /\ Event' = Event
        /\ \A u \in Thread : Reading(u)' = Reading(u) /\ Writing(u)' = Writing(u)
    BY <2>0 DEF Readable, Event, cbuffer_is_empty, cbuffer_in_use, Reading, Writing, Asleep
  <2>5. TestInv'
    BY <2>0 DEF TestInv, IntOn, Unready
  <2>6. SendInv'
    BY <2>0, <2>1 DEF MarkInv, SendInv
  <2>7. ReaderMarked'
    BY <2>3, <2>4 DEF MarkInv, ReaderMarked
  <2>8. WriterMarked'
    BY <2>2, <2>3, <2>4 DEF WriterMarked, QueueInv, SleepInv
  <2>9. SignalInv'
    BY <2>0, <2>3, <2>4 DEF MarkInv, SignalInv, Told
  <2> QED
    BY <2>5, <2>6, <2>7, <2>8, <2>9 DEF MarkInv
<1> QED
  BY <1>1, <1>2, <1>3, <1>4, <1>5 DEF Interrupt

(* uart_read tests an empty ring, and uart_write a full one, before they   *)
(* sleep.                                                                  *)
LEMMA WaitMarks ==
    ASSUME QueueInv, MarkInv, RingInv, NEW t \in Thread, NEW at, NEW to, NEW q, NEW m \in Nat,
           <<at, to>> \in {<<"rdz", "rd">>, <<"wrz", "wr">>, <<"app", "timed">>},
           to = "timed" => job[t] = "timed", Moves(t, at, to), thread_io_wait(q, m), UNCHANGED <<rx, tx, etbei, dev, job>>
    PROVE  MarkInv'
<1>1. /\ ~Asleep(t) /\ pc[t] = at /\ pc'[t] = to
      /\ \A u \in Thread : u # t => pc'[u] = pc[u] /\ pc[u] \notin Busy
  BY RunnerMoves
<1>2. Block({"COMPLETION"}, m) /\ UNCHANGED <<bits, pbits, signalled>> /\ current = t
  BY DEF thread_io_wait, Moves
<1>3. \A u \in Thread : u # t => status'[u] = status[u] /\ waits'[u] = waits[u]
  BY <1>2, BlockType DEF QueueInv, TypeInv
<1>4. \A u \in Thread : u # t => /\ Reading(u)' => Reading(u)
                                 /\ Writing(u)' => Writing(u)
  BY <1>1, <1>3 DEF Reading, Writing, Asleep
<1>7. \A u \in Thread : pc'[u] \notin Polling /\ ~Due(u)'
  <2>1. job[t] \in {"read", "write", "timed"}
    BY <1>1, PlaceTells DEF QueueInv
  <2>2. \A u \in Thread : pc[u] \notin Polling
    BY <2>1, NoPoller DEF QueueInv
  <2> QED
    BY <1>1, <2>2 DEF Polling, Due
<1>5. Reading(t)' => cbuffer_is_empty(rx)
  BY <1>1 DEF Reading, MarkInv, TestInv
<1>6. Writing(t)' => etbei /\ ~cbuffer_is_empty(tx)
  <2> SUFFICES ASSUME Writing(t)' PROVE etbei /\ ~cbuffer_is_empty(tx)
    OBVIOUS
  <2>1. cbuffer_free_space(tx) < TX_SEQ_MAX
    BY <1>1 DEF Writing, MarkInv, TestInv
  <2>2. tx \in Ring /\ cbuffer_free_space(tx) \in Nat
    BY Sizes DEF RingInv
  <2>3. ~cbuffer_is_empty(tx)
    BY <2>1, <2>2, EmptyIs, DriversAssumption
  <2> QED
    BY <2>3 DEF MarkInv, SendInv
<1> QED
  BY <1>1, <1>2, <1>4, <1>5, <1>6, <1>7, QuietMarks

(* The steps of poll.                                                      *)
LEMMA PollMarks ==
    ASSUME QueueInv, ResultInv, RingInv, MarkInv, NEW t \in Thread,
           \/ PollTests(t) \/ PollLinks(t) \/ PollFills(t)
           \/ PollLooks(t) \/ PollSleeps(t) \/ PollReturns(t)
    PROVE  MarkInv'
<1>0. RunInv /\ JobInv /\ UNCHANGED <<rx, tx, etbei, dev, job>>
  BY DEF QueueInv, PollTests, PollLinks, PollFills, PollLooks, PollSleeps, PollReturns, Quiet
<1>1. PICK at \in {"app"} \cup Polling, to \in {"app"} \cup Polling :
        Moves(t, at, to) /\ (at = "app" => job[t] = "poll")
  BY DEF PollTests, PollLinks, PollFills, PollLooks, PollSleeps, PollReturns, Polling
<1>2. ~Asleep(t) /\ pc[t] = at /\ pc'[t] = to /\ \A u \in Thread : u # t => pc'[u] = pc[u]
  BY <1>1, RunnerMoves
<1>3. job[t] = "poll"
  BY <1>0, <1>1, <1>2, PlaceTells
<1>4. \A u \in Thread : u # t => pc'[u] = "app"
  BY <1>0, <1>2, <1>3, OnePoller
<1>5. \A u \in Thread : ~Reading(u)' /\ ~Writing(u)' /\ pc'[u] \notin {"rdz", "wrz"}
  BY <1>1, <1>2, <1>4 DEF Reading, Writing, Polling
<1>6. SUFFICES /\ pc'[t] \in Polling => \/ pc[t] \in Polling /\ (Told(t) => Told(t)')
                                        \/ (Event => Told(t)')
               /\ Due(t)' /\ t \in signalled' => /\ Due(t) /\ t \in signalled
                                                /\ (t \in pbits => t \in pbits')
  <2>1. \A u \in Thread : u # t => pc'[u] \notin Polling /\ ~Due(u)'
    BY <1>4 DEF Polling, Due
  <2> QED
    BY <1>0, <1>5, <1>6, <2>1, QuietMarks
<1>7. CASE PollTests(t)
  <2>1. pc'[t] = "tested" /\ result' = [result EXCEPT ![t] = IF Readable THEN "found" ELSE "empty"]
    BY <1>7, RunnerMoves DEF PollTests
  <2>2. Event => Readable
    <3>1. rx \in Ring /\ cbuffer_in_use(rx) \in Nat
      BY Sizes DEF RingInv
    <3> QED
      BY <3>1, EmptyIs DEF Event, Readable
  <2>3. Readable => result'[t] = "found"
    BY <2>1 DEF ResultInv
  <2> QED
    BY <2>1, <2>2, <2>3 DEF Told, Due
<1>8. CASE PollLinks(t)
  <2>1. pc[t] = "tested" /\ pc'[t] = "linked" /\ UNCHANGED <<signalled, result>>
    BY <1>8, RunnerMoves DEF PollLinks, poll_links
  <2> QED
    BY <2>1 DEF Told, Due, Polling
<1>9. CASE PollFills(t)
  <2>1. /\ pc[t] = "linked" /\ pc'[t] = IF AllLinked(t) THEN "poll" ELSE "tested"
        /\ result' = result
        /\ signalled' = IF AllLinked(t) /\ result[t] = "found" THEN signalled \cup {t} ELSE signalled
    BY <1>9, RunnerMoves DEF PollFills, poll_fills
  <2> QED
    BY <2>1 DEF Told, Due, Polling
<1>10. CASE PollLooks(t)
  <2>1. pc[t] = "poll" /\ pc'[t] = "pollz" /\ t \notin signalled /\ signalled' = signalled
    BY <1>10, RunnerMoves DEF PollLooks, ioVars
  <2> QED
    BY <2>1 DEF Told, Due, Polling
<1>11. CASE PollSleeps(t)
  <2>1. pc[t] = "pollz" /\ pc'[t] = "polled" /\ UNCHANGED <<signalled, pbits>>
    BY <1>11, RunnerMoves DEF PollSleeps, poll_sleep
  <2> QED
    BY <2>1 DEF Told, Due, Polling
<1>12. CASE PollReturns(t)
  <2>1. pc'[t] = "app"
    BY <1>12, RunnerMoves DEF PollReturns
  <2> QED
    BY <2>1 DEF Due, Polling
<1> QED
  BY <1>7, <1>8, <1>9, <1>10, <1>11, <1>12

(* uart_read and uart_write copy: a ring with bytes to send stays so.      *)
LEMMA CopyMarks ==
    ASSUME QueueInv, MarkInv, RingInv, RingInv', NEW t \in Thread,
           WriteCopies(t) \/ \E n \in Bytes : ReadCopies(t, n)
    PROVE  MarkInv'
<1>0. /\ UNCHANGED <<threadsVars, ioVars, dev, job>> /\ UNCHANGED <<status, waits, bits, pbits, signalled>>
      /\ RunInv
  BY DEF WriteCopies, ReadCopies, Quiet, threadsVars, ioVars, QueueInv
<1>1. PICK at \in {"rd", "wr"}, to \in {"app", "wr"} : Moves(t, at, to)
  BY DEF WriteCopies, ReadCopies
<1>2. /\ ~Asleep(t) /\ pc[t] = at /\ pc'[t] = to
      /\ \A u \in Thread : u # t => pc'[u] = pc[u] /\ pc[u] \notin Busy
  BY <1>1, RunnerMoves
<1>3. \A u \in Thread : /\ Reading(u)' => Reading(u)
                        /\ Writing(u)' => Writing(u)
  BY <1>0, <1>2 DEF Reading, Writing, Asleep
<1>4. TestInv'
  BY <1>2 DEF TestInv, Busy
<1>7. SignalInv'
  <2>1. job[t] \in {"read", "write"}
    BY <1>0, <1>2, PlaceTells
  <2>2. \A u \in Thread : pc[u] \notin Polling
    BY <2>1, NoPoller DEF QueueInv
  <2> QED
    BY <1>2, <2>2 DEF SignalInv, Due, Polling
<1>5. CASE WriteCopies(t)
  <2>1. rx' = rx /\ etbei' /\ job'[t] = "write"
    BY <1>0, <1>5, PlaceTells DEF WriteCopies, EnableUartTx, Moves
  <2>2. ~cbuffer_is_empty(tx) => ~cbuffer_is_empty(tx')
    <3> DEFINE n == Trimmed(left[t])
    <3>1. tx \in Ring /\ tx' \in Ring /\ txq = Contents(tx) /\ txq' = Contents(tx')
      BY DEF RingInv, RingsHoldBytes
    <3>2. cbuffer_free_space(tx) \in Nat /\ left[t] \in Nat /\ tx.tail \in 0 .. BUF_SIZE - 1
      BY Sizes, DriversAssumption DEF RingInv, BytesTyped, Ring
    <3>3. n \in Nat
      BY <3>2, DriversAssumption DEF Trimmed, Least
    <3>4. txq' = txq \o Numbers(next, n)
      BY <1>5 DEF WriteCopies
    <3>5. n \in Nat /\ txq' = txq \o Numbers(next, n)
      BY <3>3, <3>4
    <3> HIDE DEF n
    <3>6. Numbers(next, n) \in Seq(Bits)
      <4>1. \A j \in 1 .. n : (next + j - 1) % 2 \in Bits
        BY <3>5 DEF Bits, RingInv, BytesTyped
      <4> QED
        BY <3>5, <4>1 DEF Numbers
    <3>7. txq \in Seq(Bits)
      BY <3>1, ContentsType
    <3>8. Len(txq') = Len(txq) + Len(Numbers(next, n)) /\ Len(txq) \in Nat /\ Len(Numbers(next, n)) \in Nat
      BY <3>5, <3>6, <3>7
    <3> QED
      BY <3>1, <3>8, EmptyIs
  <2>3. SendInv'
    BY <2>1 DEF SendInv
  <2>4. ReaderMarked'
    BY <1>0, <1>3, <2>1 DEF MarkInv, ReaderMarked, Readable, cbuffer_is_empty
  <2>5. WriterMarked'
    BY <1>0, <1>3, <2>1, <2>2 DEF MarkInv, WriterMarked
  <2> QED
    BY <1>4, <1>7, <2>3, <2>4, <2>5 DEF MarkInv
<1>6. CASE \E n \in Bytes : ReadCopies(t, n)
  <2>1. Readable /\ tx' = tx /\ etbei' = etbei
    BY <1>6 DEF ReadCopies, Readable
  <2>2. SendInv'
    BY <1>0, <2>1 DEF MarkInv, SendInv, cbuffer_is_empty
  <2>3. ReaderMarked' /\ WriterMarked'
    BY <1>0, <1>3, <2>1 DEF MarkInv, ReaderMarked, WriterMarked, cbuffer_is_empty
  <2> QED
    BY <1>4, <1>7, <2>2, <2>3 DEF MarkInv
<1> QED
  BY <1>5, <1>6

(* uart_start while nobody writes: the ring of the transmitter is empty.   *)
LEMMA StopMarks ==
    ASSUME QueueInv, MarkInv, ~Stops, NEW t \in Thread, StopStart(t)
    PROVE  MarkInv'
<1>0. /\ UNCHANGED <<threadsVars, ioVars, dev, job, rx, tx, result>> /\ UNCHANGED <<status, waits, bits, pbits, signalled>>
      /\ RunInv /\ TypeInv /\ pc' = pc
  BY DEF StopStart, Quiet, threadsVars, ioVars, QueueInv, Moves, TypeInv
<1>1. cbuffer_is_empty(tx) /\ \A u \in Thread : job[u] # "write"
  BY DEF StopStart, MarkInv, SendInv
<1>2. \A u \in Thread : ~Writing(u)'
  BY <1>0, <1>1, PlaceTells DEF Writing
<1>3. \A u \in Thread : Reading(u)' = Reading(u) /\ Due(u)' = Due(u) /\ Told(u)' = Told(u)
  BY <1>0 DEF Reading, Asleep, Due, Told
<1>4. TestInv'
  BY <1>0 DEF MarkInv, TestInv, cbuffer_is_empty, cbuffer_free_space
<1>5. SendInv'
  BY <1>0, <1>1 DEF SendInv, cbuffer_is_empty
<1>6. ReaderMarked' /\ WriterMarked'
  BY <1>0, <1>2, <1>3 DEF MarkInv, ReaderMarked, WriterMarked, Readable, cbuffer_is_empty
<1>7. SignalInv'
  <2>1. Event' = Event
    BY <1>0 DEF Event, Readable, cbuffer_is_empty, cbuffer_in_use
  <2> QED
    BY <1>0, <1>3, <2>1 DEF MarkInv, SignalInv
<1> QED
  BY <1>4, <1>5, <1>6, <1>7 DEF MarkInv

(* The steps of the thread that runs.                                      *)
LEMMA ThinksMarks ==
    ASSUME QueueInv, ResultInv, MarkInv, RingInv, RingInv', ~Stops, NEW t \in Thread, Thinks(t)
    PROVE  MarkInv'
<1>1. CASE Calls(t)
  <2>1. UNCHANGED <<threadsVars, bits, pbits, signalled, rx, tx, etbei, dev, job>>
    BY <1>1 DEF Calls, Quiet, ioVars
  <2>2. Moves(t, "app", "rd") \/ Moves(t, "app", "wr")
    BY <1>1 DEF Calls
  <2> QED
    BY <2>1, <2>2, MovesMarks DEF Polling
<1>2. CASE GivesUp(t)
  <2>1. Yield /\ Moves(t, "app", "app") /\ UNCHANGED <<bits, pbits, signalled, rx, tx, etbei, dev, job, result>>
    BY <1>2 DEF GivesUp, Quiet
  <2>2. pc' = pc /\ \A u \in Thread : Asleep(u)' => Asleep(u)
    BY <2>1, YieldType DEF QueueInv, TypeInv, Moves
  <2>3. \A u \in Thread : /\ (Reading(u)' => Reading(u)) /\ (Writing(u)' => Writing(u))
                          /\ (Due(u)' => Due(u)) /\ Told(u)' = Told(u)
    BY <2>1, <2>2 DEF Reading, Writing, Due, Told
  <2> QED
    BY <2>1, <2>2, <2>3, QuietMarks
<1>3. CASE StopStart(t)
  BY <1>3, StopMarks
<1>4. CASE ReadFinds(t)
  BY <1>4, MovesMarks DEF ReadFinds, Quiet, ioVars, Polling
<1>5. CASE Waits(t, "rdz", "rd", "r")
  BY <1>5, WaitMarks DEF Waits, Quiet
<1>6. CASE \E n \in Bytes : ReadCopies(t, n)
  BY <1>6, CopyMarks
<1>7. CASE WriteFinds(t)
  BY <1>7, MovesMarks DEF WriteFinds, Quiet, ioVars, Polling
<1>8. CASE Waits(t, "wrz", "wr", "w")
  BY <1>8, WaitMarks DEF Waits, Quiet
<1>9. CASE WriteCopies(t)
  BY <1>9, CopyMarks
<1>10. CASE \/ PollTests(t) \/ PollLinks(t) \/ PollFills(t)
            \/ PollLooks(t) \/ PollSleeps(t) \/ PollReturns(t)
  BY <1>10, PollMarks
<1>11. CASE TimedWaits(t)
  BY <1>11, WaitMarks DEF TimedWaits, Quiet
<1>12. CASE TimedReturns(t)
  BY <1>12, MovesMarks DEF TimedReturns, Quiet, ioVars, Polling
<1> QED
  BY <1>1, <1>2, <1>3, <1>4, <1>5, <1>6, <1>7, <1>8, <1>9, <1>10, <1>11, <1>12 DEF Thinks

(* Every step keeps the marks.                                             *)
LEMMA NextMarkInv ==
    ASSUME ~Races, ~Stops, QueueInv, HeldInv, ResultInv, MarkInv, RingInv, RingInv', [Next]_vars
    PROVE  MarkInv'
<1>0. ASSUME UNCHANGED <<threadsVars, ioVars, rx, tx, etbei, dev, job, pc, result>> PROVE MarkInv'
  <2>1. Woken
    BY <1>0 DEF QueueInv, RunInv, TypeInv, ThreadsTypeOK, Woken, Asleep, threadsVars
  <2> QED
    BY <1>0, <2>1, WokenMarks DEF ioVars
<1>1. CASE LineReceives
  BY <1>0, <1>1 DEF LineReceives, Quiet
<1>2. CASE Interrupt
  BY <1>2, InterruptMarks
<1>3. CASE Pass
  BY <1>3, PassMarks
<1>4. CASE Tick /\ UNCHANGED <<ioVars, driverVars>>
  <2>1. Woken
    BY <1>4 DEF QueueInv, RunInv, TypeInv, ThreadsTypeOK, Woken, Asleep, Tick
  <2> QED
    BY <1>4, <2>1, WokenMarks DEF ioVars, driverVars
<1>5. ASSUME NEW t \in Thread, Thinks(t) \/ KillWaiter(t) PROVE MarkInv'
  BY <1>5, ThinksMarks, KillMarks
<1>6. CASE UNCHANGED vars
  BY <1>0, <1>6 DEF vars, driverVars
<1> QED
  BY <1>1, <1>2, <1>3, <1>4, <1>5, <1>6 DEF Next

(* Nobody sleeps at the start.                                             *)
LEMMA InitMarkInv == Init => MarkInv /\ HeldInv /\ ResultInv
<1> SUFFICES ASSUME Init PROVE MarkInv /\ HeldInv /\ ResultInv
  OBVIOUS
<1>1. /\ pc = [t \in Thread |-> "app"] /\ tx = cbuffer_init /\ tx.head = tx.tail
  BY DEF Init, cbuffer_init
<1>2. TestInv /\ SendInv
  BY <1>1 DEF TestInv, SendInv, cbuffer_is_empty
<1>3. SignalInv /\ ReaderMarked /\ WriterMarked /\ HeldInv
  BY <1>1 DEF SignalInv, Due, Polling, ReaderMarked, WriterMarked, Reading, Writing, HeldInv
<1>4. ResultInv
  BY DEF Init, ResultInv, Result
<1> QED
  BY <1>2, <1>3, <1>4 DEF MarkInv

(* The drivers, io_waits.c and poll.c together: a reader asleep with bytes *)
(* in the ring and a poller asleep on a device with an event are marked    *)
(* for the next pass of the scheduler, and so is a writer, unless bytes    *)
(* are left to send and the interrupt that will mark it is enabled.  For   *)
(* every size and any number of threads, and with interrupts while poll    *)
(* registers for output, looks and goes to sleep; if none comes between a  *)
(* test of a ring and the wait, or the registration for input, that        *)
(* follows, where the drivers are open to one; the driver is not stopped   *)
(* under a writer; threads that share a device do the same with it and do  *)
(* not poll; and no address of a poll table ends in the number of a        *)
(* thread.                                                                 *)
THEOREM NobodyIsForgotten ==
    ASSUME ~Sharing, ~Aliases, ~Races, ~Stops
    PROVE  Spec => []NobodyForgotten
<1> DEFINE Inv == QueueInv /\ RingInv /\ MarkInv /\ HeldInv /\ ResultInv
<1>1. Init => Inv
  BY InitQueueInv, InitRingInv, InitMarkInv
<1>2. Inv /\ [Next]_vars => Inv'
  BY NextQueueInv, NextRingInv, NextMarkInv, NextHeldInv, NextResultInv
<1>3. Inv => NobodyForgotten
  BY DEF MarkInv, SignalInv, Told, Due, Polling, NobodyForgotten, PollMarked
<1> QED
  BY <1>1, <1>2, <1>3, PTL DEF Spec

=============================================================================
