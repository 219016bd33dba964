----------------------------- MODULE DeviceProofs -----------------------------
(***************************************************************************)
(* Proofs about what lies between the kernel and the hardware: the network *)
(* card, its ring and the queues of packets; the clock; the devices and    *)
(* their descriptors.                                                      *)
(***************************************************************************)
EXTENDS Network, Devices, Clocks, SequenceTheorems, FiniteSetTheorems, TLAPS

(***************************************************************************)
(* Remainders.                                                             *)
(***************************************************************************)
LEMMA ModUnique ==
    ASSUME NEW M \in Nat \ {0}, NEW q \in Int, NEW r \in 0 .. M - 1
    PROVE  (q * M + r) % M = r
OBVIOUS

LEMMA ModSmall ==
    ASSUME NEW M \in Nat \ {0}, NEW x \in 0 .. M - 1
    PROVE  x % M = x
OBVIOUS

LEMMA ModOnce ==
    ASSUME NEW M \in Nat \ {0}, NEW x \in M .. 2 * M - 1
    PROVE  x % M = x - M
OBVIOUS

LEMMA ModRange ==
    ASSUME NEW M \in Nat \ {0}, NEW x \in Int
    PROVE  x % M \in 0 .. M - 1
OBVIOUS

LEMMA ModQuotient ==
    ASSUME NEW M \in Nat \ {0}, NEW x \in Int
    PROVE  x \div M \in Int /\ x = (x \div M) * M + (x % M)
OBVIOUS

LEMMA ModAdd ==
    ASSUME NEW M \in Nat \ {0}, NEW x \in Int, NEW k \in Int
    PROVE  (x + k * M) % M = x % M
<1> DEFINE q == x \div M
           r == x % M
<1>1. q \in Int /\ r \in 0 .. M - 1 /\ x = q * M + r
  BY ModQuotient, ModRange
<1>2. x + k * M = (q + k) * M + r
  BY <1>1
<1> HIDE DEF q, r
<1>3. q + k \in Int
  BY <1>1
<1>4. ((q + k) * M + r) % M = r
  BY <1>1, <1>3, ModUnique, Zenon
<1> QED
  BY <1>2, <1>4 DEF r

(***************************************************************************)
(* Where the card and the driver are in the ring.                          *)
(***************************************************************************)
LEMMA Multiple == \E K \in Nat : AddressSpace = K * RBLEN_SIZE /\ RBLEN_SIZE <= AddressSpace
<1> DEFINE K == AddressSpace \div RBLEN_SIZE
<1>1. RBLEN_SIZE \in Nat \ {0} /\ AddressSpace \in Nat \ {0} /\ AddressSpace % RBLEN_SIZE = 0
  BY NetworkAssumption
<1>2. K \in Int /\ AddressSpace = K * RBLEN_SIZE + (AddressSpace % RBLEN_SIZE)
  BY <1>1, ModQuotient
<1> HIDE DEF K
<1>3. AddressSpace = K * RBLEN_SIZE
  BY <1>1, <1>2
<1>4. K >= 1
  BY <1>1, <1>2, <1>3
<1>5. RBLEN_SIZE <= AddressSpace
  BY <1>1, <1>2, <1>3, <1>4
<1> QED
  BY <1>2, <1>3, <1>4, <1>5

(* RL_CAPR is short of the address read by a constant, modulo its 16 bits: *)
(* what the card makes of it is the address, in the ring.                  *)
LEMMA CaprPosition ==
    ASSUME NEW c \in 0 .. AddressSpace - 1
    PROVE  (((c - CAPR_DATA_OFF + AddressSpace) % AddressSpace) + CAPR_DATA_OFF) % RBLEN_SIZE
               = c % RBLEN_SIZE
<1>1. /\ RBLEN_SIZE \in Nat \ {0} /\ AddressSpace \in Nat \ {0} /\ c \in Int
      /\ CAPR_DATA_OFF \in 1 .. AddressSpace
  BY NetworkAssumption
<1>2. CASE c >= CAPR_DATA_OFF
  <2>1. c - CAPR_DATA_OFF + AddressSpace \in AddressSpace .. 2 * AddressSpace - 1
    BY <1>1, <1>2
  <2>2. (c - CAPR_DATA_OFF + AddressSpace) % AddressSpace = c - CAPR_DATA_OFF
    BY <1>1, <2>1, ModOnce
  <2> QED
    BY <1>1, <2>2
<1>3. CASE c < CAPR_DATA_OFF
  <2>1. c - CAPR_DATA_OFF + AddressSpace \in 0 .. AddressSpace - 1
    BY <1>1, <1>3
  <2>2. (c - CAPR_DATA_OFF + AddressSpace) % AddressSpace = c - CAPR_DATA_OFF + AddressSpace
    BY <1>1, <2>1, ModSmall
  <2>3. PICK K \in Nat : AddressSpace = K * RBLEN_SIZE
    BY Multiple
  <2>4. ((c - CAPR_DATA_OFF + AddressSpace) % AddressSpace) + CAPR_DATA_OFF = c + K * RBLEN_SIZE
    BY <1>1, <2>2, <2>3
  <2>5. K \in Int
    BY <2>3
  <2>6. (c + K * RBLEN_SIZE) % RBLEN_SIZE = c % RBLEN_SIZE
    BY <1>1, <2>5, ModAdd, Zenon
  <2> QED
    BY <2>4, <2>6
<1> QED
  BY <1>1, <1>2, <1>3

(* An offset that has left the ring at most once is brought back.          *)
Fold(o) == IF o >= RBLEN_SIZE THEN o - RBLEN_SIZE ELSE o

LEMMA FoldMod ==
    ASSUME NEW c \in Nat, NEW a \in 0 .. RBLEN_SIZE - 1
    PROVE  (c + a) % RBLEN_SIZE = Fold((c % RBLEN_SIZE) + a)
<1> DEFINE q == c \div RBLEN_SIZE
           r == c % RBLEN_SIZE
<1>1. RBLEN_SIZE \in Nat \ {0}
  BY NetworkAssumption
<1>2. q \in Int /\ r \in 0 .. RBLEN_SIZE - 1 /\ c = q * RBLEN_SIZE + r
  BY <1>1, ModQuotient, ModRange
<1> HIDE DEF q, r
<1>3. CASE r + a < RBLEN_SIZE
  <2>1. r + a \in 0 .. RBLEN_SIZE - 1 /\ c + a = q * RBLEN_SIZE + (r + a)
    BY <1>1, <1>2, <1>3
  <2>2. (q * RBLEN_SIZE + (r + a)) % RBLEN_SIZE = r + a
    BY <1>1, <1>2, <2>1, ModUnique, Zenon
  <2>3. Fold(r + a) = r + a
    BY <1>1, <1>2, <1>3 DEF Fold
  <2> QED
    BY <2>1, <2>2, <2>3 DEF r
<1>4. CASE r + a >= RBLEN_SIZE
  <2>1. r + a - RBLEN_SIZE \in 0 .. RBLEN_SIZE - 1 /\ q + 1 \in Int
    BY <1>1, <1>2, <1>4
  <2>2. c + a = (q + 1) * RBLEN_SIZE + (r + a - RBLEN_SIZE)
    BY <1>1, <1>2
  <2>3. ((q + 1) * RBLEN_SIZE + (r + a - RBLEN_SIZE)) % RBLEN_SIZE = r + a - RBLEN_SIZE
    BY <1>1, <2>1, ModUnique, Zenon
  <2>4. Fold(r + a) = r + a - RBLEN_SIZE
    BY <1>1, <1>2, <1>4 DEF Fold
  <2> QED
    BY <2>2, <2>3, <2>4 DEF r
<1> QED
  BY <1>1, <1>2, <1>3, <1>4

(* The driver's address goes on by what it read, modulo 16 bits, and its   *)
(* offset modulo the ring: the two agree.                                  *)
LEMMA Advance ==
    ASSUME NEW c \in 0 .. AddressSpace - 1, NEW a \in 0 .. RBLEN_SIZE - 1
    PROVE  LET d == (c + a) % AddressSpace
           IN  /\ d \in 0 .. AddressSpace - 1
               /\ d % RBLEN_SIZE = Fold((c % RBLEN_SIZE) + a)
               /\ (c + a - CAPR_DATA_OFF + AddressSpace) % AddressSpace
                      = (d - CAPR_DATA_OFF + AddressSpace) % AddressSpace
<1> DEFINE d == (c + a) % AddressSpace
<1>1. /\ RBLEN_SIZE \in Nat \ {0} /\ AddressSpace \in Nat \ {0} /\ c \in Int /\ c \in Nat
      /\ CAPR_DATA_OFF \in 1 .. AddressSpace
  BY NetworkAssumption
<1>2. PICK K \in Nat : AddressSpace = K * RBLEN_SIZE /\ RBLEN_SIZE <= AddressSpace
  BY Multiple
<1>3. d \in 0 .. AddressSpace - 1
  BY <1>1, ModRange
<1>4. (c + a) % RBLEN_SIZE = Fold((c % RBLEN_SIZE) + a)
  BY <1>1, FoldMod
<1>5. CASE c + a < AddressSpace
  <2>1. d = c + a
    BY <1>1, <1>5, ModSmall
  <2> HIDE DEF d
  <2>2. d % RBLEN_SIZE = Fold((c % RBLEN_SIZE) + a)
    BY <1>4, <2>1, Zenon
  <2>3. (c + a - CAPR_DATA_OFF + AddressSpace) % AddressSpace = (d - CAPR_DATA_OFF + AddressSpace) % AddressSpace
    <3>1. c + a - CAPR_DATA_OFF + AddressSpace = d - CAPR_DATA_OFF + AddressSpace
      BY <1>1, <2>1
    <3> QED
      BY <3>1, Zenon
  <2> QED
    BY <1>3, <2>2, <2>3, Zenon DEF d
<1>6. CASE c + a >= AddressSpace
  <2>1. c + a \in AddressSpace .. 2 * AddressSpace - 1
    BY <1>1, <1>2, <1>6
  <2>2. d = c + a - AddressSpace
    BY <1>1, <2>1, ModOnce
  <2> HIDE DEF d
  <2>3. c + a = d + K * RBLEN_SIZE /\ d \in Int /\ K \in Int /\ 1 \in Int
    BY <1>1, <1>2, <1>3, <2>2
  <2>4. (d + K * RBLEN_SIZE) % RBLEN_SIZE = d % RBLEN_SIZE
    BY <1>1, <2>3, ModAdd, Zenon
  <2>5. c + a - CAPR_DATA_OFF + AddressSpace = (d - CAPR_DATA_OFF + AddressSpace) + 1 * AddressSpace
    BY <1>1, <2>2, <2>3
  <2>6. d - CAPR_DATA_OFF + AddressSpace \in Int
    BY <1>1, <2>3
  <2>7. ((d - CAPR_DATA_OFF + AddressSpace) + 1 * AddressSpace) % AddressSpace
            = (d - CAPR_DATA_OFF + AddressSpace) % AddressSpace
    BY <1>1, <2>3, <2>6, ModAdd, Zenon
  <2>8. d % RBLEN_SIZE = Fold((c % RBLEN_SIZE) + a)
    BY <1>4, <2>3, <2>4, Zenon
  <2>9. (c + a - CAPR_DATA_OFF + AddressSpace) % AddressSpace = (d - CAPR_DATA_OFF + AddressSpace) % AddressSpace
    BY <2>5, <2>7, Zenon
  <2> QED
    BY <1>3, <2>8, <2>9, Zenon DEF d
<1> QED
  BY <1>1, <1>5, <1>6

(***************************************************************************)
(* The queues of packets.                                                  *)
(***************************************************************************)
Slot == Packet \cup {NoPacket}
Cb == [head : 0 .. packets - 1, tail : 0 .. packets - 1, buf : [0 .. packets - 1 -> Slot]]

Used(c) == IF c.head <= c.tail THEN c.tail - c.head ELSE c.tail - c.head + packets
Turn(i) == IF i >= packets THEN i - packets ELSE i

LEMMA UsedIs ==
    ASSUME NEW c \in Cb
    PROVE  Used(c) \in 0 .. packets - 1 /\ cbuffer_in_use(c) = Used(c)
<1>1. packets \in Nat \ {0} /\ c.head \in 0 .. packets - 1 /\ c.tail \in 0 .. packets - 1
  BY NetworkAssumption DEF Cb
<1>2. CASE c.head <= c.tail
  <2>1. c.tail - c.head + packets \in packets .. 2 * packets - 1
    BY <1>1, <1>2
  <2>2. (c.tail - c.head + packets) % packets = c.tail - c.head + packets - packets
    BY <1>1, <2>1, ModOnce
  <2> QED
    BY <1>1, <1>2, <2>2 DEF Used, cbuffer_in_use
<1>3. CASE c.head > c.tail
  <2>1. c.tail - c.head + packets \in 0 .. packets - 1
    BY <1>1, <1>3
  <2>2. (c.tail - c.head + packets) % packets = c.tail - c.head + packets
    BY <1>1, <2>1, ModSmall
  <2> QED
    BY <1>1, <1>3, <2>1, <2>2 DEF Used, cbuffer_in_use
<1> QED
  BY <1>1, <1>2, <1>3

LEMMA TurnIs ==
    ASSUME NEW i \in 0 .. 2 * packets - 1
    PROVE  i % packets = Turn(i) /\ Turn(i) \in 0 .. packets - 1
<1>1. packets \in Nat \ {0}
  BY NetworkAssumption
<1>2. CASE i < packets
  BY <1>1, <1>2, ModSmall DEF Turn
<1>3. CASE i >= packets
  <2>1. i \in packets .. 2 * packets - 1
    BY <1>1, <1>3
  <2> QED
    BY <1>1, <1>3, <2>1, ModOnce DEF Turn
<1> QED
  BY <1>1, <1>2, <1>3

(* What a queue is, slot by slot.                                          *)
LEMMA QueueIs ==
    ASSUME NEW c \in Cb
    PROVE  /\ Queue(c) \in Seq(Slot)
           /\ Len(Queue(c)) = Used(c)
           /\ \A i \in 1 .. Used(c) : Queue(c)[i] = c.buf[Turn(c.head + i - 1)]
           /\ cbuffer_is_empty(c) <=> Queue(c) = <<>>
<1>1. packets \in Nat \ {0} /\ c.head \in 0 .. packets - 1 /\ c.tail \in 0 .. packets - 1
  BY NetworkAssumption DEF Cb
<1>2. Used(c) \in 0 .. packets - 1 /\ cbuffer_in_use(c) = Used(c) /\ Used(c) \in Nat
  BY <1>1, UsedIs
<1>3. \A i \in 1 .. Used(c) : /\ (c.head + i - 1) % packets = Turn(c.head + i - 1)
                              /\ Turn(c.head + i - 1) \in 0 .. packets - 1
  <2> TAKE i \in 1 .. Used(c)
  <2>1. c.head + i - 1 \in 0 .. 2 * packets - 1
    BY <1>1, <1>2
  <2> QED
    BY <2>1, TurnIs
<1>4. Queue(c) = [i \in 1 .. Used(c) |-> c.buf[Turn(c.head + i - 1)]]
  BY <1>2, <1>3 DEF Queue
<1>5. \A i \in 1 .. Used(c) : c.buf[Turn(c.head + i - 1)] \in Slot
  BY <1>3 DEF Cb
<1>6. Queue(c) \in Seq(Slot) /\ Len(Queue(c)) = Used(c)
  BY <1>2, <1>4, <1>5
<1>7. cbuffer_is_empty(c) <=> Used(c) = 0
  BY <1>1 DEF Used, cbuffer_is_empty
<1>8. cbuffer_is_empty(c) <=> Queue(c) = <<>>
  BY <1>6, <1>7
<1> QED
  BY <1>4, <1>6, <1>8

(* netbuf_in and netbuf_out store the packet first, which changes nothing  *)
(* that is in the queue.                                                   *)
LEMMA QueueStore ==
    ASSUME NEW c \in Cb, NEW p \in Slot, Used(c) < packets - 1
    PROVE  /\ Store(c, p) \in Cb /\ Queue(Store(c, p)) = Queue(c)
           /\ Used(Store(c, p)) = Used(c)
           /\ Store(c, p).buf[Store(c, p).tail] = p
<1> DEFINE d == Store(c, p)
<1>1. packets \in Nat \ {0} /\ c.head \in 0 .. packets - 1 /\ c.tail \in 0 .. packets - 1
  BY NetworkAssumption DEF Cb
<1>2. d \in Cb /\ d.head = c.head /\ d.tail = c.tail /\ d.buf = [c.buf EXCEPT ![c.tail] = p]
  BY <1>1 DEF Store, Cb
<1> HIDE DEF d
<1>3. Used(d) = Used(c)
  BY <1>2 DEF Used
<1>4. Used(c) \in Nat
  BY <1>1, UsedIs
<1>5. \A i \in 1 .. Used(c) : Turn(c.head + i - 1) # c.tail /\ Turn(c.head + i - 1) \in 0 .. packets - 1
  BY <1>1, <1>4 DEF Turn, Used
<1>6. \A i \in 1 .. Used(c) : d.buf[Turn(d.head + i - 1)] = c.buf[Turn(c.head + i - 1)]
  BY <1>2, <1>5 DEF Cb
<1>7. Queue(d) = Queue(c)
  <2>1. Queue(d) \in Seq(Slot) /\ Len(Queue(d)) = Used(c) /\ Queue(c) \in Seq(Slot) /\ Len(Queue(c)) = Used(c)
    BY <1>2, <1>3, QueueIs
  <2>2. \A i \in 1 .. Used(c) : Queue(d)[i] = Queue(c)[i]
    BY <1>2, <1>3, <1>6, QueueIs
  <2> QED
    BY <2>1, <2>2, SeqEqual
<1>8. d.buf[d.tail] = p
  BY <1>1, <1>2 DEF Cb
<1> QED
  BY <1>2, <1>3, <1>7, <1>8 DEF d

(* cbuffer_add then puts it behind the others.                             *)
LEMMA QueueAdd ==
    ASSUME NEW c \in Cb, Used(c) < packets - 1
    PROVE  /\ cbuffer_add(c) \in Cb /\ Used(cbuffer_add(c)) = Used(c) + 1
           /\ Queue(cbuffer_add(c)) = Append(Queue(c), c.buf[c.tail])
<1> DEFINE d == cbuffer_add(c)
<1>1. packets \in Nat \ {0} /\ c.head \in 0 .. packets - 1 /\ c.tail \in 0 .. packets - 1 /\ packets > 1
  BY NetworkAssumption DEF Cb
<1>2. d \in Cb /\ d.head = c.head /\ d.tail = Step(c.tail) /\ d.buf = c.buf
  BY <1>1 DEF cbuffer_add, Cb, Step
<1> HIDE DEF d
<1>3. Used(c) \in Nat /\ Used(d) = Used(c) + 1
  BY <1>1, <1>2, UsedIs DEF Used, Step
<1>4. Turn(c.head + (Used(c) + 1) - 1) = c.tail
  BY <1>1 DEF Turn, Used
<1>5. /\ Queue(d) \in Seq(Slot) /\ Len(Queue(d)) = Used(c) + 1
      /\ Queue(c) \in Seq(Slot) /\ Len(Queue(c)) = Used(c)
  BY <1>2, <1>3, QueueIs
<1>6. \A i \in 1 .. Used(c) + 1 : Queue(d)[i] = c.buf[Turn(c.head + i - 1)]
  BY <1>2, <1>3, QueueIs
<1>7. \A i \in 1 .. Used(c) : Queue(c)[i] = c.buf[Turn(c.head + i - 1)]
  BY QueueIs
<1>8. c.buf[c.tail] \in Slot
  BY <1>1 DEF Cb
<1>9. Append(Queue(c), c.buf[c.tail]) \in Seq(Slot) /\ Len(Append(Queue(c), c.buf[c.tail])) = Used(c) + 1
  BY <1>5, <1>8
<1>10. \A i \in 1 .. Used(c) + 1 : Append(Queue(c), c.buf[c.tail])[i] = Queue(d)[i]
  <2> TAKE i \in 1 .. Used(c) + 1
  <2>1. CASE i = Used(c) + 1
    BY <1>3, <1>4, <1>5, <1>6, <1>8, <2>1
  <2>2. CASE i \in 1 .. Used(c)
    <3>1. Append(Queue(c), c.buf[c.tail])[i] = Queue(c)[i]
      BY <1>3, <1>5, <1>8, <2>2
    <3> QED
      BY <1>3, <1>6, <1>7, <2>2, <3>1
  <2>3. i = Used(c) + 1 \/ i \in 1 .. Used(c)
    BY <1>3
  <2> QED
    BY <2>1, <2>2, <2>3, Zenon
<1>11. Queue(d) = Append(Queue(c), c.buf[c.tail])
  BY <1>5, <1>9, <1>10, SeqEqual
<1> QED
  BY <1>2, <1>3, <1>11 DEF d

(* cbuffer_remove takes the first.                                         *)
LEMMA QueueRemove ==
    ASSUME NEW c \in Cb, ~cbuffer_is_empty(c)
    PROVE  /\ cbuffer_remove(c) \in Cb /\ Used(cbuffer_remove(c)) = Used(c) - 1
           /\ Queue(c) # <<>> /\ c.buf[c.head] = Head(Queue(c))
           /\ Queue(cbuffer_remove(c)) = Tail(Queue(c))
<1> DEFINE d == cbuffer_remove(c)
<1>1. packets \in Nat \ {0} /\ c.head \in 0 .. packets - 1 /\ c.tail \in 0 .. packets - 1 /\ packets > 1
  BY NetworkAssumption DEF Cb
<1>2. /\ d \in Cb /\ d.head = Step(c.head) /\ d.tail = c.tail
      /\ d.buf = [c.buf EXCEPT ![c.head] = NoPacket]
  <2>1. c = [head |-> c.head, tail |-> c.tail, buf |-> c.buf] /\ c.buf \in [0 .. packets - 1 -> Slot]
    BY DEF Cb
  <2>2. d.head = Step(c.head) /\ d.tail = c.tail /\ d.buf = [c.buf EXCEPT ![c.head] = NoPacket]
    BY DEF cbuffer_remove, Cb
  <2>3. Step(c.head) \in 0 .. packets - 1
    BY <1>1 DEF Step
  <2>4. [c.buf EXCEPT ![c.head] = NoPacket] \in [0 .. packets - 1 -> Slot]
    BY <2>1 DEF Slot
  <2>5. d \in Cb
    BY <1>1, <2>3, <2>4 DEF cbuffer_remove, Cb
  <2> QED
    BY <2>2, <2>5
<1> HIDE DEF d
<1>3. Used(c) \in 1 .. packets - 1 /\ Used(d) = Used(c) - 1
  BY <1>1, <1>2, UsedIs DEF Used, Step, cbuffer_is_empty
<1>4. /\ Queue(d) \in Seq(Slot) /\ Len(Queue(d)) = Used(c) - 1
      /\ Queue(c) \in Seq(Slot) /\ Len(Queue(c)) = Used(c) /\ Queue(c) # <<>>
  BY <1>2, <1>3, QueueIs
<1>5. \A i \in 1 .. Used(c) : Queue(c)[i] = c.buf[Turn(c.head + i - 1)]
  BY QueueIs
<1>6. \A i \in 1 .. Used(c) - 1 : Queue(d)[i] = d.buf[Turn(d.head + i - 1)]
  BY <1>2, <1>3, QueueIs
<1>7. \A i \in 1 .. Used(c) - 1 : /\ Turn(d.head + i - 1) = Turn(c.head + (i + 1) - 1)
                                  /\ Turn(d.head + i - 1) # c.head
                                  /\ Turn(d.head + i - 1) \in 0 .. packets - 1
  <2> TAKE i \in 1 .. Used(c) - 1
  <2>1. i \in Nat /\ i >= 1 /\ i < packets - 1 /\ d.head = IF c.head + 1 = packets THEN 0 ELSE c.head + 1
    BY <1>1, <1>2, <1>3 DEF Step
  <2> QED
    BY <1>1, <2>1 DEF Turn
<1>8. \A i \in 1 .. Used(c) - 1 : Queue(d)[i] = Queue(c)[i + 1]
  <2> TAKE i \in 1 .. Used(c) - 1
  <2>1. i + 1 \in 1 .. Used(c)
    BY <1>3
  <2>2. Queue(c)[i + 1] = c.buf[Turn(c.head + (i + 1) - 1)]
    BY <1>5, <2>1
  <2> QED
    BY <1>2, <1>6, <1>7, <2>2 DEF Cb
<1>9. Tail(Queue(c)) \in Seq(Slot) /\ Len(Tail(Queue(c))) = Used(c) - 1
  BY <1>3, <1>4
<1>10. \A i \in 1 .. Used(c) - 1 : Tail(Queue(c))[i] = Queue(c)[i + 1]
  BY <1>3, <1>4
<1>11. Queue(d) = Tail(Queue(c))
  BY <1>4, <1>8, <1>9, <1>10, SeqEqual
<1>12. c.buf[c.head] = Head(Queue(c))
  <2>1. 1 \in 1 .. Used(c) /\ Turn(c.head + 1 - 1) = c.head
    BY <1>1, <1>3 DEF Turn
  <2> QED
    BY <1>4, <1>5, <2>1
<1> QED
  BY <1>2, <1>3, <1>4, <1>11, <1>12 DEF d

(***************************************************************************)
(* The inductive invariant.                                                *)
(***************************************************************************)
Frame == [at : 0 .. RBLEN_SIZE - 1, id : Nat, len : FrameLength, ok : BOOLEAN]

(* How far the place c is ahead of the place a.                            *)
Ahead(a, c) == IF a <= c THEN c - a ELSE c - a + RBLEN_SIZE

(* The frames s follow one another from where the driver reads to where    *)
(* the card stores, and never fill the ring.                               *)
Chain(s, r, c) ==
    /\ s = <<>> => c = r
    /\ s # <<>> => s[1].at = r
    /\ \A i \in 1 .. Len(s) :
         Ahead(s[i].at, c) = Aligned(s[i].len) + (IF i = Len(s) THEN 0 ELSE Ahead(s[i + 1].at, c))
    /\ \A i, j \in 1 .. Len(s) : i <= j => Ahead(s[j].at, c) <= Ahead(s[i].at, c)

CardTypes ==
    /\ unread \in Seq(Frame) /\ CBR \in 0 .. RBLEN_SIZE - 1 /\ CAPR \in 0 .. AddressSpace - 1
    /\ RE \in BOOLEAN /\ IMR \in BOOLEAN /\ linkUp \in BOOLEAN
    /\ ISR \subseteq {"ROK", "RXOVW", "PUN"} /\ arrived \in Nat /\ links \in Nat
DriverTypes ==
    /\ rx_cur_address \in 0 .. AddressSpace - 1 /\ rx_ring_offset \in 0 .. RBLEN_SIZE - 1
    /\ drvStatus \in {"INIT", "RUN", "STOP", "DONE"} /\ lineOn \in BOOLEAN
    /\ irq \in {"idle", "ack", "receive", "clear", "clearOvw", "link"}
    /\ isr \subseteq {"ROK", "RXOVW", "PUN"}
    /\ op \in {"idle", "rx", "go", "off"} /\ restarts \in Nat
BufferTypes ==
    /\ pkts_head \in Packet /\ pkts_tail \in Packet /\ frameOf \in [Packet -> Nat]
    /\ in_cb \in Cb /\ out_cb \in Cb /\ netb \in BOOLEAN
ThreadTypes ==
    /\ net \in {"wait", "close", "in", "out", "outOnly", "putIn", "putOut"}
    /\ held \in Slot /\ lastIn \in Nat
    /\ app \in [App -> {"idle", "store", "add", "open"}] /\ appPkt \in [App -> Slot]
    /\ sends \in Nat

(* The card runs while the driver does; the handler runs between the steps *)
(* of rtl_start and rtl_stop only while the card runs.                     *)
ModeInv ==
    /\ lineOn <=> drvStatus = "RUN"
    /\ RE <=> drvStatus = "RUN"
    /\ drvStatus = "RUN" => op \in {"idle", "off"}
    /\ op = "off" => drvStatus = "RUN" /\ ~IMR
    /\ irq # "idle" => drvStatus = "RUN" /\ op = "idle"

(* Between rtl_reset_hw and rtl_config_rx the card was set back and the    *)
(* driver was not.                                                         *)
Settled == op # "rx" /\ (drvStatus = "DONE" => op = "go")

PlaceInv ==
    /\ rx_ring_offset = rx_cur_address % RBLEN_SIZE
    /\ Settled => CAPR = (rx_cur_address - CAPR_DATA_OFF + AddressSpace) % AddressSpace
    /\ (~Settled \/ op = "go" \/ drvStatus = "INIT") => unread = <<>>

ChainInv == Chain(unread, ReadAddress, CBR)

PendingInv ==
    unread # <<>> /\ IMR /\ lineOn /\ irq \in {"idle", "ack", "link"} => "ROK" \in ISR

(* Who has the packets.                                                    *)
InSet == Range(Queue(in_cb))
OutSet == Range(Queue(out_cb))
Sending == {appPkt[a] : a \in App} \ {NoPacket}
Lost == Packet \ (InSet \cup OutSet \cup free \cup {held} \cup Sending)

Injective(s) == \A i, j \in 1 .. Len(s) : s[i] = s[j] => i = j

QueueInv ==
    /\ Used(in_cb) <= packets - 2 /\ Used(out_cb) <= packets - 2
    /\ Injective(Queue(in_cb)) /\ Injective(Queue(out_cb))
    /\ InSet \subseteq Packet /\ OutSet \subseteq Packet
SenderInv ==
    /\ \A a \in App : appPkt[a] # NoPacket <=> app[a] \in {"store", "add"}
    /\ \A a \in App : app[a] = "add" => /\ out_cb.buf[out_cb.tail] = appPkt[a]
                                        /\ Used(out_cb) < packets - 2
    /\ held # NoPacket <=> net \in {"putIn", "putOut"}
ApartInv ==
    /\ InSet \cap OutSet = {} /\ (InSet \cup OutSet) \cap free = {}
    /\ held \notin InSet \cup OutSet \cup free
    /\ Sending \cap (InSet \cup OutSet \cup free \cup {held}) = {}

(* The packets of the IN queue were taken from the pool one after the      *)
(* other, from first on and up to the next one.                            *)
Run(q, first, next) ==
    /\ q = <<>> => first = next
    /\ q # <<>> => q[1] = first /\ PoolStep(q[Len(q)]) = next
    /\ \A i \in 1 .. Len(q) - 1 : q[i + 1] = PoolStep(q[i])

(* As long as nobody sends and no packet was lost, the packet the network  *)
(* thread has is the oldest and those of the queue come next.              *)
Oldest == IF held = NoPacket THEN pkts_head ELSE PoolStep(pkts_head)
FifoInv ==
    /\ sends = 0 => cbuffer_is_empty(out_cb) /\ \A a \in App : app[a] = "idle"
    /\ sends = 0 /\ Lost = {} => /\ held # NoPacket => held = pkts_head
                                 /\ Run(Queue(in_cb), Oldest, pkts_tail)

(* Frames are numbered as they arrive: those processed, those queued and   *)
(* those in the ring follow one another.                                   *)
Ordered(q, f, u, l, n) ==
    /\ \A i, j \in 1 .. Len(q) : i < j => f[q[i]] < f[q[j]]
    /\ \A i \in 1 .. Len(q) : l < f[q[i]] /\ f[q[i]] <= n
    /\ \A i, j \in 1 .. Len(u) : i < j => u[i].id < u[j].id
    /\ \A j \in 1 .. Len(u) : l < u[j].id /\ u[j].id <= n
    /\ \A i \in 1 .. Len(q), j \in 1 .. Len(u) : f[q[i]] < u[j].id
    /\ l <= n
OrderInv == Ordered(Queue(in_cb), frameOf, unread, lastIn, arrived)

AwakeInv ==
    /\ net \in {"wait", "outOnly"} /\ ~netb => cbuffer_is_empty(in_cb)
    /\ net = "wait" /\ ~netb => cbuffer_is_empty(out_cb) \/ \E a \in App : app[a] = "open"

LinkInv == restarts = 0 =>
    /\ drvStatus \in {"INIT", "RUN"} /\ op # "off"
    /\ drvStatus = "INIT" => ~linkUp /\ "UP" \notin ifflags
    /\ (linkUp <=> "UP" \in ifflags) \/ "PUN" \in ISR \/ ("PUN" \in isr /\ irq # "idle")

RingInv == ModeInv /\ PlaceInv /\ ChainInv /\ PendingInv
CardInv == CardTypes /\ DriverTypes /\ RingInv
PacketInv == QueueInv /\ SenderInv /\ ApartInv
BufInv == BufferTypes /\ ThreadTypes /\ PacketInv
NetInv == CardInv /\ BufInv /\ FifoInv /\ OrderInv /\ AwakeInv /\ LinkInv

(* Two threads that send would store into the same slot of the queue, as   *)
(* the test, the copy and cbuffer_add are not one step; the link may not   *)
(* change unseen.                                                          *)
SingleSender == \A a, b \in App : a = b

(***************************************************************************)
(* The ring.                                                               *)
(***************************************************************************)
LEMMA AlignedIs ==
    ASSUME NEW len \in Nat
    PROVE  Aligned(len) \in Nat /\ Aligned(len) >= 4
<1>1. (len + 4 + 3) \div 4 \in Nat /\ (len + 4 + 3) \div 4 >= 1
  OBVIOUS
<1> QED
  BY <1>1 DEF Aligned

LEMMA FrameIs ==
    ASSUME NEW f \in Frame
    PROVE  /\ f.at \in 0 .. RBLEN_SIZE - 1 /\ f.id \in Nat /\ f.len \in Nat /\ f.len \in FrameLength
           /\ f.ok \in BOOLEAN /\ Aligned(f.len) \in Nat /\ Aligned(f.len) >= 4
<1>1. f.at \in 0 .. RBLEN_SIZE - 1 /\ f.id \in Nat /\ f.len \in FrameLength /\ f.ok \in BOOLEAN
  BY DEF Frame
<1>2. f.len \in Nat
  BY <1>1, NetworkAssumption
<1> QED
  BY <1>1, <1>2, AlignedIs

LEMMA AheadIs ==
    ASSUME NEW a \in 0 .. RBLEN_SIZE - 1, NEW c \in 0 .. RBLEN_SIZE - 1
    PROVE  Ahead(a, c) \in 0 .. RBLEN_SIZE - 1 /\ (Ahead(a, c) = 0 <=> a = c)
<1>1. RBLEN_SIZE \in Nat \ {0}
  BY NetworkAssumption
<1> QED
  BY <1>1 DEF Ahead

LEMMA AheadGrows ==
    ASSUME NEW a \in 0 .. RBLEN_SIZE - 1, NEW c \in 0 .. RBLEN_SIZE - 1, NEW k \in Nat,
           Ahead(a, c) + k < RBLEN_SIZE
    PROVE  Fold(c + k) \in 0 .. RBLEN_SIZE - 1 /\ Ahead(a, Fold(c + k)) = Ahead(a, c) + k
<1>1. RBLEN_SIZE \in Nat \ {0}
  BY NetworkAssumption
<1> QED
  BY <1>1 DEF Ahead, Fold

LEMMA AheadShrinks ==
    ASSUME NEW a \in 0 .. RBLEN_SIZE - 1, NEW b \in 0 .. RBLEN_SIZE - 1,
           NEW c \in 0 .. RBLEN_SIZE - 1, NEW k \in Nat, Ahead(a, c) = k + Ahead(b, c)
    PROVE  b = Fold(a + k)
<1>1. RBLEN_SIZE \in Nat \ {0}
  BY NetworkAssumption
<1> QED
  BY <1>1 DEF Ahead, Fold

(* The room the card has.                                                  *)
LEMMA RoomIs ==
    ASSUME CAPR \in 0 .. AddressSpace - 1, CBR \in 0 .. RBLEN_SIZE - 1
    PROVE  ReadAddress \in 0 .. RBLEN_SIZE - 1 /\ Room = RBLEN_SIZE - Ahead(ReadAddress, CBR)
<1> DEFINE r == ReadAddress
<1>1. RBLEN_SIZE \in Nat \ {0} /\ CAPR + CAPR_DATA_OFF \in Int
  BY NetworkAssumption
<1>2. r \in 0 .. RBLEN_SIZE - 1
  BY <1>1, ModRange DEF ReadAddress
<1> HIDE DEF r
<1>3. CASE CBR = r
  BY <1>1, <1>2, <1>3 DEF Room, BUFE, Ahead, r
<1>4. CASE CBR < r
  <2>1. r - CBR + RBLEN_SIZE \in RBLEN_SIZE .. 2 * RBLEN_SIZE - 1
    BY <1>1, <1>2, <1>4
  <2>2. (r - CBR + RBLEN_SIZE) % RBLEN_SIZE = (r - CBR + RBLEN_SIZE) - RBLEN_SIZE
    BY <1>1, <2>1, ModOnce
  <2>3. Room = (r - CBR + RBLEN_SIZE) % RBLEN_SIZE
    BY <1>1, <1>2, <1>4 DEF Room, BUFE, r
  <2> QED
    BY <1>1, <1>2, <1>4, <2>2, <2>3 DEF Ahead, r
<1>5. CASE CBR > r
  <2>1. r - CBR + RBLEN_SIZE \in 0 .. RBLEN_SIZE - 1
    BY <1>1, <1>2, <1>5
  <2>2. (r - CBR + RBLEN_SIZE) % RBLEN_SIZE = r - CBR + RBLEN_SIZE
    BY <1>1, <2>1, ModSmall
  <2>3. Room = (r - CBR + RBLEN_SIZE) % RBLEN_SIZE
    BY <1>1, <1>2, <1>5 DEF Room, BUFE, r
  <2> QED
    BY <1>1, <1>2, <1>5, <2>2, <2>3 DEF Ahead, r
<1> QED
  BY <1>1, <1>2, <1>3, <1>4, <1>5 DEF r

(* A frame is stored behind the others.                                    *)
LEMMA ChainAppend ==
    ASSUME NEW s \in Seq(Frame), NEW r \in 0 .. RBLEN_SIZE - 1, NEW c \in 0 .. RBLEN_SIZE - 1,
           NEW f \in Frame, f.at = c, Chain(s, r, c), Aligned(f.len) < RBLEN_SIZE - Ahead(r, c)
    PROVE  Chain(Append(s, f), r, Fold(c + Aligned(f.len)))
<1> DEFINE A == Aligned(f.len)
           t == Append(s, f)
           d == Fold(c + A)
           n == Len(s)
<1>1. RBLEN_SIZE \in Nat \ {0} /\ A \in Nat /\ A >= 4
  BY FrameIs, NetworkAssumption
<1>2. /\ n \in Nat /\ t \in Seq(Frame) /\ Len(t) = n + 1 /\ t # <<>> /\ t[n + 1] = f
      /\ \A i \in 1 .. n : t[i] = s[i]
  BY AppendProperties, LenProperties
<1>3. \A i \in 1 .. n : s[i] \in Frame /\ s[i].at \in 0 .. RBLEN_SIZE - 1 /\ Aligned(s[i].len) \in Nat
  BY ElementOfSeq, FrameIs
<1>4. \A i \in 1 .. n : Ahead(s[i].at, c) <= Ahead(r, c)
  <2> TAKE i \in 1 .. n
  <2>1. 1 \in 1 .. n /\ 1 <= i /\ s # <<>>
    BY <1>2
  <2> QED
    BY <2>1 DEF Chain
<1>5. Ahead(r, c) \in 0 .. RBLEN_SIZE - 1
  BY AheadIs
<1>6. \A i \in 1 .. n : Ahead(s[i].at, d) = Ahead(s[i].at, c) + A
  <2> TAKE i \in 1 .. n
  <2>1. Ahead(s[i].at, c) \in 0 .. RBLEN_SIZE - 1
    BY <1>3, AheadIs
  <2>2. Ahead(s[i].at, c) + A < RBLEN_SIZE
    BY <1>1, <1>4, <1>5, <2>1
  <2> HIDE DEF A
  <2> QED
    BY <1>1, <1>3, <2>2, AheadGrows
<1>7. Ahead(f.at, d) = A
  <2>1. Ahead(c, c) = 0 /\ A < RBLEN_SIZE
    BY <1>1, <1>5, AheadIs
  <2> HIDE DEF A
  <2>2. Ahead(c, c) + A < RBLEN_SIZE /\ Ahead(c, c) + A = A
    BY <1>1, <2>1
  <2> QED
    BY <1>1, <2>2, AheadGrows
<1> HIDE DEF A, d, t
<1>8. t[1].at = r
  <2>1. CASE s = <<>>
    BY <1>2, <2>1 DEF Chain
  <2>2. CASE s # <<>>
    <3>1. 1 \in 1 .. n
      BY <1>2, <2>2, EmptySeq
    <3> QED
      BY <1>2, <2>2, <3>1 DEF Chain
  <2> QED
    BY <2>1, <2>2
<1>9. \A i \in 1 .. Len(t) :
        Ahead(t[i].at, d) = Aligned(t[i].len) + (IF i = Len(t) THEN 0 ELSE Ahead(t[i + 1].at, d))
  <2> TAKE i \in 1 .. Len(t)
  <2>1. CASE i = n + 1
    BY <1>1, <1>2, <1>7, <2>1 DEF A
  <2>2. CASE i \in 1 .. n
    <3>1. Ahead(s[i].at, c) = Aligned(s[i].len) + (IF i = n THEN 0 ELSE Ahead(s[i + 1].at, c))
      BY <2>2 DEF Chain
    <3>2. Ahead(t[i].at, d) = Ahead(s[i].at, c) + A /\ t[i] = s[i] /\ Aligned(s[i].len) \in Nat
      BY <1>2, <1>3, <1>6, <2>2
    <3>3. CASE i = n
      <4>1. Ahead(t[i + 1].at, d) = A
        BY <1>2, <1>7, <3>3
      <4> QED
        BY <1>1, <1>2, <3>1, <3>2, <3>3, <4>1
    <3>4. CASE i # n
      <4>1. i + 1 \in 1 .. n
        BY <1>2, <2>2, <3>4
      <4>2. Ahead(t[i + 1].at, d) = Ahead(s[i + 1].at, c) + A /\ Ahead(s[i + 1].at, c) \in Int
        <5>1. t[i + 1] = s[i + 1] /\ Ahead(s[i + 1].at, d) = Ahead(s[i + 1].at, c) + A
          BY <1>2, <1>6, <4>1
        <5>2. Ahead(s[i + 1].at, c) \in 0 .. RBLEN_SIZE - 1
          BY <1>3, <4>1, AheadIs
        <5> QED
          BY <1>1, <5>1, <5>2
      <4>3. i # Len(t)
        BY <1>2, <2>2
      <4>4. Ahead(s[i].at, c) = Aligned(s[i].len) + Ahead(s[i + 1].at, c)
        BY <3>1, <3>4
      <4>5. Ahead(t[i].at, d) = Aligned(s[i].len) + Ahead(t[i + 1].at, d)
        BY <1>1, <3>2, <4>2, <4>4
      <4> QED
        BY <3>2, <4>3, <4>5
    <3> QED
      BY <3>3, <3>4
  <2> QED
    BY <1>2, <2>1, <2>2
<1>10. \A i, j \in 1 .. Len(t) : i <= j => Ahead(t[j].at, d) <= Ahead(t[i].at, d)
  <2> SUFFICES ASSUME NEW i \in 1 .. Len(t), NEW j \in 1 .. Len(t), i <= j
               PROVE  Ahead(t[j].at, d) <= Ahead(t[i].at, d)
    OBVIOUS
  <2>1. \A k \in 1 .. n : Ahead(t[k].at, d) = Ahead(s[k].at, c) + A /\ Ahead(s[k].at, c) \in Nat
    <3> TAKE k \in 1 .. n
    <3>1. t[k] = s[k] /\ Ahead(s[k].at, d) = Ahead(s[k].at, c) + A
      BY <1>2, <1>6
    <3>2. Ahead(s[k].at, c) \in 0 .. RBLEN_SIZE - 1
      BY <1>3, AheadIs
    <3> QED
      BY <1>1, <3>1, <3>2
  <2>2. Ahead(t[n + 1].at, d) = A
    BY <1>2, <1>7
  <2>3. CASE j = n + 1
    BY <1>1, <1>2, <2>1, <2>2, <2>3
  <2>4. CASE j \in 1 .. n
    <3>1. i \in 1 .. n
      BY <1>2, <2>4
    <3>2. Ahead(s[j].at, c) <= Ahead(s[i].at, c)
      BY <2>4, <3>1 DEF Chain
    <3> QED
      BY <1>1, <2>1, <2>4, <3>1, <3>2
  <2> QED
    BY <1>2, <2>3, <2>4
<1> QED
  BY <1>2, <1>8, <1>9, <1>10 DEF Chain, t, d, A

(* The oldest frame is skipped, whose header is where the driver reads.    *)
LEMMA ChainTail ==
    ASSUME NEW s \in Seq(Frame), NEW r \in 0 .. RBLEN_SIZE - 1, NEW c \in 0 .. RBLEN_SIZE - 1,
           s # <<>>, Chain(s, r, c)
    PROVE  /\ r # c /\ Head(s).at = r /\ Aligned(Head(s).len) \in 0 .. RBLEN_SIZE - 1
           /\ Chain(Tail(s), Fold(r + Aligned(Head(s).len)), c)
<1> DEFINE A == Aligned(s[1].len)
           t == Tail(s)
           n == Len(s)
           q == Fold(r + A)
<1>1. RBLEN_SIZE \in Nat \ {0}
  BY NetworkAssumption
<1>2. /\ n \in Nat \ {0} /\ t \in Seq(Frame) /\ Len(t) = n - 1 /\ Head(s) = s[1] /\ 1 \in 1 .. n
      /\ \A i \in 1 .. n - 1 : t[i] = s[i + 1] /\ i + 1 \in 1 .. n
  <2>1. n \in Nat \ {0}
    BY EmptySeq
  <2>2. t \in Seq(Frame) /\ Len(t) = n - 1 /\ \A i \in 1 .. n - 1 : t[i] = s[i + 1]
    BY HeadTailProperties
  <2> QED
    BY <2>1, <2>2
<1>3. \A i \in 1 .. n : /\ s[i].at \in 0 .. RBLEN_SIZE - 1 /\ Aligned(s[i].len) \in Nat
                        /\ Aligned(s[i].len) >= 4 /\ Ahead(s[i].at, c) \in 0 .. RBLEN_SIZE - 1
  BY ElementOfSeq, FrameIs, AheadIs
<1>4. s[1].at = r /\ A \in Nat /\ A >= 4
  BY <1>2, <1>3 DEF Chain
<1>5. Ahead(r, c) = A + (IF n = 1 THEN 0 ELSE Ahead(s[2].at, c))
  <2>1. Ahead(s[1].at, c)
            = Aligned(s[1].len) + (IF 1 = Len(s) THEN 0 ELSE Ahead(s[1 + 1].at, c))
    BY <1>2 DEF Chain
  <2> QED
    BY <1>2, <1>4, <2>1
<1>6. A <= RBLEN_SIZE - 1 /\ r # c
  <2>1. n = 1 \/ Ahead(s[2].at, c) \in Nat
    BY <1>1, <1>2, <1>3
  <2>2. Ahead(r, c) \in 0 .. RBLEN_SIZE - 1 /\ (Ahead(r, c) = 0 <=> r = c)
    BY AheadIs
  <2> HIDE DEF A
  <2>3. Ahead(r, c) >= A
    BY <1>1, <1>4, <1>5, <2>1, <2>2
  <2> QED
    BY <1>1, <1>4, <2>2, <2>3
<1>7. (n = 1 => c = q) /\ (n # 1 => t[1].at = q)
  <2>1. CASE n = 1
    <3>1. Ahead(c, c) = 0 /\ Ahead(r, c) = A + Ahead(c, c)
      BY <1>4, <1>5, <2>1, AheadIs
    <3> HIDE DEF A
    <3>2. c = Fold(r + A)
      BY <1>4, <3>1, AheadShrinks
    <3> QED
      BY <2>1, <3>2
  <2>2. CASE n # 1
    <3>1. t[1] = s[2] /\ s[2].at \in 0 .. RBLEN_SIZE - 1
      BY <1>2, <1>3, <2>2
    <3>2. Ahead(r, c) = A + Ahead(s[2].at, c)
      BY <1>5, <2>2
    <3> HIDE DEF A
    <3>3. s[2].at = Fold(r + A)
      BY <1>4, <3>1, <3>2, AheadShrinks
    <3> QED
      BY <2>2, <3>1, <3>3
  <2> QED
    BY <2>1, <2>2, Zenon
<1> HIDE DEF A, t, q
<1>8. t = <<>> <=> n = 1
  BY <1>2
<1>9. \A i \in 1 .. Len(t) :
        Ahead(t[i].at, c) = Aligned(t[i].len) + (IF i = Len(t) THEN 0 ELSE Ahead(t[i + 1].at, c))
  <2> TAKE i \in 1 .. Len(t)
  <2>1. i \in 1 .. n - 1 /\ t[i] = s[i + 1] /\ i + 1 \in 1 .. n
    BY <1>2
  <2>2. Ahead(s[i + 1].at, c)
            = Aligned(s[i + 1].len) + (IF i + 1 = n THEN 0 ELSE Ahead(s[i + 1 + 1].at, c))
    BY <2>1 DEF Chain
  <2>3. i + 1 = n <=> i = Len(t)
    BY <1>2, <2>1
  <2>4. i # Len(t) => t[i + 1] = s[i + 1 + 1]
    BY <1>2, <2>1
  <2> QED
    BY <2>1, <2>2, <2>3, <2>4
<1>10. \A i, j \in 1 .. Len(t) : i <= j => Ahead(t[j].at, c) <= Ahead(t[i].at, c)
  <2> SUFFICES ASSUME NEW i \in 1 .. Len(t), NEW j \in 1 .. Len(t), i <= j
               PROVE  Ahead(t[j].at, c) <= Ahead(t[i].at, c)
    OBVIOUS
  <2>1. t[i] = s[i + 1] /\ t[j] = s[j + 1] /\ i + 1 \in 1 .. n /\ j + 1 \in 1 .. n /\ i + 1 <= j + 1
    BY <1>2
  <2> QED
    BY <2>1 DEF Chain
<1>11. Chain(t, q, c)
  BY <1>7, <1>8, <1>9, <1>10 DEF Chain
<1> QED
  BY <1>2, <1>4, <1>6, <1>11 DEF t, q, A

(* The driver reads where the card thinks it does.                         *)
LEMMA Reading ==
    ASSUME CardTypes, DriverTypes, PlaceInv, Settled
    PROVE  ReadAddress = rx_ring_offset
<1>1. /\ rx_cur_address \in 0 .. AddressSpace - 1
      /\ CAPR = (rx_cur_address - CAPR_DATA_OFF + AddressSpace) % AddressSpace
      /\ rx_ring_offset = rx_cur_address % RBLEN_SIZE
  BY DEF DriverTypes, PlaceInv
<1>2. (((rx_cur_address - CAPR_DATA_OFF + AddressSpace) % AddressSpace) + CAPR_DATA_OFF) % RBLEN_SIZE
          = rx_cur_address % RBLEN_SIZE
  BY <1>1, CaprPosition
<1> QED
  BY <1>1, <1>2, Zenon DEF ReadAddress

(* What writing RL_RCR leaves.                                             *)
LEMMA ResetIs ==
    ASSUME ResetRing
    PROVE  /\ unread' = <<>> /\ unread' \in Seq(Frame) /\ CBR' = 0 /\ CBR' \in 0 .. RBLEN_SIZE - 1
           /\ CAPR' \in 0 .. AddressSpace - 1 /\ ChainInv'
           /\ CAPR' = (0 - CAPR_DATA_OFF + AddressSpace) % AddressSpace
           /\ 0 = 0 % RBLEN_SIZE /\ 0 \in 0 .. RBLEN_SIZE - 1 /\ 0 \in 0 .. AddressSpace - 1
<1>1. /\ RBLEN_SIZE \in Nat \ {0} /\ AddressSpace \in Nat \ {0} /\ AddressSpace % RBLEN_SIZE = 0
      /\ CAPR_DATA_OFF \in 1 .. AddressSpace
  BY NetworkAssumption
<1>2. unread' = <<>> /\ CBR' = 0 /\ CAPR' = AddressSpace - CAPR_DATA_OFF
  BY DEF ResetRing
<1>3. 0 - CAPR_DATA_OFF + AddressSpace \in 0 .. AddressSpace - 1
  BY <1>1
<1>4. (0 - CAPR_DATA_OFF + AddressSpace) % AddressSpace = 0 - CAPR_DATA_OFF + AddressSpace
  BY <1>1, <1>3, ModSmall
<1>5. CAPR' = (0 - CAPR_DATA_OFF + AddressSpace) % AddressSpace /\ CAPR' \in 0 .. AddressSpace - 1
  BY <1>1, <1>2, <1>3, <1>4
<1>6. CAPR' + CAPR_DATA_OFF = AddressSpace
  BY <1>1, <1>2
<1>7. ReadAddress' = 0
  BY <1>1, <1>6 DEF ReadAddress
<1>8. ChainInv'
  BY <1>2, <1>7 DEF ChainInv, Chain
<1>9. 0 \in 0 .. RBLEN_SIZE - 1 /\ 0 \in 0 .. AddressSpace - 1
  BY <1>1
<1>10. 0 % RBLEN_SIZE = 0
  BY <1>1, <1>9, ModSmall
<1> QED
  BY <1>2, <1>5, <1>8, <1>9, <1>10, EmptySeq

(* What rtl_receive_packets finds at its offset.                           *)
LEMMA HeaderIs ==
    ASSUME CardInv, irq = "receive", ~BUFE
    PROVE  /\ unread # <<>> /\ HeaderAt(rx_ring_offset) = Head(unread) /\ Head(unread) \in Frame
           /\ rx_ring_offset = Head(unread).at /\ Settled /\ ReadAddress = rx_ring_offset
<1>1. CardTypes /\ DriverTypes /\ ModeInv /\ PlaceInv /\ ChainInv
  BY DEF CardInv, RingInv
<1>2. Settled
  BY <1>1 DEF ModeInv, Settled
<1>3. ReadAddress = rx_ring_offset
  BY <1>1, <1>2, Reading
<1>4. unread # <<>>
  BY <1>1 DEF ChainInv, Chain, BUFE
<1>5. ReadAddress \in 0 .. RBLEN_SIZE - 1 /\ CBR \in 0 .. RBLEN_SIZE - 1 /\ unread \in Seq(Frame)
  BY <1>1, RoomIs DEF CardTypes
<1>6. Chain(unread, ReadAddress, CBR)
  BY <1>1 DEF ChainInv
<1>7. Head(unread).at = ReadAddress
  BY <1>4, <1>5, <1>6, ChainTail
<1>8. Head(unread) \in Frame
  BY <1>4, <1>5, HeadTailProperties
<1>9. HeaderAt(rx_ring_offset) = Head(unread)
  BY <1>3, <1>4, <1>7 DEF HeaderAt
<1> QED
  BY <1>2, <1>3, <1>4, <1>7, <1>8, <1>9

LEMMA SkipIs ==
    ASSUME CardInv, irq = "receive", ~BUFE, SkipFrame(Head(unread).len), CBR' = CBR
    PROVE  /\ unread' = Tail(unread) /\ unread' \in Seq(Frame) /\ irq' = irq
           /\ CAPR' \in 0 .. AddressSpace - 1 /\ rx_cur_address' \in 0 .. AddressSpace - 1
           /\ rx_ring_offset' \in 0 .. RBLEN_SIZE - 1
           /\ rx_ring_offset' = rx_cur_address' % RBLEN_SIZE
           /\ CAPR' = (rx_cur_address' - CAPR_DATA_OFF + AddressSpace) % AddressSpace
           /\ ChainInv'
<1> DEFINE A == Aligned(Head(unread).len)
           d == (rx_cur_address + A) % AddressSpace
<1>1. CardTypes /\ DriverTypes /\ ModeInv /\ PlaceInv /\ ChainInv
  BY DEF CardInv, RingInv
<1>2. /\ unread # <<>> /\ Settled /\ ReadAddress = rx_ring_offset
      /\ RBLEN_SIZE \in Nat \ {0} /\ AddressSpace \in Nat \ {0}
      /\ CAPR_DATA_OFF \in 1 .. AddressSpace
  BY HeaderIs, NetworkAssumption
<1>3. /\ ReadAddress \in 0 .. RBLEN_SIZE - 1 /\ CBR \in 0 .. RBLEN_SIZE - 1
      /\ unread \in Seq(Frame) /\ Chain(unread, ReadAddress, CBR)
  BY <1>1, RoomIs DEF CardTypes, ChainInv
<1>4. /\ A \in 0 .. RBLEN_SIZE - 1
      /\ Chain(Tail(unread), Fold(ReadAddress + A), CBR)
  BY <1>2, <1>3, ChainTail
<1>5. /\ rx_cur_address \in 0 .. AddressSpace - 1 /\ rx_ring_offset \in 0 .. RBLEN_SIZE - 1
      /\ rx_ring_offset = rx_cur_address % RBLEN_SIZE
  BY <1>1 DEF DriverTypes, PlaceInv
<1>6. /\ rx_cur_address' = d /\ rx_ring_offset' = Fold(rx_ring_offset + A)
      /\ CAPR' = (rx_cur_address + A - CAPR_DATA_OFF + AddressSpace) % AddressSpace
      /\ unread' = Tail(unread) /\ irq' = irq
  BY DEF SkipFrame, OffsetAfter, Fold
<1> HIDE DEF A
<1>7. /\ d \in 0 .. AddressSpace - 1 /\ d % RBLEN_SIZE = Fold((rx_cur_address % RBLEN_SIZE) + A)
      /\ (rx_cur_address + A - CAPR_DATA_OFF + AddressSpace) % AddressSpace
             = (d - CAPR_DATA_OFF + AddressSpace) % AddressSpace
  BY <1>4, <1>5, Advance, Zenon
<1>8. rx_ring_offset' \in 0 .. RBLEN_SIZE - 1
  BY <1>2, <1>4, <1>5, <1>6 DEF Fold
<1>9. rx_ring_offset' = rx_cur_address' % RBLEN_SIZE
  BY <1>5, <1>6, <1>7, Zenon
<1>10. CAPR' = (rx_cur_address' - CAPR_DATA_OFF + AddressSpace) % AddressSpace
  BY <1>6, <1>7, Zenon
<1> HIDE DEF d
<1>11. CAPR' \in 0 .. AddressSpace - 1
  <2>1. d - CAPR_DATA_OFF + AddressSpace \in Int
    BY <1>2, <1>7
  <2> QED
    BY <1>2, <1>6, <1>10, <2>1, ModRange
<1>12. ReadAddress' = rx_ring_offset'
  <2>1. (((d - CAPR_DATA_OFF + AddressSpace) % AddressSpace) + CAPR_DATA_OFF) % RBLEN_SIZE = d % RBLEN_SIZE
    BY <1>7, CaprPosition
  <2> QED
    BY <1>6, <1>9, <1>10, <2>1, Zenon DEF ReadAddress
<1>13. ChainInv'
  BY <1>2, <1>4, <1>6, <1>12 DEF ChainInv
<1>14. unread' \in Seq(Frame)
  BY <1>2, <1>3, <1>6, HeadTailProperties
<1> QED
  BY <1>6, <1>7, <1>8, <1>9, <1>10, <1>11, <1>13, <1>14

(* Steps that leave the card and the driver alone.                         *)
LEMMA CardKept ==
    ASSUME CardInv, UNCHANGED <<cardVars, driverVars>>
    PROVE  CardInv'
<1>1. /\ UNCHANGED <<unread, CBR, CAPR, RE, IMR, linkUp, ISR, arrived, links>>
      /\ UNCHANGED <<rx_cur_address, rx_ring_offset, drvStatus, lineOn, irq, isr, op, restarts>>
  BY DEF cardVars, driverVars
<1>2. CardTypes' /\ DriverTypes'
  BY <1>1 DEF CardInv, CardTypes, DriverTypes
<1>3. ModeInv' /\ PlaceInv' /\ PendingInv'
  BY <1>1 DEF CardInv, RingInv, ModeInv, PlaceInv, PendingInv, Settled
<1>4. ChainInv'
  BY <1>1 DEF CardInv, RingInv, ChainInv, ReadAddress
<1> QED
  BY <1>2, <1>3, <1>4 DEF CardInv, RingInv

LEMMA FrameArrivesRing ==
    ASSUME CardInv, FrameArrives
    PROVE  CardInv'
<1>1. CardTypes /\ DriverTypes /\ ModeInv /\ PlaceInv /\ ChainInv /\ PendingInv
  BY DEF CardInv, RingInv
<1>2. /\ arrived' = arrived + 1 /\ UNCHANGED <<CAPR, RE, IMR, linkUp, links>>
      /\ UNCHANGED <<rx_cur_address, rx_ring_offset, drvStatus, lineOn, irq, isr, op, restarts>>
  BY DEF FrameArrives, driverVars
<1>3. DriverTypes' /\ ModeInv' /\ ReadAddress' = ReadAddress /\ (Settled' <=> Settled)
  BY <1>1, <1>2 DEF DriverTypes, ModeInv, ReadAddress, Settled
<1>4. CASE UNCHANGED <<unread, CBR>> /\ ISR \subseteq ISR' /\ ISR' \subseteq ISR \cup {"RXOVW"}
  <2>1. CardTypes'
    BY <1>1, <1>2, <1>4 DEF CardTypes
  <2>2. PlaceInv' /\ ChainInv' /\ PendingInv'
    BY <1>1, <1>2, <1>3, <1>4 DEF PlaceInv, ChainInv, PendingInv
  <2> QED
    BY <1>3, <2>1, <2>2 DEF CardInv, RingInv
<1>5. ASSUME NEW len \in FrameLength, NEW ok \in BOOLEAN, RE, Aligned(len) < Room,
             unread' = Append(unread, [at |-> CBR, id |-> arrived + 1, len |-> len, ok |-> ok]),
             CBR' = (CBR + Aligned(len)) % RBLEN_SIZE, ISR' = ISR \cup {"ROK"}
      PROVE  CardInv'
  <2> DEFINE f == [at |-> CBR, id |-> arrived + 1, len |-> len, ok |-> ok]
             A == Aligned(len)
  <2>1. RBLEN_SIZE \in Nat \ {0} /\ CBR \in 0 .. RBLEN_SIZE - 1 /\ unread \in Seq(Frame) /\ CBR \in Nat
    BY <1>1, NetworkAssumption DEF CardTypes
  <2>2. f \in Frame /\ f.at = CBR /\ f.len = len
    BY <1>1, <2>1 DEF Frame, CardTypes
  <2>3. A \in Nat /\ A >= 4
    BY NetworkAssumption, AlignedIs
  <2>4. /\ ReadAddress \in 0 .. RBLEN_SIZE - 1 /\ Room = RBLEN_SIZE - Ahead(ReadAddress, CBR)
        /\ Ahead(ReadAddress, CBR) \in 0 .. RBLEN_SIZE - 1
    BY <1>1, <2>1, RoomIs, AheadIs DEF CardTypes
  <2>5. A < RBLEN_SIZE - Ahead(ReadAddress, CBR) /\ A \in 0 .. RBLEN_SIZE - 1
    BY <1>5, <2>1, <2>3, <2>4
  <2> HIDE DEF f, A
  <2>6. CBR' = Fold(CBR + A) /\ CBR' \in 0 .. RBLEN_SIZE - 1
    <3>1. (CBR + A) % RBLEN_SIZE = Fold((CBR % RBLEN_SIZE) + A)
      BY <2>1, <2>5, FoldMod
    <3>2. CBR % RBLEN_SIZE = CBR
      BY <2>1, ModSmall
    <3>3. CBR' = Fold(CBR + A)
      BY <1>5, <3>1, <3>2, Zenon DEF A
    <3> QED
      BY <2>1, <2>5, <3>3 DEF Fold
  <2>7. unread' = Append(unread, f) /\ unread' \in Seq(Frame)
    BY <1>5, <2>1, <2>2, AppendProperties DEF f
  <2>8. Chain(Append(unread, f), ReadAddress, Fold(CBR + Aligned(f.len)))
    BY <1>1, <2>1, <2>2, <2>4, <2>5, ChainAppend DEF ChainInv, A
  <2>9. ChainInv'
    BY <1>3, <2>2, <2>6, <2>7, <2>8, Zenon DEF ChainInv, A
  <2>10. CardTypes'
    BY <1>1, <1>2, <1>5, <2>6, <2>7 DEF CardTypes
  <2>11. drvStatus = "RUN" /\ op \in {"idle", "off"} /\ Settled
    BY <1>1, <1>5 DEF ModeInv, Settled
  <2>12. PlaceInv'
    BY <1>1, <1>2, <1>3, <2>11 DEF PlaceInv
  <2>13. PendingInv'
    BY <1>5 DEF PendingInv
  <2> QED
    BY <1>3, <2>9, <2>10, <2>12, <2>13 DEF CardInv, RingInv
<1> QED
  BY <1>4, <1>5 DEF FrameArrives

LEMMA LinkChangesRing ==
    ASSUME CardInv, LinkChanges
    PROVE  CardInv'
<1>1. CardTypes /\ DriverTypes /\ ModeInv /\ PlaceInv /\ ChainInv /\ PendingInv
  BY DEF CardInv, RingInv
<1>2. /\ links' = links + 1 /\ linkUp' = ~linkUp /\ ISR' = ISR \cup {"PUN"}
      /\ UNCHANGED <<unread, CBR, CAPR, RE, IMR, arrived>>
      /\ UNCHANGED <<rx_cur_address, rx_ring_offset, drvStatus, lineOn, irq, isr, op, restarts>>
  BY DEF LinkChanges, driverVars
<1>3. CardTypes' /\ DriverTypes'
  BY <1>1, <1>2 DEF CardTypes, DriverTypes
<1>4. ModeInv' /\ PlaceInv' /\ PendingInv'
  BY <1>1, <1>2 DEF ModeInv, PlaceInv, PendingInv, Settled
<1>5. ChainInv'
  BY <1>1, <1>2 DEF ChainInv, ReadAddress
<1> QED
  BY <1>3, <1>4, <1>5 DEF CardInv, RingInv

(* The handler: the ring is read or set back in two of its steps, and      *)
(* found empty in a third.                                                 *)
LEMMA HandlerStartsRing ==
    ASSUME CardInv, rtl_int_handler \/ AckInterrupt
    PROVE  CardInv'
<1>1. CardTypes /\ DriverTypes /\ ModeInv /\ PlaceInv /\ ChainInv /\ PendingInv
  BY DEF CardInv, RingInv
<1>2. /\ UNCHANGED <<unread, CBR, CAPR, RE, IMR, linkUp, arrived, links>>
      /\ UNCHANGED <<rx_cur_address, rx_ring_offset, drvStatus, lineOn, op, restarts>>
  BY DEF rtl_int_handler, AckInterrupt, cardVars
<1>3. PlaceInv'
  BY <1>1, <1>2 DEF PlaceInv, Settled
<1>4. ChainInv'
  BY <1>1, <1>2 DEF ChainInv, ReadAddress
<1>5. CASE rtl_int_handler
  <2>1. lineOn /\ IMR /\ irq = "idle" /\ isr' = ISR /\ irq' = "ack" /\ ISR' = ISR
    BY <1>5 DEF rtl_int_handler, cardVars
  <2>2. CardTypes' /\ DriverTypes'
    BY <1>1, <1>2, <2>1 DEF CardTypes, DriverTypes
  <2>3. ModeInv' /\ PendingInv'
    BY <1>1, <1>2, <2>1 DEF ModeInv, PendingInv
  <2> QED
    BY <1>3, <1>4, <2>2, <2>3 DEF CardInv, RingInv
<1>6. CASE AckInterrupt
  <2>1. /\ irq = "ack" /\ ISR' = ISR \ isr /\ isr' = isr
        /\ irq' = IF "ROK" \in isr THEN "receive" ELSE AfterReceive
    BY <1>6 DEF AckInterrupt
  <2>2. CardTypes' /\ DriverTypes'
    BY <1>1, <1>2, <2>1 DEF CardTypes, DriverTypes, AfterReceive
  <2>3. ModeInv' /\ PendingInv'
    BY <1>1, <1>2, <2>1 DEF ModeInv, PendingInv, AfterReceive
  <2> QED
    BY <1>3, <1>4, <2>2, <2>3 DEF CardInv, RingInv
<1> QED
  BY <1>5, <1>6

LEMMA HandlerReadsRing ==
    ASSUME CardInv, rtl_receive_packets
    PROVE  CardInv'
<1>1. CardTypes /\ DriverTypes /\ ModeInv /\ PlaceInv /\ ChainInv /\ PendingInv
  BY DEF CardInv, RingInv
<1>2. /\ irq = "receive" /\ ~BUFE
      /\ UNCHANGED <<CBR, RE, IMR, ISR, linkUp, arrived, links>>
      /\ UNCHANGED <<drvStatus, lineOn, isr, op, restarts>>
  BY DEF rtl_receive_packets
<1>3. unread # <<>> /\ HeaderAt(rx_ring_offset) = Head(unread) /\ Settled
  BY <1>2, HeaderIs
<1>4. \/ SkipFrame(Head(unread).len)
      \/ irq' = "clear" /\ UNCHANGED <<rx_cur_address, rx_ring_offset, CAPR, unread>>
  BY <1>3 DEF rtl_receive_packets
<1>5. drvStatus = "RUN" /\ op = "idle" /\ Settled'
  BY <1>1, <1>2 DEF ModeInv, Settled
<1>6. CASE SkipFrame(Head(unread).len)
  <2>1. /\ unread' \in Seq(Frame) /\ irq' = irq
        /\ CAPR' \in 0 .. AddressSpace - 1 /\ rx_cur_address' \in 0 .. AddressSpace - 1
        /\ rx_ring_offset' \in 0 .. RBLEN_SIZE - 1
        /\ rx_ring_offset' = rx_cur_address' % RBLEN_SIZE
        /\ CAPR' = (rx_cur_address' - CAPR_DATA_OFF + AddressSpace) % AddressSpace
        /\ ChainInv'
    BY <1>2, <1>6, SkipIs
  <2>2. CardTypes' /\ DriverTypes'
    BY <1>1, <1>2, <2>1 DEF CardTypes, DriverTypes
  <2>3. ModeInv' /\ PendingInv'
    BY <1>1, <1>2, <2>1 DEF ModeInv, PendingInv
  <2>4. PlaceInv'
    BY <1>2, <1>5, <2>1 DEF PlaceInv
  <2> QED
    BY <2>1, <2>2, <2>3, <2>4 DEF CardInv, RingInv
<1>7. CASE irq' = "clear" /\ UNCHANGED <<rx_cur_address, rx_ring_offset, CAPR, unread>>
  <2>1. CardTypes' /\ DriverTypes'
    BY <1>1, <1>2, <1>7 DEF CardTypes, DriverTypes
  <2>2. ModeInv' /\ PendingInv' /\ PlaceInv'
    BY <1>1, <1>2, <1>3, <1>5, <1>7 DEF ModeInv, PendingInv, PlaceInv
  <2>3. ChainInv'
    BY <1>1, <1>2, <1>7 DEF ChainInv, ReadAddress
  <2> QED
    BY <2>1, <2>2, <2>3 DEF CardInv, RingInv
<1> QED
  BY <1>4, <1>6, <1>7

LEMMA ConfigIs ==
    ASSUME rtl_config_rx
    PROVE  /\ unread' = <<>> /\ unread' \in Seq(Frame) /\ CBR' \in 0 .. RBLEN_SIZE - 1
           /\ CAPR' \in 0 .. AddressSpace - 1 /\ rx_cur_address' \in 0 .. AddressSpace - 1
           /\ rx_ring_offset' \in 0 .. RBLEN_SIZE - 1
           /\ rx_ring_offset' = rx_cur_address' % RBLEN_SIZE
           /\ CAPR' = (rx_cur_address' - CAPR_DATA_OFF + AddressSpace) % AddressSpace
           /\ ChainInv'
<1>1. ResetRing /\ rx_cur_address' = 0 /\ rx_ring_offset' = 0
  BY DEF rtl_config_rx
<1> QED
  BY <1>1, ResetIs

LEMMA HandlerEndsRing ==
    ASSUME CardInv, ReceiveEnds \/ rtl_clear_rx \/ rtl_interrupts_link
    PROVE  CardInv'
<1>1. CardTypes /\ DriverTypes /\ ModeInv /\ PlaceInv /\ ChainInv /\ PendingInv
  BY DEF CardInv, RingInv
<1>2. CASE ReceiveEnds
  <2>1. /\ irq = "receive" /\ BUFE /\ irq' = AfterReceive
        /\ UNCHANGED <<unread, CBR, CAPR, RE, IMR, ISR, linkUp, arrived, links>>
        /\ UNCHANGED <<rx_cur_address, rx_ring_offset, drvStatus, lineOn, isr, op, restarts>>
    BY <1>2 DEF ReceiveEnds, LoopEnds, cardVars
  <2>2. unread = <<>>
    <3>1. /\ ReadAddress \in 0 .. RBLEN_SIZE - 1 /\ CBR \in 0 .. RBLEN_SIZE - 1
          /\ unread \in Seq(Frame) /\ Chain(unread, ReadAddress, CBR) /\ CBR = ReadAddress
      BY <1>1, <2>1, RoomIs DEF CardTypes, ChainInv, BUFE
    <3> QED
      BY <3>1, ChainTail
  <2>3. CardTypes' /\ DriverTypes'
    BY <1>1, <2>1 DEF CardTypes, DriverTypes, AfterReceive
  <2>4. ModeInv' /\ PlaceInv' /\ PendingInv'
    BY <1>1, <2>1, <2>2 DEF ModeInv, PlaceInv, PendingInv, Settled, AfterReceive
  <2>5. ChainInv'
    BY <1>1, <2>1 DEF ChainInv, ReadAddress
  <2> QED
    BY <2>3, <2>4, <2>5 DEF CardInv, RingInv
<1>3. CASE rtl_clear_rx
  <2>1. /\ irq \in {"clear", "clearOvw"} /\ rtl_config_rx
        /\ irq' = IF irq = "clear" THEN AfterReceive ELSE "link"
        /\ UNCHANGED <<RE, IMR, ISR, linkUp, arrived, links, drvStatus, lineOn, isr, op, restarts>>
    BY <1>3 DEF rtl_clear_rx
  <2>2. CardTypes' /\ DriverTypes'
    BY <1>1, <2>1, ConfigIs DEF CardTypes, DriverTypes, AfterReceive
  <2>3. ModeInv' /\ PendingInv'
    BY <1>1, <2>1, ConfigIs DEF ModeInv, PendingInv, AfterReceive
  <2>4. PlaceInv' /\ ChainInv'
    BY <2>1, ConfigIs DEF PlaceInv
  <2> QED
    BY <2>2, <2>3, <2>4 DEF CardInv, RingInv
<1>4. CASE rtl_interrupts_link
  <2>1. /\ irq = "link" /\ irq' = "idle" /\ isr' = {}
        /\ UNCHANGED <<unread, CBR, CAPR, RE, IMR, ISR, linkUp, arrived, links>>
        /\ UNCHANGED <<rx_cur_address, rx_ring_offset, drvStatus, lineOn, op, restarts>>
    BY <1>4 DEF rtl_interrupts_link, cardVars
  <2>2. CardTypes' /\ DriverTypes'
    BY <1>1, <2>1 DEF CardTypes, DriverTypes
  <2>3. ModeInv' /\ PlaceInv' /\ PendingInv'
    BY <1>1, <2>1 DEF ModeInv, PlaceInv, PendingInv, Settled
  <2>4. ChainInv'
    BY <1>1, <2>1 DEF ChainInv, ReadAddress
  <2> QED
    BY <2>2, <2>3, <2>4 DEF CardInv, RingInv
<1> QED
  BY <1>2, <1>3, <1>4

(* rtl_start, rtl_stop and rtl_done, step by step.                         *)
LEMMA DriverRing ==
    ASSUME CardInv, Driver
    PROVE  CardInv'
<1>1. CardTypes /\ DriverTypes /\ ModeInv /\ PlaceInv /\ ChainInv /\ PendingInv
  BY DEF CardInv, RingInv
<1>2. CASE ResetAndConfigTx
  <2>1. /\ irq = "idle" /\ op = "idle" /\ drvStatus # "RUN" /\ op' = "rx" /\ ISR' = {}
        /\ RE' = FALSE /\ IMR' = TRUE /\ ResetRing
        /\ UNCHANGED <<linkUp, arrived, links>>
        /\ UNCHANGED <<rx_cur_address, rx_ring_offset, drvStatus, lineOn, irq, isr, restarts>>
    BY <1>2 DEF ResetAndConfigTx, Thr, rtl_set_interrupt_mask
  <2>2. CardTypes' /\ DriverTypes'
    BY <1>1, <2>1, ResetIs DEF CardTypes, DriverTypes
  <2>3. ModeInv' /\ PlaceInv' /\ PendingInv'
    BY <1>1, <2>1, ResetIs DEF ModeInv, PlaceInv, PendingInv, Settled
  <2> QED
    BY <2>1, <2>2, <2>3, ResetIs DEF CardInv, RingInv
<1>3. CASE ConfigRx
  <2>1. /\ irq = "idle" /\ op = "rx" /\ op' = "go" /\ rtl_config_rx
        /\ UNCHANGED <<RE, IMR, ISR, linkUp, arrived, links, drvStatus, lineOn, irq, isr, restarts>>
    BY <1>3 DEF ConfigRx, Thr
  <2>2. CardTypes' /\ DriverTypes'
    BY <1>1, <2>1, ConfigIs DEF CardTypes, DriverTypes
  <2>3. ModeInv' /\ PlaceInv' /\ PendingInv' /\ ChainInv'
    BY <1>1, <2>1, ConfigIs DEF ModeInv, PlaceInv, PendingInv
  <2> QED
    BY <2>2, <2>3 DEF CardInv, RingInv
<1>4. CASE rtl_start
  <2>1. /\ irq = "idle" /\ op = "go" /\ op' = "idle"
        /\ RE' = TRUE /\ lineOn' = TRUE /\ drvStatus' = "RUN"
        /\ UNCHANGED <<unread, CBR, CAPR, IMR, ISR, linkUp, arrived, links>>
        /\ UNCHANGED <<rx_cur_address, rx_ring_offset, irq, isr, restarts>>
    BY <1>4 DEF rtl_start, Thr
  <2>2. CardTypes' /\ DriverTypes'
    BY <1>1, <2>1 DEF CardTypes, DriverTypes
  <2>3. ModeInv' /\ PlaceInv' /\ PendingInv'
    BY <1>1, <2>1 DEF ModeInv, PlaceInv, PendingInv, Settled
  <2>4. ChainInv'
    BY <1>1, <2>1 DEF ChainInv, ReadAddress
  <2> QED
    BY <2>2, <2>3, <2>4 DEF CardInv, RingInv
<1>5. CASE rtl_clear_interrupt_mask
  <2>1. /\ irq = "idle" /\ op = "idle" /\ drvStatus = "RUN" /\ op' = "off" /\ IMR' = FALSE
        /\ restarts' = restarts + 1
        /\ UNCHANGED <<unread, CBR, CAPR, RE, ISR, linkUp, arrived, links>>
        /\ UNCHANGED <<rx_cur_address, rx_ring_offset, drvStatus, lineOn, irq, isr>>
    BY <1>5 DEF rtl_clear_interrupt_mask, Thr
  <2>2. CardTypes'
    BY <1>1, <2>1 DEF CardTypes
  <2>3. DriverTypes'
    <3>1. restarts' \in Nat
      BY <1>1, <2>1 DEF DriverTypes
    <3> QED
      BY <1>1, <2>1, <3>1 DEF DriverTypes
  <2>4. ModeInv' /\ PlaceInv' /\ PendingInv'
    BY <1>1, <2>1 DEF ModeInv, PlaceInv, PendingInv, Settled
  <2>5. ChainInv'
    BY <1>1, <2>1 DEF ChainInv, ReadAddress
  <2> QED
    BY <2>2, <2>3, <2>4, <2>5 DEF CardInv, RingInv
<1>6. CASE rtl_stop
  <2>1. /\ irq = "idle" /\ op = "off" /\ op' = "idle"
        /\ RE' = FALSE /\ lineOn' = FALSE /\ drvStatus' = "STOP"
        /\ UNCHANGED <<unread, CBR, CAPR, IMR, ISR, linkUp, arrived, links>>
        /\ UNCHANGED <<rx_cur_address, rx_ring_offset, irq, isr, restarts>>
    BY <1>6 DEF rtl_stop, Thr
  <2>2. CardTypes' /\ DriverTypes'
    BY <1>1, <2>1 DEF CardTypes, DriverTypes
  <2>3. ModeInv' /\ PlaceInv' /\ PendingInv'
    BY <1>1, <2>1 DEF ModeInv, PlaceInv, PendingInv, Settled
  <2>4. ChainInv'
    BY <1>1, <2>1 DEF ChainInv, ReadAddress
  <2> QED
    BY <2>2, <2>3, <2>4 DEF CardInv, RingInv
<1>7. CASE rtl_done
  <2>1. /\ irq = "idle" /\ op = "idle" /\ drvStatus = "STOP" /\ drvStatus' = "DONE"
        /\ IMR' = FALSE /\ ISR' = {} /\ ResetRing
        /\ UNCHANGED <<RE, linkUp, arrived, links>>
        /\ UNCHANGED <<rx_cur_address, rx_ring_offset, lineOn, irq, isr, op, restarts>>
    BY <1>7 DEF rtl_done, Thr
  <2>2. CardTypes'
    BY <1>1, <2>1, ResetIs DEF CardTypes
  <2>3. DriverTypes'
    BY <1>1, <2>1 DEF DriverTypes
  <2>4. ModeInv' /\ PlaceInv' /\ PendingInv'
    BY <1>1, <2>1, ResetIs DEF ModeInv, PlaceInv, PendingInv, Settled
  <2> QED
    BY <2>1, <2>2, <2>3, <2>4, ResetIs DEF CardInv, RingInv
<1> QED
  BY <1>2, <1>3, <1>4, <1>5, <1>6, <1>7 DEF Driver

LEMMA CardStep ==
    ASSUME CardInv, [Next]_vars
    PROVE  CardInv'
<1>1. CASE FrameArrives
  BY <1>1, FrameArrivesRing
<1>2. CASE LinkChanges
  BY <1>2, LinkChangesRing
<1>3. CASE Handler
  BY <1>3, HandlerStartsRing, HandlerReadsRing, HandlerEndsRing DEF Handler
<1>4. CASE Driver
  BY <1>4, DriverRing
<1>5. CASE NetworkThread
  <2>1. UNCHANGED <<cardVars, driverVars>>
    BY <1>5 DEF NetworkThread, netbuf_wait, BarrierCloses, netbuf_process_in, netbuf_process_out,
                netbuf_put, Others
  <2> QED
    BY <2>1, CardKept
<1>6. ASSUME NEW a \in App, Sender(a)
      PROVE  CardInv'
  <2>1. UNCHANGED <<cardVars, driverVars>>
    BY <1>6 DEF Sender, AppGets, netbuf_out, OutAdds, OutOpens, AppStays
  <2> QED
    BY <2>1, CardKept
<1>7. CASE UNCHANGED vars
  BY <1>7, CardKept DEF vars
<1> QED
  BY <1>1, <1>2, <1>3, <1>4, <1>5, <1>6, <1>7 DEF Next

(***************************************************************************)
(* The packets.                                                            *)
(***************************************************************************)
LEMMA PacketIs ==
    /\ packets \in Nat /\ packets > 2 /\ Packet \subseteq Nat /\ NoPacket \notin Packet
    /\ Slot = Packet \cup {NoPacket} /\ IsFiniteSet(Packet) /\ Cardinality(Packet) = packets
<1>1. packets \in Nat /\ packets > 2
  BY NetworkAssumption
<1>2. IsFiniteSet(1 .. packets) /\ Cardinality(1 .. packets) = packets
  BY <1>1, FS_Interval
<1> QED
  BY <1>1, <1>2 DEF Packet, NoPacket, Slot

(* The pool is a circle: a packet is taken at its tail, and given back at  *)
(* its head.                                                               *)
LEMMA PoolStepIs ==
    ASSUME NEW p \in Packet
    PROVE  PoolStep(p) \in Packet /\ PoolStep(p) # p
BY PacketIs DEF PoolStep, Packet

LEMMA FreeStays ==
    ASSUME UNCHANGED <<pkts_head, pkts_tail>>
    PROVE  free' = free
BY DEF free, InUse

LEMMA FreeTakes ==
    ASSUME pkts_head \in Packet, pkts_tail \in Packet, PoolStep(pkts_tail) # pkts_head,
           pkts_head' = pkts_head, pkts_tail' = PoolStep(pkts_tail)
    PROVE  pkts_tail \in free /\ pkts_tail' \in Packet /\ free' = free \ {pkts_tail}
<1>1. packets \in Nat /\ pkts_head \in 1 .. packets /\ pkts_tail \in 1 .. packets
  BY PacketIs DEF Packet
<1>2. pkts_tail \in free
  BY <1>1 DEF free, InUse, Packet
<1>3. \A p \in Packet : InUse(p)' <=> InUse(p) \/ p = pkts_tail
  BY <1>1 DEF InUse, PoolStep, Packet
<1> QED
  BY <1>2, <1>3, PoolStepIs DEF free

LEMMA FreeGives ==
    ASSUME pkts_head \in Packet, pkts_tail \in Packet, pkts_head \notin free,
           pkts_tail' = pkts_tail, pkts_head' = PoolStep(pkts_head)
    PROVE  pkts_head' \in Packet /\ free' = free \cup {pkts_head}
<1>1. packets \in Nat /\ pkts_head \in 1 .. packets /\ pkts_tail \in 1 .. packets
  BY PacketIs DEF Packet
<1>2. InUse(pkts_head)
  BY DEF free
<1>3. \A p \in Packet : InUse(p)' <=> InUse(p) /\ p # pkts_head
  BY <1>1, <1>2 DEF InUse, PoolStep, Packet
<1> QED
  BY <1>3, PoolStepIs DEF free

(* netbuf_get answers the packet at the tail, or none.                     *)
LEMMA GetIs ==
    ASSUME NEW pkt \in netbuf_get, pkt # NoPacket
    PROVE  pkt = pkts_tail /\ PoolStep(pkts_tail) # pkts_head
BY DEF netbuf_get

LEMMA RangeIs ==
    ASSUME NEW s \in Seq(Slot)
    PROVE  Range(s) = {s[i] : i \in 1 .. Len(s)} /\ Range(s) \subseteq Slot /\ Len(s) \in Nat
<1>1. DOMAIN s = 1 .. Len(s) /\ Len(s) \in Nat /\ s \in [1 .. Len(s) -> Slot]
  BY LenProperties
<1> QED
  BY <1>1 DEF Range

LEMMA RangeAppend ==
    ASSUME NEW s \in Seq(Slot), Injective(s), NEW x \in Slot, x \notin Range(s)
    PROVE  /\ Injective(Append(s, x)) /\ Range(Append(s, x)) = Range(s) \cup {x}
<1> DEFINE t == Append(s, x)
           n == Len(s)
<1>1. /\ t \in Seq(Slot) /\ Len(t) = n + 1 /\ n \in Nat /\ t[n + 1] = x
      /\ \A i \in 1 .. n : t[i] = s[i]
  BY AppendProperties, LenProperties
<1>2. Range(s) = {s[i] : i \in 1 .. n} /\ Range(t) = {t[i] : i \in 1 .. n + 1}
  BY <1>1, RangeIs
<1> HIDE DEF t
<1>3. Range(t) = Range(s) \cup {x}
  BY <1>1, <1>2
<1>4. \A i, j \in 1 .. n + 1 : t[i] = t[j] => i = j
  <2> SUFFICES ASSUME NEW i \in 1 .. n + 1, NEW j \in 1 .. n + 1, t[i] = t[j]
               PROVE  i = j
    OBVIOUS
  <2>1. \A k \in 1 .. n : s[k] # x
    BY <1>2
  <2>2. CASE i \in 1 .. n /\ j \in 1 .. n
    BY <1>1, <2>2 DEF Injective
  <2>3. CASE i = n + 1 \/ j = n + 1
    BY <1>1, <2>1, <2>3
  <2> QED
    BY <1>1, <2>2, <2>3
<1> QED
  BY <1>1, <1>3, <1>4 DEF t, Injective

LEMMA RangeTail ==
    ASSUME NEW s \in Seq(Slot), Injective(s), s # <<>>
    PROVE  /\ Injective(Tail(s)) /\ Range(Tail(s)) = Range(s) \ {Head(s)} /\ Head(s) \in Range(s)
<1> DEFINE t == Tail(s)
           n == Len(s)
<1>1. /\ t \in Seq(Slot) /\ Len(t) = n - 1 /\ n \in Nat \ {0} /\ Head(s) = s[1]
      /\ \A i \in 1 .. n - 1 : t[i] = s[i + 1]
  <2>1. n \in Nat \ {0}
    BY EmptySeq
  <2>2. t \in Seq(Slot) /\ Len(t) = n - 1 /\ \A i \in 1 .. n - 1 : t[i] = s[i + 1]
    BY HeadTailProperties
  <2> QED
    BY <2>1, <2>2
<1>2. Range(s) = {s[i] : i \in 1 .. n} /\ Range(t) = {t[i] : i \in 1 .. n - 1}
  BY <1>1, RangeIs
<1> HIDE DEF t
<1>3. Head(s) \in Range(s)
  BY <1>1, <1>2
<1>4. \A i \in 1 .. n - 1 : i + 1 \in 1 .. n /\ t[i] = s[i + 1] /\ s[i + 1] # s[1]
  BY <1>1 DEF Injective
<1>5. ASSUME NEW x \in Range(t)
      PROVE  x \in Range(s) \ {Head(s)}
  <2>1. PICK i \in 1 .. n - 1 : x = t[i]
    BY <1>2
  <2>2. i + 1 \in 1 .. n /\ x = s[i + 1] /\ x # s[1]
    BY <1>4, <2>1
  <2> QED
    BY <1>1, <1>2, <2>2
<1>6. ASSUME NEW x \in Range(s) \ {Head(s)}
      PROVE  x \in Range(t)
  <2>1. PICK i \in 1 .. n : x = s[i]
    BY <1>2
  <2>2. i # 1
    BY <1>1, <2>1
  <2>3. i - 1 \in 1 .. n - 1 /\ (i - 1) + 1 = i
    BY <1>1, <2>2
  <2>4. t[i - 1] = x
    BY <1>1, <2>1, <2>3
  <2> QED
    BY <1>2, <2>3, <2>4
<1>7. Range(t) = Range(s) \ {Head(s)}
  BY <1>5, <1>6
<1>8. \A i, j \in 1 .. n - 1 : t[i] = t[j] => i = j
  BY <1>1, <1>4 DEF Injective
<1> QED
  BY <1>1, <1>3, <1>7, <1>8 DEF t, Injective

LEMMA FullIs ==
    ASSUME NEW c \in Cb, Used(c) <= packets - 2
    PROVE  /\ cbuffer_is_full(c) <=> Used(c) = packets - 2
           /\ ~cbuffer_is_full(c) => Used(c) < packets - 2
<1>1. Used(c) \in 0 .. packets - 1 /\ cbuffer_in_use(c) = Used(c) /\ packets \in Nat
  BY UsedIs, NetworkAssumption
<1> QED
  BY <1>1 DEF cbuffer_is_full

(* The queues, and what a step makes of them.                              *)
LEMMA QueueFacts ==
    ASSUME BufferTypes, QueueInv
    PROVE  /\ Queue(in_cb) \in Seq(Slot) /\ Queue(out_cb) \in Seq(Slot)
           /\ Used(in_cb) \in Nat /\ Used(out_cb) \in Nat /\ packets \in Nat /\ packets > 2
           /\ Used(in_cb) < packets - 1 /\ Used(out_cb) < packets - 1
<1>1. in_cb \in Cb /\ out_cb \in Cb /\ Used(in_cb) <= packets - 2 /\ Used(out_cb) <= packets - 2
  BY DEF BufferTypes, QueueInv
<1>2. Used(in_cb) \in 0 .. packets - 1 /\ Used(out_cb) \in 0 .. packets - 1 /\ packets \in Nat /\ packets > 2
  BY <1>1, UsedIs, PacketIs
<1> QED
  BY <1>1, <1>2, QueueIs

LEMMA SendingIs ==
    ASSUME SingleSender, NEW a \in App, NEW f \in [App -> Slot]
    PROVE  {f[b] : b \in App} \ {NoPacket} = {f[a]} \ {NoPacket}
<1>1. \A b \in App : b = a
  BY DEF SingleSender
<1> QED
  BY <1>1

(* Steps that move no packet.                                              *)
LEMMA PacketsStay ==
    ASSUME BufInv, UNCHANGED <<pkts_head, pkts_tail, in_cb, out_cb, held, appPkt>>
    PROVE  QueueInv' /\ ApartInv' /\ Lost' = Lost
<1>1. InSet' = InSet /\ OutSet' = OutSet /\ Sending' = Sending /\ free' = free
  BY FreeStays DEF InSet, OutSet, Sending
<1>2. Lost' = Lost
  BY <1>1 DEF Lost
<1>3. QueueInv /\ ApartInv
  BY DEF BufInv, PacketInv
<1> QED
  BY <1>1, <1>2, <1>3 DEF QueueInv, ApartInv

LEMMA BufKept ==
    ASSUME BufInv, UNCHANGED <<bufVars, threadVars>>
    PROVE  BufInv' /\ Lost \subseteq Lost'
<1>1. /\ UNCHANGED <<pkts_head, pkts_tail, frameOf, in_cb, out_cb, netb>>
      /\ UNCHANGED <<net, held, lastIn, app, appPkt, sends>>
  BY DEF bufVars, threadVars
<1>2. QueueInv' /\ ApartInv' /\ Lost' = Lost
  BY <1>1, PacketsStay
<1>3. BufferTypes' /\ ThreadTypes' /\ SenderInv'
  BY <1>1 DEF BufInv, PacketInv, BufferTypes, ThreadTypes, SenderInv
<1> QED
  BY <1>2, <1>3 DEF BufInv, PacketInv

(* The handler takes a packet of the pool, and queues it or forgets it.    *)
Received(pkt) ==
    /\ pkt = pkts_tail /\ PoolStep(pkts_tail) # pkts_head
    /\ pkts_tail' = PoolStep(pkts_tail) /\ pkts_head' = pkts_head /\ out_cb' = out_cb
    /\ frameOf' = netbuf_copy_eth(HeaderAt(rx_ring_offset), pkt)
    /\ \/ /\ cbuffer_is_full(in_cb) /\ UNCHANGED <<in_cb, netb, unread>>
       \/ /\ ~cbuffer_is_full(in_cb) /\ in_cb' = cbuffer_add(Store(in_cb, pkt)) /\ netb' = TRUE
          /\ SkipFrame(HeaderAt(rx_ring_offset).len)

LEMMA ReceiveIs ==
    ASSUME rtl_receive_packets
    PROVE  \/ UNCHANGED bufVars /\ (unread' = unread \/ SkipFrame(HeaderAt(rx_ring_offset).len))
           \/ Received(pkts_tail)
<1> DEFINE rx_pkt == HeaderAt(rx_ring_offset)
<1>1. CASE ~rx_pkt.ok
  BY <1>1 DEF rtl_receive_packets
<1>2. CASE rx_pkt.ok
  <2>1. PICK pkt \in netbuf_get :
          IF pkt = NoPacket
          THEN irq' = "clear" /\ UNCHANGED <<rx_cur_address, rx_ring_offset, CAPR, unread, bufVars>>
          ELSE /\ pkts_tail' = PoolStep(pkts_tail)
               /\ frameOf' = netbuf_copy_eth(rx_pkt, pkt)
               /\ UNCHANGED <<pkts_head, out_cb>>
               /\ IF cbuffer_is_full(in_cb)
                  THEN /\ irq' = "clear"
                       /\ UNCHANGED <<rx_cur_address, rx_ring_offset, CAPR, unread, in_cb, netb>>
                  ELSE /\ in_cb' = cbuffer_add(Store(in_cb, pkt)) /\ netb' = TRUE
                       /\ SkipFrame(rx_pkt.len)
    BY <1>2, Zenon DEF rtl_receive_packets
  <2>2. CASE pkt = NoPacket
    BY <2>1, <2>2
  <2>3. CASE pkt # NoPacket
    <3>1. pkt = pkts_tail /\ PoolStep(pkts_tail) # pkts_head
      BY <2>3, GetIs
    <3>2. Received(pkt)
      BY <2>1, <2>3, <3>1, Zenon DEF Received
    <3> QED
      BY <3>1, <3>2
  <2> QED
    BY <2>2, <2>3
<1> QED
  BY <1>1, <1>2

LEMMA ReceiveBuf ==
    ASSUME CardInv, BufInv, rtl_receive_packets
    PROVE  BufInv' /\ Lost \subseteq Lost' /\ (cbuffer_is_full(in_cb) /\ Received(pkts_tail) => Lost' # {})
<1> DEFINE pkt == pkts_tail
           rx_pkt == HeaderAt(rx_ring_offset)
<1>1. BufferTypes /\ ThreadTypes /\ QueueInv /\ SenderInv /\ ApartInv
  BY DEF BufInv, PacketInv
<1>2. /\ irq = "receive" /\ ~BUFE /\ UNCHANGED threadVars
      /\ UNCHANGED <<net, held, lastIn, app, appPkt, sends>>
  BY DEF rtl_receive_packets, threadVars
<1>3. rx_pkt \in Frame /\ rx_pkt.id \in Nat
  BY <1>2, HeaderIs, FrameIs
<1>4. CASE UNCHANGED bufVars
  <2>1. ~Received(pkts_tail)
    <3>1. pkts_tail' = pkts_tail /\ PoolStep(pkts_tail) # pkts_tail
      BY <1>1, <1>4, PoolStepIs DEF bufVars, BufferTypes
    <3> QED
      BY <3>1 DEF Received
  <2> QED
    BY <1>2, <1>4, <2>1, BufKept
<1>5. CASE Received(pkts_tail)
  <2>1. /\ pkt \in free /\ pkt \in Packet /\ pkt # NoPacket /\ pkt \in Slot
        /\ free' = free \ {pkt} /\ pkts_tail' \in Packet /\ pkts_head' \in Packet
    BY <1>1, <1>5, FreeTakes, PacketIs DEF BufferTypes, Received
  <2>2. frameOf' \in [Packet -> Nat] /\ out_cb' = out_cb /\ out_cb' \in Cb
    BY <1>1, <1>3, <1>5, <2>1 DEF BufferTypes, netbuf_copy_eth, Received
  <2>3. ThreadTypes' /\ SenderInv'
    BY <1>1, <1>2, <2>2 DEF ThreadTypes, SenderInv
  <2>4. OutSet' = OutSet /\ Sending' = Sending /\ held' = held
    BY <1>2, <2>2 DEF OutSet, Sending
  <2>5. pkt \notin InSet \cup OutSet \cup Sending \cup {held}
    BY <1>1, <2>1 DEF ApartInv
  <2>6. CASE cbuffer_is_full(in_cb) /\ UNCHANGED <<in_cb, netb>>
    <3>1. InSet' = InSet
      BY <2>6 DEF InSet
    <3>2. BufferTypes' /\ QueueInv'
      BY <1>1, <2>1, <2>2, <2>4, <2>6, <3>1 DEF BufferTypes, QueueInv
    <3>3. ApartInv'
      BY <1>1, <2>1, <2>4, <3>1 DEF ApartInv
    <3>4. Lost \subseteq Lost' /\ pkt \in Lost'
      BY <2>1, <2>4, <2>5, <3>1 DEF Lost
    <3> QED
      BY <2>3, <3>2, <3>3, <3>4 DEF BufInv, PacketInv
  <2>7. CASE ~cbuffer_is_full(in_cb) /\ in_cb' = cbuffer_add(Store(in_cb, pkt)) /\ netb' = TRUE
    <3>1. /\ in_cb \in Cb /\ Used(in_cb) < packets - 2 /\ Used(in_cb) < packets - 1
          /\ Queue(in_cb) \in Seq(Slot) /\ Used(in_cb) \in Nat /\ packets \in Nat
      BY <1>1, <2>7, FullIs, QueueFacts DEF BufferTypes, QueueInv
    <3>2. /\ Store(in_cb, pkt) \in Cb /\ Queue(Store(in_cb, pkt)) = Queue(in_cb)
          /\ Used(Store(in_cb, pkt)) = Used(in_cb)
          /\ Store(in_cb, pkt).buf[Store(in_cb, pkt).tail] = pkt
      BY <2>1, <3>1, QueueStore
    <3>3. in_cb' \in Cb /\ Used(in_cb') = Used(in_cb) + 1 /\ Queue(in_cb') = Append(Queue(in_cb), pkt)
      BY <2>7, <3>1, <3>2, QueueAdd
    <3>4. Injective(Queue(in_cb')) /\ InSet' = InSet \cup {pkt}
      BY <1>1, <2>1, <2>5, <3>1, <3>3, RangeAppend DEF InSet, QueueInv
    <3>5. BufferTypes'
      BY <2>1, <2>2, <2>7, <3>3 DEF BufferTypes
    <3>6. QueueInv'
      BY <1>1, <2>1, <2>2, <2>4, <3>1, <3>3, <3>4 DEF QueueInv
    <3>7. ApartInv'
      BY <1>1, <2>1, <2>4, <2>5, <3>4 DEF ApartInv
    <3>8. Lost \subseteq Lost'
      BY <2>1, <2>4, <3>4 DEF Lost
    <3> QED
      BY <2>3, <2>7, <3>5, <3>6, <3>7, <3>8 DEF BufInv, PacketInv
  <2> QED
    BY <1>5, <2>6, <2>7 DEF Received
<1> QED
  BY <1>4, <1>5, ReceiveIs

(* The network thread takes packets of the queues and gives them back.     *)
LEMMA WaitBuf ==
    ASSUME BufInv, netbuf_wait \/ BarrierCloses
    PROVE  BufInv' /\ Lost \subseteq Lost'
<1>1. BufferTypes /\ ThreadTypes /\ SenderInv
  BY DEF BufInv, PacketInv
<1>2. /\ UNCHANGED <<pkts_head, pkts_tail, frameOf, in_cb, out_cb>> /\ UNCHANGED <<held, lastIn, app, appPkt, sends>>
      /\ netb' \in {netb, FALSE} /\ net \in {"wait", "close"} /\ net' \in {"close", "in"}
  BY DEF netbuf_wait, BarrierCloses, bufVars, Others
<1>3. QueueInv' /\ ApartInv' /\ Lost' = Lost
  BY <1>2, PacketsStay
<1>4. BufferTypes' /\ ThreadTypes'
  BY <1>1, <1>2 DEF BufferTypes, ThreadTypes
<1>5. SenderInv'
  BY <1>1, <1>2 DEF SenderInv
<1> QED
  BY <1>3, <1>4, <1>5 DEF BufInv, PacketInv

LEMMA ProcessInBuf ==
    ASSUME BufInv, netbuf_process_in
    PROVE  BufInv' /\ Lost \subseteq Lost'
<1>1. BufferTypes /\ ThreadTypes /\ QueueInv /\ SenderInv /\ ApartInv
  BY DEF BufInv, PacketInv
<1>2. net = "in" /\ UNCHANGED <<pkts_head, pkts_tail, frameOf, out_cb, netb>> /\ UNCHANGED <<app, appPkt, sends>>
  BY DEF netbuf_process_in, Others
<1>0. free' = free
  BY <1>2, FreeStays
<1>3. CASE cbuffer_is_empty(in_cb)
  <2>1. net' = "outOnly" /\ UNCHANGED <<held, lastIn, in_cb>>
    BY <1>3 DEF netbuf_process_in
  <2>2. QueueInv' /\ ApartInv' /\ Lost' = Lost
    BY <1>2, <2>1, PacketsStay
  <2>3. BufferTypes' /\ ThreadTypes' /\ SenderInv'
    BY <1>1, <1>2, <2>1 DEF BufferTypes, ThreadTypes, SenderInv
  <2> QED
    BY <2>2, <2>3 DEF BufInv, PacketInv
<1>4. CASE ~cbuffer_is_empty(in_cb)
  <2>1. /\ held' = in_cb.buf[in_cb.head] /\ lastIn' = frameOf[held']
        /\ in_cb' = cbuffer_remove(in_cb) /\ net' = "putIn"
    BY <1>4 DEF netbuf_process_in
  <2>2. /\ in_cb' \in Cb /\ Used(in_cb') = Used(in_cb) - 1 /\ Queue(in_cb) # <<>>
        /\ held' = Head(Queue(in_cb)) /\ Queue(in_cb') = Tail(Queue(in_cb))
        /\ Queue(in_cb) \in Seq(Slot) /\ Used(in_cb) \in Nat /\ packets \in Nat
    BY <1>1, <1>4, <2>1, QueueRemove, QueueFacts DEF BufferTypes
  <2>3. Injective(Queue(in_cb')) /\ InSet' = InSet \ {held'} /\ held' \in InSet
    BY <1>1, <2>2, RangeTail DEF InSet, QueueInv
  <2>4. OutSet' = OutSet /\ Sending' = Sending /\ held = NoPacket
    BY <1>1, <1>2 DEF OutSet, Sending, SenderInv
  <2>5. held' \in Packet /\ held' # NoPacket /\ lastIn' \in Nat
    BY <1>1, <2>1, <2>3, PacketIs DEF QueueInv, BufferTypes
  <2>6. BufferTypes' /\ ThreadTypes'
    BY <1>1, <1>2, <2>1, <2>2, <2>5, PacketIs DEF BufferTypes, ThreadTypes
  <2>7. QueueInv'
    BY <1>1, <1>2, <2>2, <2>3, <2>4 DEF QueueInv
  <2>8. SenderInv'
    BY <1>1, <1>2, <2>1, <2>5 DEF SenderInv
  <2>9. ApartInv'
    BY <1>1, <1>2, <1>0, <2>3, <2>4 DEF ApartInv
  <2>10. Lost \subseteq Lost'
    BY <1>2, <1>0, <2>3, <2>4, PacketIs DEF Lost
  <2> QED
    BY <1>1, <2>6, <2>7, <2>8, <2>9, <2>10 DEF BufInv, PacketInv
<1> QED
  BY <1>3, <1>4

LEMMA ProcessOutBuf ==
    ASSUME BufInv, netbuf_process_out
    PROVE  BufInv' /\ Lost \subseteq Lost'
<1>1. BufferTypes /\ ThreadTypes /\ QueueInv /\ SenderInv /\ ApartInv
  BY DEF BufInv, PacketInv
<1>2. /\ net \in {"out", "outOnly"} /\ UNCHANGED <<pkts_head, pkts_tail, frameOf, in_cb, netb, lastIn>>
      /\ UNCHANGED <<app, appPkt, sends>>
  BY DEF netbuf_process_out, Others
<1>0. free' = free
  BY <1>2, FreeStays
<1>3. CASE cbuffer_is_empty(out_cb)
  <2>1. net' \in {"wait", "in"} /\ UNCHANGED <<held, out_cb>>
    BY <1>3 DEF netbuf_process_out, KeepOn
  <2>2. QueueInv' /\ ApartInv' /\ Lost' = Lost
    BY <1>2, <2>1, PacketsStay
  <2>3. BufferTypes' /\ ThreadTypes'
    BY <1>1, <1>2, <2>1 DEF BufferTypes, ThreadTypes
  <2>4. SenderInv'
    BY <1>1, <1>2, <2>1 DEF SenderInv
  <2> QED
    BY <2>2, <2>3, <2>4 DEF BufInv, PacketInv
<1>4. CASE ~cbuffer_is_empty(out_cb)
  <2>1. held' = out_cb.buf[out_cb.head] /\ out_cb' = cbuffer_remove(out_cb) /\ net' = "putOut"
    BY <1>4 DEF netbuf_process_out
  <2>2. /\ out_cb' \in Cb /\ Used(out_cb') = Used(out_cb) - 1 /\ Queue(out_cb) # <<>>
        /\ held' = Head(Queue(out_cb)) /\ Queue(out_cb') = Tail(Queue(out_cb))
        /\ Queue(out_cb) \in Seq(Slot) /\ Used(out_cb) \in Nat /\ packets \in Nat
    BY <1>1, <1>4, <2>1, QueueRemove, QueueFacts DEF BufferTypes
  <2>3. Injective(Queue(out_cb')) /\ OutSet' = OutSet \ {held'} /\ held' \in OutSet
    BY <1>1, <2>2, RangeTail DEF OutSet, QueueInv
  <2>4. InSet' = InSet /\ Sending' = Sending /\ held = NoPacket
    BY <1>1, <1>2 DEF InSet, Sending, SenderInv
  <2>5. held' \in Packet /\ held' # NoPacket
    BY <1>1, <2>3, PacketIs DEF QueueInv
  <2>6. BufferTypes' /\ ThreadTypes'
    BY <1>1, <1>2, <2>1, <2>2, <2>5, PacketIs DEF BufferTypes, ThreadTypes
  <2>7. QueueInv'
    BY <1>1, <1>2, <2>2, <2>3, <2>4 DEF QueueInv
  <2>8. out_cb'.buf[out_cb'.tail] = out_cb.buf[out_cb.tail]
    <3>1. /\ out_cb.head # out_cb.tail /\ out_cb.buf \in [0 .. packets - 1 -> Slot]
          /\ out_cb.tail \in 0 .. packets - 1
      BY <1>1, <1>4 DEF BufferTypes, Cb, cbuffer_is_empty
    <3>2. out_cb'.tail = out_cb.tail /\ out_cb'.buf = [out_cb.buf EXCEPT ![out_cb.head] = NoPacket]
      BY <1>1, <2>1 DEF BufferTypes, Cb, cbuffer_remove
    <3> QED
      BY <3>1, <3>2
  <2>9. SenderInv'
    <3>1. \A a \in App : appPkt'[a] # NoPacket <=> app'[a] \in {"store", "add"}
      BY <1>1, <1>2 DEF SenderInv
    <3>2. \A a \in App : app'[a] = "add" => /\ out_cb'.buf[out_cb'.tail] = appPkt'[a]
                                           /\ Used(out_cb') < packets - 2
      BY <1>1, <1>2, <2>2, <2>8 DEF SenderInv
    <3> QED
      BY <2>1, <2>5, <3>1, <3>2 DEF SenderInv
  <2>10. ApartInv'
    BY <1>1, <1>2, <1>0, <2>3, <2>4 DEF ApartInv
  <2>11. Lost \subseteq Lost'
    BY <1>2, <1>0, <2>3, <2>4, PacketIs DEF Lost
  <2> QED
    BY <1>1, <2>6, <2>7, <2>9, <2>10, <2>11 DEF BufInv, PacketInv
<1> QED
  BY <1>3, <1>4

(* The pool takes the packet back, or it is nobody's.                      *)
LEMMA PutIs ==
    ASSUME BufferTypes, NEW p \in Packet, p \notin free, pakman_put_packet(p), pkts_tail' = pkts_tail
    PROVE  /\ pkts_head' \in Packet /\ frameOf' \in [Packet -> Nat]
           /\ free' \in {free, free \cup {p}}
           /\ \A q \in Packet : q # p => frameOf'[q] = frameOf[q]
<1>1. CASE p = pkts_head
  <2>1. pkts_head' = PoolStep(pkts_head) /\ frameOf' = [frameOf EXCEPT ![p] = 0]
    BY <1>1 DEF pakman_put_packet
  <2>2. pkts_head' \in Packet /\ free' = free \cup {p}
    BY <1>1, <2>1, FreeGives DEF BufferTypes
  <2>3. frameOf' \in [Packet -> Nat] /\ \A q \in Packet : q # p => frameOf'[q] = frameOf[q]
    BY <2>1 DEF BufferTypes
  <2> QED
    BY <2>2, <2>3
<1>2. CASE p # pkts_head
  BY <1>2, FreeStays DEF pakman_put_packet, BufferTypes
<1> QED
  BY <1>1, <1>2

LEMMA PutBuf ==
    ASSUME BufInv, netbuf_put
    PROVE  BufInv' /\ Lost \subseteq Lost'
<1>1. BufferTypes /\ ThreadTypes /\ QueueInv /\ SenderInv /\ ApartInv
  BY DEF BufInv, PacketInv
<1>2. /\ net \in {"putIn", "putOut"} /\ pakman_put_packet(held) /\ held' = NoPacket
      /\ net' \in {"out", "in"}
      /\ UNCHANGED <<lastIn, pkts_tail, in_cb, out_cb, netb>> /\ UNCHANGED <<app, appPkt, sends>>
  BY DEF netbuf_put, Others
<1>3. held \in Packet /\ held # NoPacket /\ held \notin free
  BY <1>1, <1>2, PacketIs DEF ThreadTypes, SenderInv, ApartInv
<1>4. InSet' = InSet /\ OutSet' = OutSet /\ Sending' = Sending
  BY <1>2 DEF InSet, OutSet, Sending
<1>5. pkts_head' \in Packet /\ frameOf' \in [Packet -> Nat] /\ free' \in {free, free \cup {held}}
  BY <1>1, <1>2, <1>3, PutIs
<1>6. BufferTypes' /\ ThreadTypes'
  BY <1>1, <1>2, <1>5, PacketIs DEF BufferTypes, ThreadTypes
<1>7. QueueInv' /\ SenderInv'
  BY <1>1, <1>2, <1>4 DEF QueueInv, SenderInv
<1>8. ApartInv'
  <2>1. free' \subseteq Packet
    BY DEF free
  <2>2. NoPacket \notin InSet \cup OutSet \cup free' /\ NoPacket \notin Sending
    BY <1>1, <2>1, PacketIs DEF QueueInv, Sending
  <2> QED
    BY <1>1, <1>2, <1>3, <1>4, <1>5, <2>2 DEF ApartInv
<1>9. Lost \subseteq Lost'
  BY <1>2, <1>4, <1>5, PacketIs DEF Lost
<1> QED
  BY <1>6, <1>7, <1>8, <1>9 DEF BufInv, PacketInv

(* A thread that sends: the packet is its own until it is in the queue.    *)
LEMMA AppGetsBuf ==
    ASSUME SingleSender, BufInv, NEW a \in App, AppGets(a)
    PROVE  BufInv' /\ Lost \subseteq Lost'
<1> DEFINE pkt == pkts_tail
<1>1. BufferTypes /\ ThreadTypes /\ QueueInv /\ SenderInv /\ ApartInv
  BY DEF BufInv, PacketInv
<1>2. /\ app[a] = "idle" /\ appPkt' = [appPkt EXCEPT ![a] = pkt]
      /\ PoolStep(pkts_tail) # pkts_head /\ pkts_tail' = PoolStep(pkts_tail)
      /\ app' = [app EXCEPT ![a] = "store"] /\ sends' = sends + 1
      /\ UNCHANGED <<pkts_head, frameOf, in_cb, out_cb, netb, net, held, lastIn>>
  BY GetIs DEF AppGets, AppStays
<1>3. /\ pkt \in free /\ pkt \in Packet /\ pkt # NoPacket
      /\ free' = free \ {pkt} /\ pkts_tail' \in Packet
  BY <1>1, <1>2, FreeTakes, PacketIs DEF BufferTypes
<1>4. appPkt[a] = NoPacket
  BY <1>1, <1>2 DEF SenderInv
<1>5. BufferTypes' /\ ThreadTypes'
  BY <1>1, <1>2, <1>3, PacketIs DEF BufferTypes, ThreadTypes
<1>6. InSet' = InSet /\ OutSet' = OutSet
  BY <1>2 DEF InSet, OutSet
<1>7. Sending' = {pkt} /\ Sending = {}
  <2>1. Sending = {appPkt[a]} \ {NoPacket} /\ Sending' = {appPkt'[a]} \ {NoPacket}
    BY <1>1, <1>5, SendingIs DEF Sending, ThreadTypes
  <2>2. appPkt'[a] = pkt
    BY <1>1, <1>2 DEF ThreadTypes
  <2> QED
    BY <1>3, <1>4, <2>1, <2>2
<1>8. QueueInv'
  BY <1>1, <1>2, <1>6 DEF QueueInv
<1>9. SenderInv'
  <2>1. \A b \in App : b = a
    BY DEF SingleSender
  <2>2. appPkt'[a] = pkt /\ app'[a] = "store"
    BY <1>1, <1>2 DEF ThreadTypes
  <2> QED
    BY <1>1, <1>2, <1>3, <2>1, <2>2 DEF SenderInv
<1>10. ApartInv'
  BY <1>1, <1>2, <1>3, <1>6, <1>7 DEF ApartInv
<1>11. Lost \subseteq Lost'
  BY <1>2, <1>3, <1>6, <1>7 DEF Lost
<1> QED
  BY <1>1, <1>5, <1>8, <1>9, <1>10, <1>11 DEF BufInv, PacketInv

LEMMA OutBuf ==
    ASSUME SingleSender, BufInv, NEW a \in App, netbuf_out(a)
    PROVE  BufInv' /\ Lost \subseteq Lost'
<1>1. BufferTypes /\ ThreadTypes /\ QueueInv /\ SenderInv /\ ApartInv
  BY DEF BufInv, PacketInv
<1>2. app[a] = "store" /\ UNCHANGED <<sends, pkts_tail, in_cb, netb, net, held, lastIn>>
  BY DEF netbuf_out, AppStays
<1>3. appPkt[a] \in Packet /\ appPkt[a] # NoPacket /\ \A b \in App : b = a
  BY <1>1, <1>2, PacketIs DEF SenderInv, ThreadTypes, SingleSender
<1>4. CASE cbuffer_is_full(out_cb)
  <2>0. appPkt[a] \notin free
    BY <1>1, <1>3 DEF ApartInv, Sending
  <2>1. /\ pakman_put_packet(appPkt[a]) /\ appPkt' = [appPkt EXCEPT ![a] = NoPacket]
        /\ app' = [app EXCEPT ![a] = "idle"] /\ out_cb' = out_cb
    BY <1>4 DEF netbuf_out
  <2>9. pkts_head' \in Packet /\ frameOf' \in [Packet -> Nat] /\ free' \in {free, free \cup {appPkt[a]}}
    BY <1>1, <1>2, <1>3, <2>0, <2>1, PutIs
  <2>2. BufferTypes' /\ ThreadTypes'
    BY <1>1, <1>2, <2>1, <2>9, PacketIs DEF BufferTypes, ThreadTypes
  <2>3. InSet' = InSet /\ OutSet' = OutSet
    BY <1>2, <2>1 DEF InSet, OutSet
  <2>4. appPkt'[a] = NoPacket /\ app'[a] = "idle"
    BY <1>1, <2>1 DEF ThreadTypes
  <2>5. Sending = {appPkt[a]} /\ Sending' = {}
    <3>1. Sending = {appPkt[a]} \ {NoPacket} /\ Sending' = {appPkt'[a]} \ {NoPacket}
      BY <1>1, <2>2, SendingIs DEF Sending, ThreadTypes
    <3> QED
      BY <1>3, <2>4, <3>1
  <2>6. QueueInv' /\ SenderInv'
    BY <1>1, <1>2, <1>3, <2>1, <2>3, <2>4 DEF QueueInv, SenderInv
  <2>7. ApartInv'
    BY <1>1, <1>2, <2>3, <2>5, <2>9 DEF ApartInv
  <2>8. Lost \subseteq Lost'
    BY <1>2, <2>3, <2>5, <2>9 DEF Lost
  <2> QED
    BY <1>1, <2>2, <2>6, <2>7, <2>8 DEF BufInv, PacketInv
<1>5. CASE ~cbuffer_is_full(out_cb)
  <2>1. /\ out_cb' = Store(out_cb, appPkt[a]) /\ app' = [app EXCEPT ![a] = "add"]
        /\ UNCHANGED <<pkts_head, pkts_tail, frameOf, appPkt>> /\ free' = free
    BY <1>2, <1>5, FreeStays DEF netbuf_out
  <2>2. out_cb \in Cb /\ Used(out_cb) < packets - 2 /\ Used(out_cb) < packets - 1 /\ appPkt[a] \in Slot
    BY <1>1, <1>3, <1>5, FullIs, QueueFacts, PacketIs DEF BufferTypes, QueueInv
  <2>3. /\ out_cb' \in Cb /\ Queue(out_cb') = Queue(out_cb) /\ Used(out_cb') = Used(out_cb)
        /\ out_cb'.buf[out_cb'.tail] = appPkt[a]
    BY <2>1, <2>2, QueueStore
  <2>4. BufferTypes' /\ ThreadTypes'
    BY <1>1, <1>2, <2>1, <2>3 DEF BufferTypes, ThreadTypes
  <2>5. InSet' = InSet /\ OutSet' = OutSet /\ Sending' = Sending
    BY <1>2, <2>1, <2>3 DEF InSet, OutSet, Sending
  <2>6. QueueInv'
    BY <1>1, <1>2, <2>3, <2>5 DEF QueueInv
  <2>7. SenderInv'
    <3>1. app'[a] = "add"
      BY <1>1, <2>1 DEF ThreadTypes
    <3> QED
      BY <1>1, <1>2, <1>3, <2>1, <2>2, <2>3, <3>1 DEF SenderInv
  <2>8. ApartInv' /\ Lost' = Lost
    BY <1>1, <1>2, <2>1, <2>5 DEF ApartInv, Lost
  <2> QED
    BY <1>1, <2>4, <2>6, <2>7, <2>8 DEF BufInv, PacketInv
<1> QED
  BY <1>4, <1>5

LEMMA OutAddsBuf ==
    ASSUME SingleSender, BufInv, NEW a \in App, OutAdds(a)
    PROVE  BufInv' /\ Lost \subseteq Lost'
<1>1. BufferTypes /\ ThreadTypes /\ QueueInv /\ SenderInv /\ ApartInv
  BY DEF BufInv, PacketInv
<1>2. /\ app[a] = "add" /\ app' = [app EXCEPT ![a] = "open"] /\ out_cb' = cbuffer_add(out_cb)
      /\ appPkt' = [appPkt EXCEPT ![a] = NoPacket]
      /\ UNCHANGED <<sends, pkts_head, pkts_tail, frameOf, in_cb, netb, net, held, lastIn>>
  BY DEF OutAdds, AppStays
<1>0. free' = free
  BY <1>2, FreeStays
<1>3. /\ appPkt[a] \in Packet /\ appPkt[a] # NoPacket /\ \A b \in App : b = a
      /\ out_cb.buf[out_cb.tail] = appPkt[a] /\ Used(out_cb) < packets - 2
  BY <1>1, <1>2, PacketIs DEF SenderInv, ThreadTypes, SingleSender
<1>4. /\ out_cb' \in Cb /\ Used(out_cb') = Used(out_cb) + 1 /\ Used(out_cb) \in Nat /\ packets \in Nat
      /\ Queue(out_cb') = Append(Queue(out_cb), appPkt[a]) /\ Queue(out_cb) \in Seq(Slot)
  BY <1>1, <1>2, <1>3, QueueAdd, QueueFacts DEF BufferTypes
<1>5. BufferTypes' /\ ThreadTypes'
  BY <1>1, <1>2, <1>4, PacketIs DEF BufferTypes, ThreadTypes
<1>6. appPkt'[a] = NoPacket /\ app'[a] = "open"
  BY <1>1, <1>2 DEF ThreadTypes
<1>7. Sending = {appPkt[a]} /\ Sending' = {}
  <2>1. Sending = {appPkt[a]} \ {NoPacket} /\ Sending' = {appPkt'[a]} \ {NoPacket}
    BY <1>1, <1>5, SendingIs DEF Sending, ThreadTypes
  <2> QED
    BY <1>3, <1>6, <2>1
<1>8. appPkt[a] \notin OutSet
  BY <1>1, <1>7 DEF ApartInv
<1>9. InSet' = InSet /\ OutSet' = OutSet \cup {appPkt[a]} /\ Injective(Queue(out_cb'))
  <2>1. InSet' = InSet
    BY <1>2 DEF InSet
  <2>2. appPkt[a] \in Slot /\ appPkt[a] \notin Range(Queue(out_cb)) /\ Injective(Queue(out_cb))
    BY <1>1, <1>3, <1>8, PacketIs DEF OutSet, QueueInv
  <2>3. /\ Injective(Append(Queue(out_cb), appPkt[a]))
        /\ Range(Append(Queue(out_cb), appPkt[a])) = Range(Queue(out_cb)) \cup {appPkt[a]}
    BY <1>4, <2>2, RangeAppend
  <2> QED
    BY <1>4, <2>1, <2>3 DEF OutSet
<1>10. QueueInv'
  BY <1>1, <1>2, <1>3, <1>4, <1>9 DEF QueueInv
<1>11. SenderInv'
  BY <1>1, <1>2, <1>3, <1>6 DEF SenderInv
<1>12. ApartInv'
  BY <1>1, <1>2, <1>0, <1>7, <1>9 DEF ApartInv
<1>13. Lost \subseteq Lost'
  BY <1>2, <1>0, <1>7, <1>9 DEF Lost
<1> QED
  BY <1>1, <1>5, <1>10, <1>11, <1>12, <1>13 DEF BufInv, PacketInv

LEMMA OutOpensBuf ==
    ASSUME BufInv, NEW a \in App, OutOpens(a)
    PROVE  BufInv' /\ Lost \subseteq Lost'
<1>1. BufferTypes /\ ThreadTypes /\ SenderInv
  BY DEF BufInv, PacketInv
<1>2. /\ app[a] = "open" /\ app' = [app EXCEPT ![a] = "idle"] /\ netb' = TRUE
      /\ UNCHANGED <<appPkt, sends, pkts_head, pkts_tail, frameOf, in_cb, out_cb, net, held, lastIn>>
  BY DEF OutOpens, AppStays
<1>3. QueueInv' /\ ApartInv' /\ Lost' = Lost
  BY <1>2, PacketsStay
<1>4. BufferTypes' /\ ThreadTypes'
  BY <1>1, <1>2 DEF BufferTypes, ThreadTypes
<1>5. SenderInv'
  BY <1>1, <1>2 DEF SenderInv, ThreadTypes
<1> QED
  BY <1>3, <1>4, <1>5 DEF BufInv, PacketInv

LEMMA BufStep ==
    ASSUME SingleSender, CardInv, BufInv, [Next]_vars
    PROVE  BufInv' /\ Lost \subseteq Lost'
<1>1. CASE FrameArrives \/ LinkChanges \/ Driver
  <2>1. UNCHANGED <<bufVars, threadVars>>
    BY <1>1 DEF FrameArrives, LinkChanges, Driver, ResetAndConfigTx, ConfigRx, rtl_start,
                rtl_clear_interrupt_mask, rtl_stop, rtl_done
  <2> QED
    BY <2>1, BufKept
<1>2. CASE Handler
  <2>1. CASE rtl_receive_packets
    BY <2>1, ReceiveBuf
  <2>2. CASE rtl_int_handler \/ AckInterrupt \/ ReceiveEnds \/ rtl_clear_rx \/ rtl_interrupts_link
    <3>1. UNCHANGED <<bufVars, threadVars>>
      BY <2>2 DEF rtl_int_handler, AckInterrupt, ReceiveEnds, rtl_clear_rx, rtl_interrupts_link
    <3> QED
      BY <3>1, BufKept
  <2> QED
    BY <1>2, <2>1, <2>2 DEF Handler
<1>3. CASE NetworkThread
  BY <1>3, WaitBuf, ProcessInBuf, ProcessOutBuf, PutBuf DEF NetworkThread
<1>4. ASSUME NEW a \in App, Sender(a)
      PROVE  BufInv' /\ Lost \subseteq Lost'
  BY <1>4, AppGetsBuf, OutBuf, OutAddsBuf, OutOpensBuf DEF Sender
<1>5. CASE UNCHANGED vars
  BY <1>5, BufKept DEF vars
<1> QED
  BY <1>1, <1>2, <1>3, <1>4, <1>5 DEF Next

(***************************************************************************)
(* The order of the pool.                                                  *)
(***************************************************************************)
LEMMA RunAppend ==
    ASSUME NEW q \in Seq(Slot), NEW first \in Packet, NEW p \in Packet, Run(q, first, p)
    PROVE  Run(Append(q, p), first, PoolStep(p))
<1> DEFINE r == Append(q, p)
<1>1. /\ Len(q) \in Nat /\ Len(r) = Len(q) + 1 /\ r[Len(q) + 1] = p
      /\ \A i \in 1 .. Len(q) : r[i] = q[i]
  BY PacketIs
<1>2. r # <<>>
  BY <1>1
<1> HIDE DEF r
<1>3. r[1] = first
  <2>1. CASE q = <<>>
    BY <1>1, <2>1 DEF Run
  <2>2. CASE q # <<>>
    BY <1>1, <2>2 DEF Run
  <2> QED
    BY <2>1, <2>2
<1>4. \A i \in 1 .. Len(q) : r[i + 1] = PoolStep(r[i])
  <2> TAKE i \in 1 .. Len(q)
  <2>1. CASE i = Len(q)
    <3>1. q # <<>> /\ PoolStep(q[Len(q)]) = p
      BY <1>1, <2>1 DEF Run
    <3> QED
      BY <1>1, <2>1, <3>1
  <2>2. CASE i # Len(q)
    <3>1. i \in 1 .. Len(q) - 1 /\ i + 1 \in 1 .. Len(q)
      BY <1>1, <2>2
    <3> QED
      BY <1>1, <3>1 DEF Run
  <2> QED
    BY <2>1, <2>2
<1>5. Run(r, first, PoolStep(p))
  BY <1>1, <1>2, <1>3, <1>4 DEF Run
<1> QED
  BY <1>5 DEF r

LEMMA RunTail ==
    ASSUME NEW q \in Seq(Slot), NEW first, NEW next, q # <<>>, Run(q, first, next)
    PROVE  Head(q) = first /\ Run(Tail(q), PoolStep(first), next)
<1> DEFINE r == Tail(q)
<1>1. /\ Len(q) \in Nat /\ Len(q) > 0 /\ Len(r) = Len(q) - 1 /\ Head(q) = q[1]
      /\ r \in Seq(Slot) /\ \A i \in 1 .. Len(q) - 1 : r[i] = q[i + 1]
  OBVIOUS
<1> HIDE DEF r
<1>2. q[1] = first /\ PoolStep(q[Len(q)]) = next
  BY DEF Run
<1>3. \A i \in 1 .. Len(q) - 1 : q[i + 1] = PoolStep(q[i])
  BY DEF Run
<1>4. CASE Len(q) = 1
  <2>1. r = <<>> /\ Len(r) = 0
    BY <1>1, <1>4
  <2> QED
    BY <1>1, <1>2, <1>4, <2>1 DEF Run, r
<1>5. CASE Len(q) # 1
  <2>1. r # <<>> /\ 1 \in 1 .. Len(q) - 1 /\ Len(q) - 1 \in 1 .. Len(q) - 1 /\ (Len(q) - 1) + 1 = Len(q)
    BY <1>1, <1>5
  <2>2. r[1] = PoolStep(first) /\ r[Len(r)] = q[Len(q)]
    BY <1>1, <1>2, <1>3, <2>1
  <2>3. \A i \in 1 .. Len(r) - 1 : r[i + 1] = PoolStep(r[i])
    <3> TAKE i \in 1 .. Len(r) - 1
    <3>1. i \in 1 .. Len(q) - 1 /\ i + 1 \in 1 .. Len(q) - 1
      BY <1>1
    <3> QED
      BY <1>1, <1>3, <3>1
  <2>4. Run(r, PoolStep(first), next)
    BY <1>2, <2>1, <2>2, <2>3 DEF Run
  <2> QED
    BY <1>1, <1>2, <2>4 DEF r
<1> QED
  BY <1>1, <1>4, <1>5

LEMMA FifoKept ==
    ASSUME FifoInv, Lost \subseteq Lost', UNCHANGED <<pkts_head, pkts_tail, in_cb, out_cb, held, app, sends>>
    PROVE  FifoInv'
<1>1. Oldest' = Oldest
  BY DEF Oldest
<1> QED
  BY <1>1 DEF FifoInv

LEMMA FifoReceives ==
    ASSUME CardInv, BufInv, FifoInv, rtl_receive_packets
    PROVE  FifoInv'
<1>1. BufferTypes /\ QueueInv /\ Lost \subseteq Lost' /\ (cbuffer_is_full(in_cb) /\ Received(pkts_tail) => Lost' # {})
  BY ReceiveBuf DEF BufInv, PacketInv
<1>2. UNCHANGED <<held, app, sends>>
  BY DEF rtl_receive_packets, threadVars
<1>3. CASE UNCHANGED bufVars
  BY <1>1, <1>2, <1>3, FifoKept DEF bufVars
<1>4. CASE Received(pkts_tail)
  <2>1. out_cb' = out_cb /\ pkts_head' = pkts_head /\ pkts_tail' = PoolStep(pkts_tail)
    BY <1>4 DEF Received
  <2>2. sends' = 0 => cbuffer_is_empty(out_cb') /\ \A a \in App : app'[a] = "idle"
    BY <1>2, <2>1 DEF FifoInv
  <2>3. ASSUME sends' = 0, Lost' = {}
        PROVE  (held' # NoPacket => held' = pkts_head') /\ Run(Queue(in_cb'), Oldest', pkts_tail')
    <3>1. /\ sends = 0 /\ Lost = {} /\ ~cbuffer_is_full(in_cb) /\ in_cb' = cbuffer_add(Store(in_cb, pkts_tail))
      BY <1>1, <1>2, <1>4, <2>3 DEF Received
    <3>2. (held # NoPacket => held = pkts_head) /\ Run(Queue(in_cb), Oldest, pkts_tail)
      BY <3>1 DEF FifoInv
    <3>3. /\ Oldest \in Packet /\ pkts_tail \in Packet /\ pkts_tail \in Slot /\ Oldest' = Oldest
          /\ Queue(in_cb) \in Seq(Slot) /\ Used(in_cb) < packets - 1 /\ in_cb \in Cb
      BY <1>1, <1>2, <2>1, PoolStepIs, QueueFacts, PacketIs DEF Oldest, BufferTypes
    <3>4. /\ Store(in_cb, pkts_tail) \in Cb /\ Queue(Store(in_cb, pkts_tail)) = Queue(in_cb)
          /\ Used(Store(in_cb, pkts_tail)) = Used(in_cb)
          /\ Store(in_cb, pkts_tail).buf[Store(in_cb, pkts_tail).tail] = pkts_tail
      BY <3>3, QueueStore
    <3>5. Queue(in_cb') = Append(Queue(in_cb), pkts_tail)
      BY <3>1, <3>3, <3>4, QueueAdd
    <3>6. Run(Append(Queue(in_cb), pkts_tail), Oldest, PoolStep(pkts_tail))
      BY <3>2, <3>3, RunAppend
    <3> QED
      BY <1>2, <2>1, <3>2, <3>3, <3>5, <3>6
  <2> QED
    BY <2>2, <2>3 DEF FifoInv
<1> QED
  BY <1>3, <1>4, ReceiveIs

LEMMA FifoProcesses ==
    ASSUME BufInv, FifoInv, netbuf_process_in
    PROVE  FifoInv'
<1>1. BufferTypes /\ QueueInv /\ SenderInv /\ Lost \subseteq Lost'
  BY ProcessInBuf DEF BufInv, PacketInv
<1>2. net = "in" /\ UNCHANGED <<pkts_head, pkts_tail, out_cb, app, sends>>
  BY DEF netbuf_process_in, Others
<1>3. CASE cbuffer_is_empty(in_cb)
  BY <1>1, <1>2, <1>3, FifoKept DEF netbuf_process_in
<1>4. CASE ~cbuffer_is_empty(in_cb)
  <2>1. held' = in_cb.buf[in_cb.head] /\ in_cb' = cbuffer_remove(in_cb) /\ held = NoPacket
    BY <1>1, <1>2, <1>4 DEF netbuf_process_in, SenderInv
  <2>2. /\ Queue(in_cb) # <<>> /\ held' = Head(Queue(in_cb)) /\ Queue(in_cb') = Tail(Queue(in_cb))
        /\ Queue(in_cb) \in Seq(Slot)
    BY <1>1, <1>4, <2>1, QueueRemove, QueueFacts DEF BufferTypes
  <2>3. ASSUME sends' = 0, Lost' = {}
        PROVE  (held' # NoPacket => held' = pkts_head') /\ Run(Queue(in_cb'), Oldest', pkts_tail')
    <3>1. Run(Queue(in_cb), pkts_head, pkts_tail)
      BY <1>1, <1>2, <2>1, <2>3 DEF FifoInv, Oldest
    <3>2. held' = pkts_head /\ Run(Queue(in_cb'), PoolStep(pkts_head), pkts_tail)
      BY <2>2, <3>1, RunTail
    <3>3. held' # NoPacket
      BY <1>1, <3>2, PacketIs DEF BufferTypes
    <3> QED
      BY <1>2, <3>2, <3>3 DEF Oldest
  <2>4. sends' = 0 => cbuffer_is_empty(out_cb') /\ \A a \in App : app'[a] = "idle"
    BY <1>2 DEF FifoInv
  <2> QED
    BY <2>3, <2>4 DEF FifoInv
<1> QED
  BY <1>3, <1>4

LEMMA FifoPuts ==
    ASSUME BufInv, FifoInv, netbuf_put
    PROVE  FifoInv'
<1>1. Lost \subseteq Lost' /\ SenderInv
  BY PutBuf DEF BufInv, PacketInv
<1>2. /\ net \in {"putIn", "putOut"} /\ pakman_put_packet(held) /\ held' = NoPacket
      /\ UNCHANGED <<pkts_tail, in_cb, out_cb, app, sends>>
  BY DEF netbuf_put, Others
<1>3. ASSUME sends' = 0, Lost' = {}
      PROVE  (held' # NoPacket => held' = pkts_head') /\ Run(Queue(in_cb'), Oldest', pkts_tail')
  <2>1. held # NoPacket /\ held = pkts_head /\ Run(Queue(in_cb), PoolStep(pkts_head), pkts_tail)
    BY <1>1, <1>2, <1>3 DEF FifoInv, SenderInv, Oldest
  <2>2. pkts_head' = PoolStep(pkts_head)
    BY <1>2, <2>1 DEF pakman_put_packet
  <2> QED
    BY <1>2, <2>1, <2>2 DEF Oldest
<1>4. sends' = 0 => cbuffer_is_empty(out_cb') /\ \A a \in App : app'[a] = "idle"
  BY <1>2 DEF FifoInv
<1> QED
  BY <1>3, <1>4 DEF FifoInv

LEMMA FifoStep ==
    ASSUME SingleSender, CardInv, BufInv, FifoInv, [Next]_vars
    PROVE  FifoInv'
<1>1. Lost \subseteq Lost' /\ ThreadTypes
  BY BufStep DEF BufInv
<1>2. CASE UNCHANGED <<bufVars, threadVars>>
  BY <1>1, <1>2, FifoKept DEF bufVars, threadVars
<1>3. CASE FrameArrives \/ LinkChanges \/ Driver \/ UNCHANGED vars
  BY <1>2, <1>3 DEF FrameArrives, LinkChanges, Driver, ResetAndConfigTx, ConfigRx, rtl_start,
                    rtl_clear_interrupt_mask, rtl_stop, rtl_done, vars
<1>4. CASE Handler
  <2>1. CASE rtl_int_handler \/ AckInterrupt \/ ReceiveEnds \/ rtl_clear_rx \/ rtl_interrupts_link
    BY <1>2, <2>1 DEF rtl_int_handler, AckInterrupt, ReceiveEnds, rtl_clear_rx, rtl_interrupts_link
  <2> QED
    BY <1>4, <2>1, FifoReceives DEF Handler
<1>5. CASE NetworkThread
  <2>1. CASE netbuf_wait \/ BarrierCloses
    BY <1>1, <2>1, FifoKept DEF netbuf_wait, BarrierCloses, Others, bufVars
  <2>2. CASE netbuf_process_out
    <3>1. UNCHANGED <<pkts_head, pkts_tail, in_cb, app, sends>>
      BY <2>2 DEF netbuf_process_out, Others
    <3>2. CASE cbuffer_is_empty(out_cb)
      BY <1>1, <2>2, <3>1, <3>2, FifoKept DEF netbuf_process_out
    <3>3. CASE ~cbuffer_is_empty(out_cb)
      BY <3>1, <3>3 DEF FifoInv
    <3> QED
      BY <3>2, <3>3
  <2> QED
    BY <1>5, <2>1, <2>2, FifoProcesses, FifoPuts DEF NetworkThread
<1>6. ASSUME NEW a \in App, Sender(a)
      PROVE  FifoInv'
  <2>1. CASE AppGets(a)
    BY <1>1, <2>1 DEF AppGets, ThreadTypes, FifoInv
  <2>2. CASE netbuf_out(a) \/ OutAdds(a) \/ OutOpens(a)
    <3>1. app[a] # "idle" /\ sends' = sends
      BY <2>2 DEF netbuf_out, OutAdds, OutOpens
    <3> QED
      BY <3>1 DEF FifoInv
  <2> QED
    BY <1>6, <2>1, <2>2 DEF Sender
<1> QED
  BY <1>3, <1>4, <1>5, <1>6 DEF Next

(***************************************************************************)
(* The order of the frames.                                                *)
(***************************************************************************)

(* A packet that is not in the queue may be filled.                        *)
LEMMA OrderedFill ==
    ASSUME NEW q \in Seq(Slot), NEW f, NEW g, NEW u, NEW l, NEW n, Ordered(q, f, u, l, n),
           \A i \in 1 .. Len(q) : g[q[i]] = f[q[i]]
    PROVE  Ordered(q, g, u, l, n)
BY DEF Ordered

LEMMA OrderedArrive ==
    ASSUME NEW q \in Seq(Slot), Range(q) \subseteq Packet, NEW f \in [Packet -> Nat], NEW u \in Seq(Frame),
           NEW l \in Nat, NEW n \in Nat, Ordered(q, f, u, l, n)
    PROVE  /\ Ordered(q, f, u, l, n + 1)
           /\ \A x \in Frame : x.id = n + 1 => Ordered(q, f, Append(u, x), l, n + 1)
<1>1. \A i \in 1 .. Len(q) : f[q[i]] \in Nat /\ l < f[q[i]] /\ f[q[i]] <= n
  <2> TAKE i \in 1 .. Len(q)
  <2>1. q[i] \in Packet
    BY RangeIs
  <2> QED
    BY <2>1 DEF Ordered
<1>2. \A j \in 1 .. Len(u) : u[j].id \in Nat /\ l < u[j].id /\ u[j].id <= n
  BY ElementOfSeq, FrameIs DEF Ordered
<1>3. l <= n
  BY DEF Ordered
<1>4. Ordered(q, f, u, l, n + 1)
  BY <1>1, <1>2, <1>3 DEF Ordered
<1>5. ASSUME NEW x \in Frame, x.id = n + 1
      PROVE  Ordered(q, f, Append(u, x), l, n + 1)
  <2> DEFINE v == Append(u, x)
             k == Len(u)
  <2>1. k \in Nat /\ Len(v) = k + 1 /\ v[k + 1] = x /\ \A i \in 1 .. k : v[i] = u[i]
    BY AppendProperties, LenProperties
  <2> HIDE DEF v
  <2>2. \A j \in 1 .. k + 1 : j = k + 1 \/ j \in 1 .. k
    BY <2>1
  <2>3. \A j \in 1 .. Len(v) : l < v[j].id /\ v[j].id <= n + 1
    <3> SUFFICES ASSUME NEW j \in 1 .. Len(v)
                 PROVE  l < v[j].id /\ v[j].id <= n + 1
      OBVIOUS
    <3>1. CASE j = k + 1
      BY <1>3, <1>5, <2>1, <3>1
    <3>2. CASE j \in 1 .. k
      <4>1. v[j] = u[j] /\ u[j].id \in Nat /\ l < u[j].id /\ u[j].id <= n
        BY <1>2, <2>1, <3>2
      <4> QED
        BY <4>1
    <3> QED
      BY <2>1, <2>2, <3>1, <3>2
  <2>4. \A i, j \in 1 .. Len(v) : i < j => v[i].id < v[j].id
    <3> SUFFICES ASSUME NEW i \in 1 .. Len(v), NEW j \in 1 .. Len(v), i < j
                 PROVE  v[i].id < v[j].id
      OBVIOUS
    <3>1. i \in 1 .. k /\ v[i] = u[i] /\ u[i].id \in Nat /\ u[i].id <= n
      BY <1>2, <2>1
    <3>2. CASE j = k + 1
      BY <1>5, <2>1, <3>1, <3>2
    <3>3. CASE j \in 1 .. k
      BY <2>1, <3>1, <3>3 DEF Ordered
    <3> QED
      BY <2>1, <2>2, <3>2, <3>3
  <2>5. \A i \in 1 .. Len(q), j \in 1 .. Len(v) : f[q[i]] < v[j].id
    <3> SUFFICES ASSUME NEW i \in 1 .. Len(q), NEW j \in 1 .. Len(v)
                 PROVE  f[q[i]] < v[j].id
      OBVIOUS
    <3>1. CASE j = k + 1
      BY <1>1, <1>5, <2>1, <3>1
    <3>2. CASE j \in 1 .. k
      BY <2>1, <3>2 DEF Ordered
    <3> QED
      BY <2>1, <2>2, <3>1, <3>2
  <2>6. Ordered(q, f, v, l, n + 1)
    BY <1>4, <2>3, <2>4, <2>5 DEF Ordered
  <2> QED
    BY <2>6 DEF v
<1> QED
  BY <1>4, <1>5

LEMMA OrderedReset ==
    ASSUME NEW q, NEW f, NEW u, NEW l, NEW n, Ordered(q, f, u, l, n)
    PROVE  Ordered(q, f, <<>>, l, n)
BY DEF Ordered

LEMMA TailIs ==
    ASSUME NEW S, NEW u \in Seq(S), u # <<>>
    PROVE  /\ Len(u) \in Nat \ {0} /\ Len(Tail(u)) = Len(u) - 1 /\ Head(u) = u[1] /\ 1 \in 1 .. Len(u)
           /\ \A j \in 1 .. Len(u) - 1 : Tail(u)[j] = u[j + 1] /\ j + 1 \in 1 .. Len(u) /\ 1 < j + 1
<1>1. Len(u) \in Nat \ {0}
  BY EmptySeq
<1>2. Len(Tail(u)) = Len(u) - 1 /\ \A j \in 1 .. Len(u) - 1 : Tail(u)[j] = u[j + 1]
  BY HeadTailProperties
<1> QED
  BY <1>1, <1>2

LEMMA OrderedSkip ==
    ASSUME NEW q, NEW f, NEW u \in Seq(Frame), u # <<>>, NEW l, NEW n, Ordered(q, f, u, l, n)
    PROVE  Ordered(q, f, Tail(u), l, n)
<1> DEFINE v == Tail(u)
<1>1. /\ Len(u) \in Nat \ {0} /\ Len(v) = Len(u) - 1
      /\ \A j \in 1 .. Len(u) - 1 : v[j] = u[j + 1] /\ j + 1 \in 1 .. Len(u)
  BY TailIs
<1> HIDE DEF v
<1>2. \A i, j \in 1 .. Len(v) : i < j => v[i].id < v[j].id
  <2> SUFFICES ASSUME NEW i \in 1 .. Len(v), NEW j \in 1 .. Len(v), i < j
               PROVE  v[i].id < v[j].id
    OBVIOUS
  <2>1. v[i] = u[i + 1] /\ v[j] = u[j + 1] /\ i + 1 \in 1 .. Len(u) /\ j + 1 \in 1 .. Len(u) /\ i + 1 < j + 1
    BY <1>1
  <2> QED
    BY <2>1 DEF Ordered
<1>3. \A j \in 1 .. Len(v) : l < v[j].id /\ v[j].id <= n
  BY <1>1 DEF Ordered
<1>4. \A i \in 1 .. Len(q), j \in 1 .. Len(v) : f[q[i]] < v[j].id
  BY <1>1 DEF Ordered
<1>5. Ordered(q, f, v, l, n)
  BY <1>2, <1>3, <1>4 DEF Ordered
<1> QED
  BY <1>5 DEF v

(* The oldest frame of the ring becomes the last of the queue.             *)
LEMMA OrderedMove ==
    ASSUME NEW q \in Seq(Slot), NEW p \in Slot, NEW f, NEW g, NEW u \in Seq(Frame), u # <<>>,
           NEW l, NEW n, Ordered(q, f, u, l, n),
           \A i \in 1 .. Len(q) : g[q[i]] = f[q[i]], g[p] = Head(u).id
    PROVE  Ordered(Append(q, p), g, Tail(u), l, n)
<1> DEFINE r == Append(q, p)
           v == Tail(u)
           k == Len(q)
<1>1. /\ Len(u) \in Nat \ {0} /\ Len(v) = Len(u) - 1 /\ Head(u) = u[1] /\ 1 \in 1 .. Len(u)
      /\ \A j \in 1 .. Len(u) - 1 : v[j] = u[j + 1] /\ j + 1 \in 1 .. Len(u) /\ 1 < j + 1
  BY TailIs
<1>2. k \in Nat /\ Len(r) = k + 1 /\ r[k + 1] = p /\ \A i \in 1 .. k : r[i] = q[i]
  BY AppendProperties, LenProperties
<1>3. Ordered(q, g, v, l, n)
  BY OrderedFill, OrderedSkip
<1> HIDE DEF r, v
<1>4. \A i \in 1 .. k + 1 : i = k + 1 \/ i \in 1 .. k
  BY <1>2
<1>5. \A i \in 1 .. k : g[r[i]] = f[q[i]]
  BY <1>2
<1>6. g[r[k + 1]] = u[1].id
  BY <1>1, <1>2
<1>7. \A i, j \in 1 .. Len(r) : i < j => g[r[i]] < g[r[j]]
  <2> SUFFICES ASSUME NEW i \in 1 .. Len(r), NEW j \in 1 .. Len(r), i < j
               PROVE  g[r[i]] < g[r[j]]
    OBVIOUS
  <2>1. i \in 1 .. k
    BY <1>2
  <2>2. CASE j = k + 1
    BY <1>1, <1>5, <1>6, <2>1, <2>2 DEF Ordered
  <2>3. CASE j \in 1 .. k
    BY <1>5, <2>1, <2>3 DEF Ordered
  <2> QED
    BY <1>2, <1>4, <2>2, <2>3
<1>8. \A i \in 1 .. Len(r) : l < g[r[i]] /\ g[r[i]] <= n
  <2> TAKE i \in 1 .. Len(r)
  <2>1. CASE i = k + 1
    BY <1>1, <1>6, <2>1 DEF Ordered
  <2>2. CASE i \in 1 .. k
    BY <1>5, <2>2 DEF Ordered
  <2> QED
    BY <1>2, <1>4, <2>1, <2>2
<1>9. \A i \in 1 .. Len(r), j \in 1 .. Len(v) : g[r[i]] < v[j].id
  <2> SUFFICES ASSUME NEW i \in 1 .. Len(r), NEW j \in 1 .. Len(v)
               PROVE  g[r[i]] < v[j].id
    OBVIOUS
  <2>0. v[j] = u[j + 1] /\ j + 1 \in 1 .. Len(u) /\ 1 < j + 1
    BY <1>1
  <2>1. CASE i = k + 1
    BY <1>1, <1>6, <2>0, <2>1 DEF Ordered
  <2>2. CASE i \in 1 .. k
    BY <1>5, <2>0, <2>2 DEF Ordered
  <2> QED
    BY <1>2, <1>4, <2>1, <2>2
<1>10. Ordered(r, g, v, l, n)
  BY <1>3, <1>7, <1>8, <1>9 DEF Ordered
<1> QED
  BY <1>10 DEF r, v

(* The oldest packet of the queue is processed.                            *)
LEMMA OrderedProcess ==
    ASSUME NEW q \in Seq(Slot), q # <<>>, NEW f, NEW u, NEW l, NEW n, Ordered(q, f, u, l, n)
    PROVE  Ordered(Tail(q), f, u, f[Head(q)], n)
<1> DEFINE r == Tail(q)
<1>1. /\ Len(q) \in Nat \ {0} /\ Len(r) = Len(q) - 1 /\ Head(q) = q[1] /\ 1 \in 1 .. Len(q)
      /\ \A j \in 1 .. Len(q) - 1 : r[j] = q[j + 1] /\ j + 1 \in 1 .. Len(q) /\ 1 < j + 1
  BY TailIs
<1> HIDE DEF r
<1>2. \A i, j \in 1 .. Len(r) : i < j => f[r[i]] < f[r[j]]
  <2> SUFFICES ASSUME NEW i \in 1 .. Len(r), NEW j \in 1 .. Len(r), i < j
               PROVE  f[r[i]] < f[r[j]]
    OBVIOUS
  <2>1. r[i] = q[i + 1] /\ r[j] = q[j + 1] /\ i + 1 \in 1 .. Len(q) /\ j + 1 \in 1 .. Len(q) /\ i + 1 < j + 1
    BY <1>1
  <2> QED
    BY <2>1 DEF Ordered
<1>3. \A i \in 1 .. Len(r) : f[q[1]] < f[r[i]] /\ f[r[i]] <= n
  BY <1>1 DEF Ordered
<1>4. \A j \in 1 .. Len(u) : f[q[1]] < u[j].id /\ u[j].id <= n
  BY <1>1 DEF Ordered
<1>5. \A i \in 1 .. Len(r), j \in 1 .. Len(u) : f[r[i]] < u[j].id
  BY <1>1 DEF Ordered
<1>6. f[q[1]] <= n
  BY <1>1 DEF Ordered
<1>7. Ordered(r, f, u, f[q[1]], n)
  BY <1>2, <1>3, <1>4, <1>5, <1>6 DEF Ordered
<1> QED
  BY <1>1, <1>7 DEF r

LEMMA OrderStep ==
    ASSUME CardInv, BufInv, OrderInv, [Next]_vars
    PROVE  OrderInv'
<1>1. /\ unread \in Seq(Frame) /\ arrived \in Nat /\ lastIn \in Nat /\ frameOf \in [Packet -> Nat]
      /\ in_cb \in Cb /\ InSet \subseteq Packet
  BY DEF CardInv, CardTypes, BufInv, BufferTypes, ThreadTypes, PacketInv, QueueInv
<1>2. /\ Queue(in_cb) \in Seq(Slot) /\ Len(Queue(in_cb)) \in Nat
      /\ \A i \in 1 .. Len(Queue(in_cb)) : Queue(in_cb)[i] \in InSet
  BY <1>1, QueueIs, RangeIs DEF InSet
<1>3. Ordered(Queue(in_cb), frameOf, unread, lastIn, arrived)
  BY DEF OrderInv
<1>4. ASSUME UNCHANGED <<in_cb, frameOf, lastIn, arrived>>, unread' = unread \/ unread' = <<>>
      PROVE  OrderInv'
  BY <1>3, <1>4, OrderedReset DEF OrderInv
<1>5. CASE FrameArrives
  <2>1. arrived' = arrived + 1 /\ UNCHANGED <<in_cb, frameOf, lastIn>>
    BY <1>5 DEF FrameArrives, bufVars, threadVars
  <2>2. CASE unread' = unread
    BY <1>1, <1>2, <1>3, <2>1, <2>2, OrderedArrive DEF OrderInv, InSet
  <2>3. ASSUME NEW len \in FrameLength, NEW ok \in BOOLEAN,
               unread' = Append(unread, [at |-> CBR, id |-> arrived + 1, len |-> len, ok |-> ok])
        PROVE  OrderInv'
    <3> DEFINE x == [at |-> CBR, id |-> arrived + 1, len |-> len, ok |-> ok]
    <3>1. x \in Frame /\ x.id = arrived + 1
      BY <1>1 DEF Frame, CardInv, CardTypes
    <3> HIDE DEF x
    <3>2. Ordered(Queue(in_cb), frameOf, Append(unread, x), lastIn, arrived + 1)
      BY <1>1, <1>2, <1>3, <3>1, OrderedArrive DEF InSet
    <3> QED
      BY <2>1, <2>3, <3>2 DEF OrderInv, x
  <2> QED
    BY <1>5, <2>2, <2>3 DEF FrameArrives
<1>6. CASE LinkChanges \/ Driver
  BY <1>4, <1>6 DEF LinkChanges, Driver, ResetAndConfigTx, ConfigRx, rtl_start, rtl_config_rx, ResetRing,
                    rtl_clear_interrupt_mask, rtl_stop, rtl_done, bufVars, threadVars
<1>7. CASE rtl_int_handler \/ AckInterrupt \/ ReceiveEnds \/ rtl_clear_rx \/ rtl_interrupts_link
  BY <1>4, <1>7 DEF rtl_int_handler, AckInterrupt, ReceiveEnds, rtl_clear_rx, rtl_interrupts_link,
                    rtl_config_rx, ResetRing, cardVars, bufVars, threadVars
<1>8. CASE rtl_receive_packets
  <2> DEFINE pkt == pkts_tail
  <2>1. irq = "receive" /\ ~BUFE /\ UNCHANGED <<arrived, lastIn>>
    BY <1>8 DEF rtl_receive_packets, threadVars
  <2>2. unread # <<>> /\ HeaderAt(rx_ring_offset) = Head(unread) /\ Head(unread).id \in Nat
    BY <2>1, HeaderIs, FrameIs
  <2>3. CASE SkipFrame(Head(unread).len) /\ UNCHANGED bufVars
    <3>1. unread' = Tail(unread) /\ UNCHANGED <<in_cb, frameOf>>
      BY <2>3 DEF SkipFrame, bufVars
    <3> QED
      BY <1>1, <1>3, <2>1, <2>2, <3>1, OrderedSkip DEF OrderInv
  <2>4. CASE unread' = unread /\ UNCHANGED bufVars
    BY <1>4, <2>1, <2>4 DEF bufVars
  <2>5. CASE Received(pkts_tail)
    <3>1. pkt \in free /\ pkt \in Packet /\ pkt \in Slot
      BY <2>5, FreeTakes, PacketIs DEF Received, BufInv, BufferTypes
    <3>2. pkt \notin InSet
      BY <3>1 DEF BufInv, PacketInv, ApartInv
    <3>3. frameOf'[pkt] = Head(unread).id /\ \A p \in Packet : p # pkt => frameOf'[p] = frameOf[p]
      BY <1>1, <2>2, <2>5, <3>1 DEF netbuf_copy_eth, Received
    <3>4. \A i \in 1 .. Len(Queue(in_cb)) : frameOf'[Queue(in_cb)[i]] = frameOf[Queue(in_cb)[i]]
      BY <1>1, <1>2, <3>2, <3>3
    <3>5. CASE UNCHANGED <<unread, in_cb>>
      BY <1>2, <1>3, <2>1, <3>4, <3>5, OrderedFill DEF OrderInv
    <3>6. CASE in_cb' = cbuffer_add(Store(in_cb, pkt)) /\ ~cbuffer_is_full(in_cb) /\ SkipFrame(Head(unread).len)
      <4>1. Used(in_cb) < packets - 1
        BY QueueFacts DEF BufInv, PacketInv
      <4>2. /\ Store(in_cb, pkt) \in Cb /\ Queue(Store(in_cb, pkt)) = Queue(in_cb)
            /\ Used(Store(in_cb, pkt)) = Used(in_cb)
            /\ Store(in_cb, pkt).buf[Store(in_cb, pkt).tail] = pkt
        BY <1>1, <3>1, <4>1, QueueStore
      <4>3. Queue(in_cb') = Append(Queue(in_cb), pkt)
        BY <3>6, <4>1, <4>2, QueueAdd
      <4>4. unread' = Tail(unread)
        BY <3>6 DEF SkipFrame
      <4>5. Ordered(Append(Queue(in_cb), pkt), frameOf', Tail(unread), lastIn, arrived)
        BY <1>1, <1>2, <1>3, <2>2, <3>1, <3>3, <3>4, OrderedMove
      <4> QED
        BY <2>1, <4>3, <4>4, <4>5 DEF OrderInv
    <3> QED
      BY <2>2, <2>5, <3>5, <3>6 DEF Received
  <2> QED
    BY <1>8, <2>2, <2>3, <2>4, <2>5, ReceiveIs
<1>9. CASE netbuf_wait \/ BarrierCloses \/ netbuf_process_out
  BY <1>4, <1>9 DEF netbuf_wait, BarrierCloses, netbuf_process_out, Others, cardVars, bufVars
<1>10. CASE netbuf_process_in
  <2>1. UNCHANGED <<frameOf, unread, arrived>>
    BY <1>10 DEF netbuf_process_in, Others, cardVars
  <2>2. CASE cbuffer_is_empty(in_cb)
    BY <1>4, <1>10, <2>1, <2>2 DEF netbuf_process_in
  <2>3. CASE ~cbuffer_is_empty(in_cb)
    <3>1. lastIn' = frameOf[in_cb.buf[in_cb.head]] /\ in_cb' = cbuffer_remove(in_cb)
      BY <1>10, <2>3 DEF netbuf_process_in
    <3>2. /\ Queue(in_cb) # <<>> /\ in_cb.buf[in_cb.head] = Head(Queue(in_cb))
          /\ Queue(in_cb') = Tail(Queue(in_cb))
      BY <1>1, <2>3, <3>1, QueueRemove
    <3>3. Ordered(Tail(Queue(in_cb)), frameOf, unread, frameOf[Head(Queue(in_cb))], arrived)
      BY <1>2, <1>3, <3>2, OrderedProcess
    <3> QED
      BY <2>1, <3>1, <3>2, <3>3 DEF OrderInv
  <2> QED
    BY <2>2, <2>3
<1>11. CASE netbuf_put
  <2>1. /\ pakman_put_packet(held) /\ pkts_tail' = pkts_tail
        /\ UNCHANGED <<in_cb, lastIn, unread, arrived>>
    BY <1>11 DEF netbuf_put, Others, cardVars
  <2>2. held \notin InSet /\ held \notin free /\ held \in Packet /\ BufferTypes
    BY <1>11, PacketIs DEF BufInv, PacketInv, ApartInv, SenderInv, ThreadTypes, netbuf_put
  <2>3. \A i \in 1 .. Len(Queue(in_cb)) : frameOf'[Queue(in_cb)[i]] = frameOf[Queue(in_cb)[i]]
    BY <1>1, <1>2, <2>1, <2>2, PutIs
  <2> QED
    BY <1>2, <1>3, <2>1, <2>3, OrderedFill DEF OrderInv
<1>12. ASSUME NEW a \in App, Sender(a)
       PROVE  OrderInv'
  <2>1. CASE AppGets(a) \/ OutAdds(a) \/ OutOpens(a)
    BY <1>4, <2>1 DEF AppGets, OutAdds, OutOpens, AppStays, cardVars
  <2>2. CASE netbuf_out(a)
    <3>1. UNCHANGED <<in_cb, lastIn, unread, arrived, pkts_tail>> /\ app[a] = "store"
      BY <2>2 DEF netbuf_out, AppStays, cardVars
    <3>2. CASE frameOf' = frameOf
      BY <1>4, <3>1, <3>2
    <3>3. CASE pakman_put_packet(appPkt[a])
      <4>1. /\ appPkt[a] \in Packet /\ appPkt[a] \in Sending /\ BufferTypes
            /\ appPkt[a] \notin InSet /\ appPkt[a] \notin free
        BY <3>1, PacketIs DEF BufInv, PacketInv, ApartInv, SenderInv, ThreadTypes, Sending
      <4>2. \A i \in 1 .. Len(Queue(in_cb)) : frameOf'[Queue(in_cb)[i]] = frameOf[Queue(in_cb)[i]]
        BY <1>1, <1>2, <3>1, <3>3, <4>1, PutIs
      <4> QED
        BY <1>2, <1>3, <3>1, <4>2, OrderedFill DEF OrderInv
    <3> QED
      BY <2>2, <3>2, <3>3 DEF netbuf_out
  <2> QED
    BY <1>12, <2>1, <2>2 DEF Sender
<1>13. CASE UNCHANGED vars
  BY <1>4, <1>13 DEF vars, cardVars, bufVars, threadVars
<1> QED
  BY <1>5, <1>6, <1>7, <1>8, <1>9, <1>10, <1>11, <1>12, <1>13 DEF Next, Handler, NetworkThread

(* Whoever queues a packet opens the barrier.                              *)
LEMMA AwakeStep ==
    ASSUME BufInv, AwakeInv, [Next]_vars
    PROVE  AwakeInv'
<1>1. BufferTypes /\ ThreadTypes
  BY DEF BufInv
<1>2. ASSUME UNCHANGED <<in_cb, out_cb, netb, net, app>>
      PROVE  AwakeInv'
  BY <1>2 DEF AwakeInv
<1>3. CASE FrameArrives \/ LinkChanges \/ Driver
  BY <1>2, <1>3 DEF FrameArrives, LinkChanges, Driver, ResetAndConfigTx, ConfigRx, rtl_start,
                    rtl_clear_interrupt_mask, rtl_stop, rtl_done, bufVars, threadVars
<1>4. CASE rtl_int_handler \/ AckInterrupt \/ ReceiveEnds \/ rtl_clear_rx \/ rtl_interrupts_link
  BY <1>2, <1>4 DEF rtl_int_handler, AckInterrupt, ReceiveEnds, rtl_clear_rx, rtl_interrupts_link,
                    bufVars, threadVars
<1>5. CASE rtl_receive_packets
  <2>1. CASE UNCHANGED <<in_cb, out_cb, netb>>
    BY <1>2, <1>5, <2>1 DEF rtl_receive_packets, threadVars
  <2>2. CASE netb' = TRUE
    BY <2>2 DEF AwakeInv
  <2> QED
    BY <1>5, <2>1, <2>2 DEF rtl_receive_packets, bufVars
<1>6. CASE netbuf_wait \/ BarrierCloses \/ netbuf_put
  <2>1. net' \in {"close", "in", "out"}
    BY <1>6 DEF netbuf_wait, BarrierCloses, netbuf_put
  <2> QED
    BY <2>1 DEF AwakeInv
<1>7. CASE netbuf_process_in
  BY <1>7 DEF netbuf_process_in, AwakeInv
<1>8. CASE netbuf_process_out
  <2>1. CASE cbuffer_is_empty(out_cb)
    BY <1>8, <2>1 DEF netbuf_process_out, AwakeInv, KeepOn
  <2>2. CASE ~cbuffer_is_empty(out_cb)
    BY <1>8, <2>2 DEF netbuf_process_out, AwakeInv
  <2> QED
    BY <2>1, <2>2
<1>9. ASSUME NEW a \in App, AppGets(a) \/ netbuf_out(a)
      PROVE  AwakeInv'
  <2>1. /\ UNCHANGED <<in_cb, netb, net>> /\ app[a] # "open" /\ app' \in [App -> {"idle", "store", "add", "open"}]
        /\ \A b \in App : b # a => app'[b] = app[b]
    BY <1>1, <1>9 DEF AppGets, netbuf_out, AppStays, ThreadTypes
  <2>2. cbuffer_is_empty(out_cb) => cbuffer_is_empty(out_cb')
    <3>1. out_cb' = out_cb \/ out_cb' = Store(out_cb, appPkt[a])
      BY <1>9 DEF AppGets, netbuf_out
    <3>2. Store(out_cb, appPkt[a]).head = out_cb.head /\ Store(out_cb, appPkt[a]).tail = out_cb.tail
      BY <1>1 DEF Store, BufferTypes, Cb
    <3> QED
      BY <3>1, <3>2 DEF cbuffer_is_empty
  <2>3. (\E b \in App : app[b] = "open") => \E b \in App : app'[b] = "open"
    BY <2>1
  <2>4. (net' \in {"wait", "outOnly"} /\ ~netb') => cbuffer_is_empty(in_cb')
    BY <2>1 DEF AwakeInv
  <2>5. (net' = "wait" /\ ~netb') => cbuffer_is_empty(out_cb') \/ \E b \in App : app'[b] = "open"
    BY <2>1, <2>2, <2>3 DEF AwakeInv
  <2>6. cbuffer_is_empty(out_cb)' <=> cbuffer_is_empty(out_cb')
    BY DEF cbuffer_is_empty
  <2>7. cbuffer_is_empty(in_cb)' <=> cbuffer_is_empty(in_cb')
    BY DEF cbuffer_is_empty
  <2> QED
    BY <2>4, <2>5, <2>6, <2>7 DEF AwakeInv
<1>10. ASSUME NEW a \in App, OutAdds(a)
       PROVE  AwakeInv'
  <2>1. UNCHANGED <<in_cb, netb, net>> /\ app'[a] = "open"
    BY <1>1, <1>10 DEF OutAdds, AppStays, ThreadTypes
  <2> QED
    BY <2>1 DEF AwakeInv
<1>11. ASSUME NEW a \in App, OutOpens(a)
       PROVE  AwakeInv'
  <2>1. netb' = TRUE
    BY <1>11 DEF OutOpens
  <2> QED
    BY <2>1 DEF AwakeInv
<1>12. CASE UNCHANGED vars
  BY <1>2, <1>12 DEF vars, bufVars, threadVars
<1> QED
  BY <1>3, <1>4, <1>5, <1>6, <1>7, <1>8, <1>9, <1>10, <1>11, <1>12 DEF Next, Handler, NetworkThread, Sender

(* A change of the link is pending, in the handler's hands or known, as    *)
(* long as the driver has not been stopped.                                *)
LEMMA LinkStep ==
    ASSUME ~LinkWhileStopped, CardInv, LinkInv, [Next]_vars
    PROVE  LinkInv'
<1>1. CardTypes /\ DriverTypes /\ ModeInv
  BY DEF CardInv, RingInv
<1>2. ASSUME UNCHANGED <<restarts, drvStatus, op, linkUp, ifflags, isr, irq>>, ISR \subseteq ISR'
      PROVE  LinkInv'
  BY <1>2 DEF LinkInv
<1>3. CASE FrameArrives
  BY <1>2, <1>3 DEF FrameArrives, driverVars
<1>4. CASE LinkChanges
  <2>1. /\ lineOn /\ "PUN" \in ISR' /\ UNCHANGED <<restarts, drvStatus, op>>
    BY <1>4 DEF LinkChanges, driverVars
  <2>2. drvStatus = "RUN"
    BY <1>1, <2>1 DEF ModeInv
  <2> QED
    BY <2>1, <2>2 DEF LinkInv
<1>5. CASE rtl_int_handler
  BY <1>5 DEF rtl_int_handler, LinkInv, cardVars
<1>6. CASE AckInterrupt
  <2>1. irq' \in {"receive", "clearOvw", "link"} /\ ISR' = ISR \ isr
    BY <1>6 DEF AckInterrupt, AfterReceive
  <2>2. UNCHANGED <<restarts, drvStatus, op, linkUp, ifflags, isr>>
    BY <1>6 DEF AckInterrupt
  <2> QED
    BY <2>1, <2>2 DEF LinkInv
<1>7. CASE rtl_receive_packets \/ ReceiveEnds \/ rtl_clear_rx
  <2>1. UNCHANGED <<restarts, drvStatus, op, linkUp, ifflags, isr, ISR>>
    BY <1>7 DEF rtl_receive_packets, ReceiveEnds, rtl_clear_rx, cardVars
  <2>2. irq' # "idle"
    BY <1>7 DEF rtl_receive_packets, ReceiveEnds, rtl_clear_rx, SkipFrame, AfterReceive
  <2> QED
    BY <2>1, <2>2 DEF LinkInv
<1>8. CASE rtl_interrupts_link
  <2>1. /\ irq = "link" /\ UNCHANGED <<restarts, drvStatus, op, linkUp, ISR>>
        /\ ifflags' = IF "PUN" \in isr THEN LinkFlags(ifflags) ELSE ifflags
    BY <1>8 DEF rtl_interrupts_link, cardVars
  <2>2. drvStatus = "RUN"
    BY <1>1, <2>1 DEF ModeInv
  <2>3. CASE "PUN" \in isr
    <3>1. linkUp <=> "UP" \in ifflags'
      BY <2>1, <2>3 DEF LinkFlags
    <3> QED
      BY <2>1, <2>2, <3>1 DEF LinkInv
  <2>4. CASE "PUN" \notin isr
    BY <2>1, <2>2, <2>4 DEF LinkInv
  <2> QED
    BY <2>3, <2>4
<1>9. CASE ResetAndConfigTx
  <2>1. drvStatus # "RUN" /\ op' = "rx" /\ UNCHANGED <<restarts, drvStatus, linkUp, ifflags>>
    BY <1>9 DEF ResetAndConfigTx
  <2> QED
    BY <2>1 DEF LinkInv
<1>10. CASE ConfigRx
  BY <1>10 DEF ConfigRx, LinkInv
<1>11. CASE rtl_start
  BY <1>11 DEF rtl_start, LinkInv
<1>12. CASE rtl_clear_interrupt_mask
  <2>1. restarts' # 0
    BY <1>1, <1>12 DEF rtl_clear_interrupt_mask, DriverTypes
  <2> QED
    BY <2>1 DEF LinkInv
<1>13. CASE rtl_stop \/ rtl_done
  BY <1>13 DEF rtl_stop, rtl_done, LinkInv
<1>14. CASE NetworkThread
  BY <1>2, <1>14 DEF NetworkThread, netbuf_wait, BarrierCloses, netbuf_process_in, netbuf_process_out,
                     netbuf_put, Others, cardVars, driverVars
<1>15. ASSUME NEW a \in App, Sender(a)
       PROVE  LinkInv'
  BY <1>2, <1>15 DEF Sender, AppGets, netbuf_out, OutAdds, OutOpens, AppStays, cardVars, driverVars
<1>16. CASE UNCHANGED vars
  BY <1>2, <1>16 DEF vars, cardVars, driverVars
<1> QED
  BY <1>3, <1>4, <1>5, <1>6, <1>7, <1>8, <1>9, <1>10, <1>11, <1>12, <1>13, <1>14, <1>15, <1>16
     DEF Next, Handler, Driver

(***************************************************************************)
(* The invariant holds from the start and says what it has to.             *)
(***************************************************************************)
LEMMA InitCard == Init => CardInv
<1> SUFFICES ASSUME Init
             PROVE  CardInv
  OBVIOUS
<1>1. /\ RBLEN_SIZE \in Nat \ {0} /\ AddressSpace \in Nat \ {0} /\ AddressSpace % RBLEN_SIZE = 0
      /\ CAPR_DATA_OFF \in 1 .. AddressSpace
  BY NetworkAssumption
<1>2. /\ unread = <<>> /\ CBR = 0 /\ CAPR = AddressSpace - CAPR_DATA_OFF
      /\ RE = FALSE /\ IMR = FALSE /\ ISR = {} /\ linkUp = FALSE /\ arrived = 0 /\ links = 0
      /\ rx_cur_address = 0 /\ rx_ring_offset = 0 /\ drvStatus = "INIT" /\ lineOn = FALSE
      /\ irq = "idle" /\ isr = {} /\ op = "idle" /\ restarts = 0
  BY DEF Init
<1>3. unread \in Seq(Frame)
  BY <1>2, EmptySeq
<1>4. CardTypes /\ DriverTypes
  <2>1. CAPR \in 0 .. AddressSpace - 1 /\ 0 \in 0 .. AddressSpace - 1 /\ 0 \in 0 .. RBLEN_SIZE - 1
    BY <1>1, <1>2
  <2>2. CardTypes
    BY <1>2, <1>3, <2>1 DEF CardTypes
  <2>3. DriverTypes
    BY <1>2, <2>1 DEF DriverTypes
  <2> QED
    BY <2>2, <2>3
<1>5. ModeInv /\ PendingInv
  BY <1>2 DEF ModeInv, PendingInv
<1>6. 0 - CAPR_DATA_OFF + AddressSpace \in 0 .. AddressSpace - 1 /\ 0 \in 0 .. RBLEN_SIZE - 1
  BY <1>1
<1>7. (0 - CAPR_DATA_OFF + AddressSpace) % AddressSpace = 0 - CAPR_DATA_OFF + AddressSpace /\ 0 % RBLEN_SIZE = 0
  BY <1>1, <1>6, ModSmall
<1>8. CAPR = (0 - CAPR_DATA_OFF + AddressSpace) % AddressSpace /\ CAPR + CAPR_DATA_OFF = AddressSpace
  BY <1>1, <1>2, <1>7
<1>9. PlaceInv
  BY <1>2, <1>7, <1>8 DEF PlaceInv
<1>10. ReadAddress = 0
  BY <1>1, <1>8 DEF ReadAddress
<1>11. ChainInv
  BY <1>2, <1>10 DEF ChainInv, Chain
<1> QED
  BY <1>4, <1>5, <1>9, <1>11 DEF CardInv, RingInv

LEMMA InitBuf == Init => BufInv /\ FifoInv /\ OrderInv /\ AwakeInv /\ LinkInv
<1> SUFFICES ASSUME Init
             PROVE  BufInv /\ FifoInv /\ OrderInv /\ AwakeInv /\ LinkInv
  OBVIOUS
<1>1. /\ pkts_head = 1 /\ pkts_tail = 1 /\ frameOf = [p \in Packet |-> 0] /\ in_cb = cbuffer_init /\ out_cb = cbuffer_init
      /\ netb = FALSE /\ net = "wait" /\ held = NoPacket /\ lastIn = 0 /\ sends = 0
      /\ app = [a \in App |-> "idle"] /\ appPkt = [a \in App |-> NoPacket]
      /\ unread = <<>> /\ arrived = 0
  BY DEF Init, netbuf_init
<1>2. /\ packets \in Nat /\ packets > 2 /\ NoPacket \notin Packet /\ Slot = Packet \cup {NoPacket}
  BY PacketIs
<1>3. cbuffer_init \in Cb /\ cbuffer_is_empty(cbuffer_init)
  BY <1>2 DEF cbuffer_init, Cb, cbuffer_is_empty
<1>4. Queue(cbuffer_init) = <<>> /\ Used(cbuffer_init) = 0
  BY <1>2, <1>3, QueueIs DEF Used, cbuffer_init
<1>5. Range(<<>>) = {}
  <2>1. <<>> \in Seq(Slot) /\ Len(<<>>) = 0
    BY EmptySeq
  <2>2. Range(<<>>) = {<<>>[i] : i \in 1 .. 0}
    BY <2>1, RangeIs
  <2> QED
    BY <2>2
<1>6. InSet = {} /\ OutSet = {} /\ Sending = {}
  BY <1>1, <1>4, <1>5 DEF InSet, OutSet, Sending
<1>0. free = Packet /\ 1 \in Packet
  BY <1>1, <1>2 DEF free, InUse, Packet
<1>7. BufferTypes /\ ThreadTypes
  BY <1>1, <1>2, <1>3, <1>0 DEF BufferTypes, ThreadTypes
<1>8. QueueInv
  BY <1>1, <1>2, <1>4, <1>6 DEF QueueInv, Injective
<1>9. SenderInv
  BY <1>1 DEF SenderInv
<1>10. ApartInv
  BY <1>1, <1>2, <1>0, <1>6 DEF ApartInv
<1>11. FifoInv
  BY <1>1, <1>3, <1>4 DEF FifoInv, Run, Oldest
<1>12. OrderInv
  BY <1>1, <1>4 DEF OrderInv, Ordered
<1>13. AwakeInv
  BY <1>1, <1>3 DEF AwakeInv
<1>14. LinkInv
  BY DEF LinkInv, Init
<1> QED
  BY <1>7, <1>8, <1>9, <1>10, <1>11, <1>12, <1>13, <1>14 DEF BufInv, PacketInv

(* What Owners counts.                                                     *)
LEMMA AtMostOne ==
    ASSUME NEW S, \A x, y \in S : x = y
    PROVE  Cardinality(S) = IF S = {} THEN 0 ELSE 1
<1>1. CASE S = {}
  BY <1>1, FS_EmptySet
<1>2. CASE S # {}
  <2>1. PICK x \in S : TRUE
    BY <1>2
  <2>2. S = {x}
    BY <2>1
  <2> QED
    BY <1>2, <2>2, FS_Singleton
<1> QED
  BY <1>1, <1>2

LEMMA CountIs ==
    ASSUME NEW q \in Seq(Slot), Injective(q), NEW p
    PROVE  Cardinality({i \in DOMAIN q : q[i] = p}) = IF p \in Range(q) THEN 1 ELSE 0
<1> DEFINE S == {i \in DOMAIN q : q[i] = p}
<1>1. DOMAIN q = 1 .. Len(q)
  BY LenProperties
<1>2. \A x, y \in S : x = y
  BY <1>1 DEF Injective
<1>3. S = {} <=> p \notin Range(q)
  BY DEF Range
<1> HIDE DEF S
<1>4. Cardinality(S) = IF S = {} THEN 0 ELSE 1
  BY <1>2, AtMostOne
<1> QED
  BY <1>3, <1>4 DEF S

LEMMA OwnersAre ==
    ASSUME SingleSender, BufInv, NEW p \in Packet
    PROVE  Owners(p) \in {0, 1} /\ (Owners(p) = 0 <=> p \in Lost)
<1>1. BufferTypes /\ ThreadTypes /\ QueueInv /\ ApartInv
  BY DEF BufInv, PacketInv
<1>2. Queue(in_cb) \in Seq(Slot) /\ Queue(out_cb) \in Seq(Slot) /\ p # NoPacket
  BY <1>1, QueueFacts, PacketIs
<1> DEFINE n1 == Cardinality({i \in DOMAIN Queue(in_cb) : Queue(in_cb)[i] = p})
           n2 == Cardinality({i \in DOMAIN Queue(out_cb) : Queue(out_cb)[i] = p})
           n3 == Cardinality({a \in App : appPkt[a] = p})
<1>3. n1 = IF p \in InSet THEN 1 ELSE 0
  BY <1>1, <1>2, CountIs DEF QueueInv, InSet
<1>4. n2 = IF p \in OutSet THEN 1 ELSE 0
  BY <1>1, <1>2, CountIs DEF QueueInv, OutSet
<1>5. n3 = IF p \in Sending THEN 1 ELSE 0
  <2> DEFINE S == {a \in App : appPkt[a] = p}
  <2>1. \A x, y \in S : x = y
    BY DEF SingleSender
  <2>2. S = {} <=> p \notin Sending
    BY <1>2 DEF Sending
  <2> HIDE DEF S
  <2>3. Cardinality(S) = IF S = {} THEN 0 ELSE 1
    BY <2>1, AtMostOne
  <2> QED
    BY <2>2, <2>3 DEF S
<1>6. Owners(p) = n1 + n2 + n3 + (IF held = p THEN 1 ELSE 0) + (IF p \in free THEN 1 ELSE 0)
  BY DEF Owners
<1> HIDE DEF n1, n2, n3
<1>7. p \in Lost <=> p \notin InSet /\ p \notin OutSet /\ p \notin Sending /\ held # p /\ p \notin free
  BY DEF Lost
<1>8. /\ p \in InSet => p \notin OutSet /\ p \notin Sending /\ held # p /\ p \notin free
      /\ p \in OutSet => p \notin Sending /\ held # p /\ p \notin free
      /\ p \in Sending => held # p /\ p \notin free
      /\ held = p => p \notin free
  BY <1>1 DEF ApartInv
<1> QED
  BY <1>3, <1>4, <1>5, <1>6, <1>7, <1>8

LEMMA NetInvSays ==
    ASSUME SingleSender, NetInv
    PROVE  NetworkSound
<1>1. CardTypes /\ DriverTypes /\ BufferTypes /\ ThreadTypes /\ PendingInv /\ QueueInv
  BY DEF NetInv, CardInv, RingInv, BufInv, PacketInv
<1>2. NetTypeOK
  <2>1. {in_cb.head, in_cb.tail, out_cb.head, out_cb.tail} \subseteq 0 .. packets - 1
    BY <1>1 DEF BufferTypes, Cb
  <2> QED
    BY <1>1, <2>1 DEF CardTypes, DriverTypes, BufferTypes, ThreadTypes, Slot, NetTypeOK
<1>3. RingInStep
  BY HeaderIs DEF RingInStep, NetInv
<1>4. FramesPending
  BY <1>1 DEF PendingInv, FramesPending
<1>5. InOrder
  <2> DEFINE q == Queue(in_cb)
  <2>1. q \in Seq(Slot) /\ Len(q) \in Nat /\ (q # <<>> => 1 \in 1 .. Len(q))
    BY <1>1, QueueFacts, LenProperties, EmptySeq
  <2>2. /\ \A i, j \in 1 .. Len(q) : i < j => frameOf[q[i]] < frameOf[q[j]]
        /\ \A i \in 1 .. Len(q) : lastIn < frameOf[q[i]]
    BY DEF NetInv, OrderInv, Ordered
  <2> HIDE DEF q
  <2>3. \A i \in 1 .. Len(q) - 1 : i \in 1 .. Len(q) /\ i + 1 \in 1 .. Len(q) /\ i < i + 1
    BY <2>1
  <2>4. \A i \in 1 .. Len(q) - 1 : frameOf[q[i]] < frameOf[q[i + 1]]
    BY <2>2, <2>3
  <2>5. q # <<>> => frameOf[q[1]] > lastIn
    BY <2>1, <2>2
  <2> QED
    BY <2>4, <2>5 DEF InOrder, q
<1>6. PacketsOwned /\ OldestGivenBack
  <2>1. \A p \in Packet : Owners(p) \in {0, 1} /\ (Owners(p) = 0 <=> p \in Lost)
    BY OwnersAre DEF NetInv
  <2>2. PacketsOwned
    BY <2>1 DEF PacketsOwned
  <2>3. (\A p \in Packet : Owners(p) = 1) => Lost = {}
    BY <2>1 DEF Lost
  <2>4. net = "putIn" => held # NoPacket
    BY DEF NetInv, BufInv, PacketInv, SenderInv
  <2>5. OldestGivenBack
    BY <2>3, <2>4 DEF OldestGivenBack, NetInv, FifoInv
  <2> QED
    BY <2>2, <2>5
<1>7. StackAwake
  BY DEF NetInv, AwakeInv, StackAwake
<1>8. LinkKnown
  BY DEF NetInv, LinkInv, LinkKnown
<1> QED
  BY <1>2, <1>3, <1>4, <1>5, <1>6, <1>7, <1>8 DEF NetworkSound

(* rtl8139.c, net_buffers.c and network_core.c, whatever the sizes of the  *)
(* ring, of the pool and of the frames and however many of them arrive:    *)
(* the driver reads the ring where the card wrote it, no frame is left     *)
(* behind an acknowledged interrupt, packets keep the order of arrival and *)
(* have one owner at most whatever the pool refuses to take back, those    *)
(* received are given back in its order until a packet is sent or lost,    *)
(* the network thread is awake while a queue has packets, and the link is  *)
(* known, with one thread that sends.                                      *)
THEOREM NetworkIsSound ==
    ASSUME SingleSender, ~LinkWhileStopped
    PROVE  Spec => []NetworkSound
<1>1. Init => NetInv
  BY InitCard, InitBuf DEF NetInv
<1>2. NetInv /\ [Next]_vars => NetInv'
  <2> SUFFICES ASSUME CardInv, BufInv, FifoInv, OrderInv, AwakeInv, LinkInv, [Next]_vars
               PROVE  NetInv'
    BY DEF NetInv
  <2>1. CardInv'
    BY CardStep
  <2>2. BufInv'
    BY BufStep
  <2>3. OrderInv'
    BY OrderStep
  <2>4. AwakeInv'
    BY AwakeStep
  <2>5. LinkInv'
    BY LinkStep
  <2>6. FifoInv'
    BY FifoStep
  <2> QED
    BY <2>1, <2>2, <2>3, <2>4, <2>5, <2>6 DEF NetInv
<1>3. NetInv => NetworkSound
  BY NetInvSays
<1> QED
  BY <1>1, <1>2, <1>3, PTL DEF Spec

(* The ring alone, however many threads send and whatever the link does:   *)
(* rtl_receive_packets finds the header of the oldest frame whenever the   *)
(* card says there is one, and a frame in the ring of a running card has   *)
(* its interrupt pending or the handler at work.                           *)
THEOREM RingIsSound == Spec => [](RingInStep /\ FramesPending)
<1>1. Init => CardInv
  BY InitCard
<1>2. CardInv /\ [Next]_vars => CardInv'
  BY CardStep
<1>3. CardInv => RingInStep /\ FramesPending
  <2> SUFFICES ASSUME CardInv
               PROVE  RingInStep /\ FramesPending
    OBVIOUS
  <2>1. RingInStep
    BY HeaderIs DEF RingInStep
  <2>2. FramesPending
    BY DEF CardInv, RingInv, PendingInv, FramesPending
  <2> QED
    BY <2>1, <2>2
<1> QED
  BY <1>1, <1>2, <1>3, PTL DEF Spec

(***************************************************************************)
(* The clock.  Its conversions first.                                      *)
(***************************************************************************)
LEMMA DivUnique ==
    ASSUME NEW M \in Nat \ {0}, NEW q \in Int, NEW r \in 0 .. M - 1
    PROVE  (q * M + r) \div M = q
OBVIOUS

LEMMA DivAdd ==
    ASSUME NEW M \in Nat \ {0}, NEW x \in Int, NEW k \in Int
    PROVE  (x + k * M) \div M = (x \div M) + k
<1> DEFINE q == x \div M
           r == x % M
<1>1. q \in Int /\ r \in 0 .. M - 1 /\ x = q * M + r
  BY ModQuotient, ModRange
<1>2. x + k * M = (q + k) * M + r
  BY <1>1
<1> HIDE DEF q, r
<1>3. q + k \in Int
  BY <1>1
<1>4. ((q + k) * M + r) \div M = q + k
  BY <1>1, <1>3, DivUnique, Zenon
<1> QED
  BY <1>2, <1>4 DEF q

LEMMA DivBounds ==
    ASSUME NEW M \in Nat \ {0}, NEW x \in Nat
    PROVE  x \div M \in Nat /\ (x >= M => x \div M >= 1)
<1> DEFINE q == x \div M
           r == x % M
<1>1. q \in Int /\ r \in 0 .. M - 1 /\ x = q * M + r
  BY ModQuotient, ModRange
<1> HIDE DEF q, r
<1>2. q >= 0
  <2>1. SUFFICES ASSUME q <= -1 PROVE FALSE
    BY <1>1
  <2>2. q * M <= -M
    BY <1>1, <2>1
  <2> QED
    BY <1>1, <2>2
<1>3. ASSUME x >= M
      PROVE  q >= 1
  <2>1. SUFFICES ASSUME q = 0 PROVE FALSE
    BY <1>1, <1>2
  <2> QED
    BY <1>1, <1>3, <2>1
<1> QED
  BY <1>1, <1>2, <1>3 DEF q

LEMMA RangeAdjusted ==
    ASSUME NEW v \in Int
    PROVE  /\ kernel_time_adjust_range(v) \in MinCounter .. MaxCounter
           /\ kernel_time_adjust_range(v) \in (MinCounter + 1) .. (MaxCounter - 1)
                => kernel_time_adjust_range(v) = v
BY ClocksAssumption DEF kernel_time_adjust_range

LEMMA TicksAre ==
    /\ ticks_int \in Nat /\ ticks_fract \in 0 .. MsPerSec - 1
    /\ Freq = ticks_int * MsPerSec + ticks_fract
<1>1. Freq \in Nat /\ MsPerSec \in Nat \ {0}
  BY ClocksAssumption
<1>2. ticks_int \in Nat
  BY <1>1, DivBounds DEF ticks_int
<1>3. ticks_fract \in 0 .. MsPerSec - 1
  BY <1>1, ModRange DEF ticks_fract
<1>4. Freq = ticks_int * MsPerSec + ticks_fract
  BY <1>1, ModQuotient DEF ticks_int, ticks_fract
<1> QED
  BY <1>2, <1>3, <1>4

(* The counter value of a period of at least a millisecond is one the      *)
(* device can count.                                                       *)
LEMMA ValueIs ==
    ASSUME NEW ms \in Nat \ {0}
    PROVE  /\ FractRounded(ms) \in Nat
           /\ kernel_time_get_value(ms) = kernel_time_adjust_range(ms * ticks_int + FractRounded(ms))
           /\ kernel_time_get_value(ms) \in MinCounter .. MaxCounter
<1>1. /\ MsPerSec \in Nat \ {0} /\ MsPerSec \div 2 \in Nat
      /\ ticks_int \in Nat /\ ticks_fract \in Nat
  BY TicksAre, ClocksAssumption, DivBounds
<1>2. ms * ticks_int \in Nat /\ ms * ticks_fract \in Nat
  BY <1>1
<1>3. ms * ticks_fract + MsPerSec \div 2 \in Nat
  BY <1>1, <1>2
<1>4. FractRounded(ms) \in Nat
  BY <1>1, <1>3, DivBounds DEF FractRounded
<1>5. ms * ticks_int + FractRounded(ms) \in Int
  BY <1>2, <1>4
<1>6. kernel_time_get_value(ms) = kernel_time_adjust_range(ms * ticks_int + FractRounded(ms))
  BY DEF kernel_time_get_value
<1> QED
  BY <1>4, <1>5, <1>6, RangeAdjusted

LEMMA AskedValue ==
    ASSUME NEW ms \in Nat \ {0}
    PROVE  kernel_time_get_value(kernel_time_adjust_msecs(ms)) \in MinCounter .. MaxCounter
<1> DEFINE lo == (MsPerSec * MinCounter) \div Freq
           hi == (MsPerSec * MaxCounter) \div Freq
<1>1. /\ Freq \in Nat \ {0} /\ MsPerSec * MinCounter \in Nat /\ MsPerSec * MaxCounter \in Nat
      /\ MsPerSec * MaxCounter >= Freq
  BY ClocksAssumption
<1>2. lo \in Nat /\ hi \in Nat \ {0}
  <2>1. lo \in Nat
    BY <1>1, DivBounds
  <2>2. hi \in Nat /\ hi >= 1
    BY <1>1, DivBounds
  <2> QED
    BY <2>1, <2>2
<1>3. kernel_time_adjust_msecs(ms) = CASE ms < lo -> lo [] ms > hi -> hi [] OTHER -> ms
  BY DEF kernel_time_adjust_msecs, kernel_time_get_minmax_msecs
<1> HIDE DEF lo, hi
<1>4. kernel_time_adjust_msecs(ms) \in Nat \ {0}
  BY <1>2, <1>3
<1> QED
  BY <1>4, ValueIs

LEMMA TimeIsExact ==
    ASSUME now \in Nat
    PROVE  TimeExact
<1>1. kernel_time_get_elapsed_msecs(now) = (MsPerSec * now) \div Freq
  <2> DEFINE q == now \div Freq
             r == now % Freq
  <2>1. Freq \in Nat \ {0} /\ MsPerSec \in Nat
    BY ClocksAssumption
  <2>2. q \in Int /\ r \in Int /\ now = q * Freq + r
    BY <2>1, ModQuotient, ModRange
  <2>3. kernel_time_get_elapsed_msecs(now) = q * MsPerSec + (MsPerSec * r) \div Freq
    BY DEF kernel_time_get_elapsed_msecs
  <2> HIDE DEF q, r
  <2>4. MsPerSec * now = MsPerSec * r + (q * MsPerSec) * Freq
    BY <2>1, <2>2
  <2>5. MsPerSec * r \in Int /\ q * MsPerSec \in Int
    BY <2>1, <2>2
  <2>6. (MsPerSec * now) \div Freq = (MsPerSec * r) \div Freq + q * MsPerSec
    BY <2>1, <2>4, <2>5, DivAdd
  <2>7. (MsPerSec * r) \div Freq \in Int
    BY <2>1, <2>5, ModQuotient
  <2> QED
    BY <2>3, <2>5, <2>6, <2>7
<1>2. ASSUME NEW v \in (MinCounter + 1) .. (MaxCounter - 1), v = kernel_time_get_value(now), now > 0
      PROVE  /\ 2 * (v * MsPerSec - now * Freq) <= MsPerSec
             /\ 2 * (now * Freq - v * MsPerSec) <= MsPerSec
  <2> DEFINE h == MsPerSec \div 2
             z == now * ticks_fract + h
             f == FractRounded(now)
             m == z % MsPerSec
             a == now * ticks_int
             b == now * ticks_fract
  <2>1. /\ MsPerSec \in Nat \ {0} /\ ticks_int \in Nat /\ ticks_fract \in Nat
        /\ Freq = ticks_int * MsPerSec + ticks_fract /\ h \in Nat
    BY TicksAre, ClocksAssumption, DivBounds
  <2>2. 2 * h <= MsPerSec /\ MsPerSec <= 2 * h + 1
    BY <2>1
  <2>3. a \in Nat /\ b \in Nat /\ z \in Nat /\ z = b + h
    BY <2>1
  <2>4. f = z \div MsPerSec
    BY DEF FractRounded
  <2>5. f \in Int /\ z = f * MsPerSec + m /\ m \in 0 .. MsPerSec - 1
    BY <2>1, <2>3, <2>4, ModQuotient, ModRange
  <2>6. v = a + f
    <3>1. a + f \in Int
      BY <2>3, <2>5
    <3>2. v = kernel_time_adjust_range(a + f)
      BY <1>2, ValueIs
    <3> QED
      BY <1>2, <3>1, <3>2, RangeAdjusted
  <2>7. now * Freq = a * MsPerSec + b
    BY <2>1
  <2> HIDE DEF h, z, f, m, a, b
  <2>8. v * MsPerSec = a * MsPerSec + f * MsPerSec
    BY <2>1, <2>3, <2>5, <2>6
  <2>9. v * MsPerSec - now * Freq = h - m
    <3>1. a * MsPerSec \in Int /\ f * MsPerSec \in Int
      BY <2>1, <2>3, <2>5
    <3> QED
      BY <2>1, <2>3, <2>5, <2>7, <2>8, <3>1
  <2>10. now * Freq - v * MsPerSec = m - h
    <3>1. v * MsPerSec \in Int /\ now * Freq \in Int
      BY <2>1, <1>2, ClocksAssumption
    <3> QED
      BY <2>1, <2>5, <2>9, <3>1
  <2> QED
    BY <2>1, <2>2, <2>5, <2>9, <2>10
<1> QED
  BY <1>1, <1>2 DEF TimeExact

(***************************************************************************)
(* What is true of the clock between any two steps.                        *)
(***************************************************************************)
Asked(inst) == \E c \in Clients : inst[c] # Infinite
Counter == MinCounter .. MaxCounter

ClockTypes ==
    /\ dev \in [ctr : Counter, left : Nat, mode : {0, 1}, irq : BOOLEAN]
    /\ clk \in [period : Counter, mode : {0, 1}, inst : [Clients -> Counter \cup {Infinite}], elapsed : Nat]
    /\ call \in [step : {"idle", "program", "remember"}, temp : Nat, waited : 0 .. Slack]
    /\ now \in Nat

(* What the device has counted of its period is not yet in the elapsed     *)
(* counter; an interrupt pending stands for a whole period, which passed.  *)
ElapsedInv ==
    /\ clk.mode = dev.mode
    /\ dev.irq => /\ clk.elapsed + clk.period <= now
                  /\ dev.left = IF dev.mode = 1 THEN 0 ELSE dev.ctr
    /\ ~dev.irq => dev.left \in 1 .. dev.ctr /\ clk.elapsed + (dev.ctr - dev.left) <= now

(* The period the clock adds is the one the device counts, but between the *)
(* programming of the device and the assignment to period; the device does *)
(* not reach the end of its count in between.                              *)
PeriodInv ==
    /\ call.step # "remember" => clk.period = dev.ctr
    /\ call.step = "remember" => ~dev.irq /\ dev.ctr = call.temp /\ dev.left = dev.ctr - call.waited
    /\ call.step = "idle" /\ Asked(clk.inst) => clk.period = get_lowest(clk.inst)
    /\ call.step # "idle" => call.temp = get_lowest(clk.inst) /\ call.temp \in Counter

ClockInv == ClockTypes /\ ElapsedInv /\ PeriodInv

(* The minimum get_lowest looks for exists, and is the period of a client. *)
LEMMA LowestIs ==
    ASSUME NEW inst \in [Clients -> Counter \cup {Infinite}], Asked(inst)
    PROVE  /\ get_lowest(inst) \in Counter
           /\ \A c \in Clients : get_lowest(inst) <= inst[c]
<1> DEFINE S == {inst[c] : c \in Clients}
<1>1. /\ Counter \subseteq Nat /\ Infinite \in Nat /\ \A v \in Counter : v < Infinite
  BY ClocksAssumption DEF Counter
<1>2. S \subseteq Counter \cup {Infinite} /\ S \subseteq Nat /\ S # {}
  BY <1>1 DEF Asked
<1>3. PICK v \in S : \A c \in Clients : v <= inst[c]
  <2>1. IsWellFoundedOn(OpToRel(<, Nat), Nat)
    BY NatLessThanWellFounded
  <2>2. PICK v \in S : \A w \in S : ~(<<w, v>> \in OpToRel(<, Nat))
    BY <1>2, <2>1, WFMin
  <2>3. \A w \in S : ~(w < v)
    BY <1>2, <2>2 DEF OpToRel
  <2>4. \A w \in S : v <= w
    BY <1>2, <2>3
  <2> QED
    BY <2>4
<1>4. get_lowest(inst) \in S /\ \A c \in Clients : get_lowest(inst) <= inst[c]
  BY <1>3 DEF get_lowest
<1>5. PICK c \in Clients : inst[c] \in Counter
  BY DEF Asked
<1>6. get_lowest(inst) # Infinite
  <2>1. get_lowest(inst) <= inst[c] /\ inst[c] < Infinite /\ get_lowest(inst) \in Nat /\ inst[c] \in Nat
    BY <1>1, <1>2, <1>4, <1>5
  <2> QED
    BY <1>1, <2>1
<1> QED
  BY <1>2, <1>4, <1>6

LEMMA CounterIs == Counter \subseteq Nat \ {0} /\ \A v \in Counter : v \in Nat /\ v >= 1 /\ Accepts(v)
BY ClocksAssumption DEF Counter, Accepts

LEMMA Programmed ==
    ASSUME NEW d \in [ctr : Counter, left : Nat, mode : {0, 1}, irq : BOOLEAN], NEW v \in Counter
    PROVE  Programs(d, v) = [d EXCEPT !.ctr = v, !.left = v]
<1>1. v # 0 /\ v \in Nat /\ MinCounter \in Nat /\ MaxCounter \in Nat /\ ~(v < MinCounter) /\ ~(v > MaxCounter)
  BY ClocksAssumption DEF Counter
<1> QED
  BY <1>1 DEF Programs

LEMMA AskStores ==
    ASSUME ClockTypes, 0 \notin PeriodsMs, NEW ms \in PeriodsMs, NEW c \in Clients
    PROVE  /\ Asks(clk, ms, c).inst \in [Clients -> Counter \cup {Infinite}]
           /\ Asked(Asks(clk, ms, c).inst)
           /\ Asks(clk, ms, c).period = clk.period /\ Asks(clk, ms, c).mode = clk.mode
           /\ Asks(clk, ms, c).elapsed = clk.elapsed
           /\ Asks(clk, ms, c) \in [period : Counter, mode : {0, 1}, inst : [Clients -> Counter \cup {Infinite}],
                                    elapsed : Nat]
<1> DEFINE v == kernel_time_get_value(kernel_time_adjust_msecs(ms))
<1>1. v \in Counter
  BY AskedValue, ClocksAssumption DEF Counter
<1>2. Asks(clk, ms, c) = [clk EXCEPT !.inst = [@ EXCEPT ![c] = v]]
  BY DEF Asks
<1> HIDE DEF v
<1>3. v # Infinite
  BY <1>1, ClocksAssumption DEF Counter
<1>4. clk \in [period : Counter, mode : {0, 1}, inst : [Clients -> Counter \cup {Infinite}], elapsed : Nat]
  BY DEF ClockTypes
<1>5. [clk.inst EXCEPT ![c] = v] \in [Clients -> Counter \cup {Infinite}] /\ Asked([clk.inst EXCEPT ![c] = v])
  BY <1>1, <1>3, <1>4 DEF Asked
<1> QED
  BY <1>2, <1>4, <1>5

LEMMA ClockStarts == ClockInit => ClockInv
<1> SUFFICES ASSUME ClockInit
             PROVE  ClockInv
  OBVIOUS
<1> DEFINE p == kernel_time_get_value(DefaultMs)
<1>1. p \in Counter
  BY ValueIs, ClocksAssumption DEF Counter
<1>2. /\ dev = [ctr |-> p, left |-> p, mode |-> 0, irq |-> FALSE]
      /\ clk = [period |-> p, mode |-> 0, inst |-> [c \in Clients |-> Infinite], elapsed |-> 0]
      /\ call = [step |-> "idle", temp |-> 0, waited |-> 0] /\ now = 0
  BY DEF ClockInit, clock_init
<1> HIDE DEF p
<1>3. p \in Nat \ {0} /\ Slack \in Nat
  BY <1>1, CounterIs, ClocksAssumption
<1>4. ClockTypes
  BY <1>1, <1>2, <1>3 DEF ClockTypes
<1>5. ElapsedInv
  BY <1>2, <1>3 DEF ElapsedInv
<1>6. PeriodInv
  BY <1>2 DEF PeriodInv, Asked
<1> QED
  BY <1>4, <1>5, <1>6 DEF ClockInv

LEMMA CountKeeps ==
    ASSUME ClockInv, Slack < MinCounter, Count
    PROVE  ClockInv'
<1>1. /\ ClockTypes /\ ElapsedInv /\ PeriodInv /\ Slack \in Nat /\ MinCounter \in Nat
      /\ Counter \subseteq Nat \ {0} /\ \A v \in Counter : v >= MinCounter
  BY CounterIs, ClocksAssumption DEF ClockInv, Counter
<1>2. /\ ~dev.irq /\ (call.step # "idle" => call.waited < Slack)
      /\ now' = now + 1 /\ clk' = clk
      /\ call' = IF call.step # "idle" THEN [call EXCEPT !.waited = @ + 1] ELSE call
  BY DEF Count
<1>3. dev.left \in 1 .. dev.ctr /\ dev.ctr \in Counter /\ dev.ctr \in Nat /\ dev.left \in Nat
      /\ clk.elapsed + (dev.ctr - dev.left) <= now
  BY <1>1, <1>2 DEF ClockTypes, ElapsedInv
<1>4. /\ dev.left > 1 => dev' = [dev EXCEPT !.left = @ - 1]
      /\ dev.left = 1 => dev' = [dev EXCEPT !.irq = TRUE, !.left = IF dev.mode = 1 THEN 0 ELSE dev.ctr]
  BY <1>3 DEF Count
<1>5. call' \in [step : {"idle", "program", "remember"}, temp : Nat, waited : 0 .. Slack]
      /\ call'.step = call.step /\ call'.temp = call.temp
      /\ (call.step # "idle" => call'.waited = call.waited + 1)
  BY <1>1, <1>2 DEF ClockTypes
<1>6. now' \in Nat /\ clk.elapsed \in Nat /\ now \in Nat /\ clk.period \in Counter /\ clk.period \in Nat
  BY <1>1, <1>2 DEF ClockTypes
<1>7. CASE dev.left > 1
  <2>1. /\ dev'.ctr = dev.ctr /\ dev'.mode = dev.mode /\ dev'.irq = FALSE /\ dev'.left = dev.left - 1
        /\ dev' \in [ctr : Counter, left : Nat, mode : {0, 1}, irq : BOOLEAN]
    BY <1>1, <1>2, <1>3, <1>4, <1>7 DEF ClockTypes
  <2>2. ClockTypes'
    BY <1>1, <1>2, <1>5, <1>6, <2>1 DEF ClockTypes
  <2>3. ElapsedInv'
    BY <1>1, <1>2, <1>3, <1>6, <1>7, <2>1 DEF ElapsedInv
  <2>4. PeriodInv'
    <3>1. call.step = "remember" => dev'.left = dev'.ctr - call'.waited
      <4>1. call.waited \in Nat
        BY <1>1 DEF ClockTypes
      <4> QED
        BY <1>1, <1>3, <1>5, <2>1, <4>1 DEF PeriodInv
    <3> QED
      BY <1>1, <1>2, <1>5, <2>1, <3>1 DEF PeriodInv
  <2> QED
    BY <2>2, <2>3, <2>4 DEF ClockInv
<1>8. CASE dev.left = 1
  <2>1. call.step # "remember"
    <3>1. SUFFICES ASSUME call.step = "remember" PROVE FALSE
      OBVIOUS
    <3>2. dev.left = dev.ctr - call.waited /\ call.waited < Slack /\ call.waited \in Nat
      BY <1>1, <1>2, <3>1 DEF PeriodInv, ClockTypes
    <3>3. dev.ctr >= MinCounter
      BY <1>1, <1>3
    <3> QED
      BY <1>1, <1>3, <1>8, <3>2, <3>3
  <2>2. clk.period = dev.ctr
    BY <1>1, <2>1 DEF PeriodInv
  <2>3. /\ dev'.ctr = dev.ctr /\ dev'.mode = dev.mode /\ dev'.irq = TRUE
        /\ dev'.left = (IF dev.mode = 1 THEN 0 ELSE dev.ctr)
        /\ dev' \in [ctr : Counter, left : Nat, mode : {0, 1}, irq : BOOLEAN]
    <3>1. dev \in [ctr : Counter, left : Nat, mode : {0, 1}, irq : BOOLEAN]
      BY <1>1 DEF ClockTypes
    <3>2. PICK l \in Nat : /\ l = (IF dev.mode = 1 THEN 0 ELSE dev.ctr)
                           /\ dev' = [dev EXCEPT !.irq = TRUE, !.left = l]
      BY <1>3, <1>4, <1>8
    <3> QED
      BY <3>1, <3>2
  <2>4. ClockTypes'
    BY <1>1, <1>2, <1>5, <1>6, <2>3 DEF ClockTypes
  <2>5. ElapsedInv'
    <3>1. clk.elapsed + clk.period <= now'
      BY <1>2, <1>3, <1>6, <1>8, <2>2
    <3> QED
      BY <1>1, <1>2, <2>3, <3>1 DEF ElapsedInv
  <2>6. PeriodInv'
    BY <1>1, <1>2, <1>5, <2>1, <2>3 DEF PeriodInv
  <2> QED
    BY <2>4, <2>5, <2>6 DEF ClockInv
<1> QED
  BY <1>3, <1>7, <1>8

LEMMA HandlerKeepsClock ==
    ASSUME ClockInv, InCallbacks = FALSE, clock_int_handler
    PROVE  ClockInv'
<1>1. ClockTypes /\ ElapsedInv /\ PeriodInv /\ Counter \subseteq Nat \ {0}
  BY CounterIs DEF ClockInv
<1> DEFINE k1 == [clk EXCEPT !.elapsed = @ + clk.period]
           d1 == [dev EXCEPT !.irq = FALSE]
<1>2. /\ dev.irq /\ clk' = k1 /\ dev' = (IF k1.mode = 1 THEN Programs(d1, k1.period) ELSE d1)
      /\ call' = call /\ now' = now
  <2>1. PICK a \in {[d |-> d1, k |-> k1]} :
          clk' = a.k /\ dev' = IF a.k.mode = 1 THEN Programs(a.d, a.k.period) ELSE a.d
    <3>1. \E a \in AfterCallbacks(d1, k1) :
            clk' = a.k /\ dev' = IF a.k.mode = 1 THEN Programs(a.d, a.k.period) ELSE a.d
      BY DEF clock_int_handler
    <3>2. AfterCallbacks(d1, k1) = {[d |-> d1, k |-> k1]}
      BY DEF AfterCallbacks
    <3> HIDE DEF d1, k1
    <3> QED
      BY <3>1, <3>2
  <2>2. a.k = k1 /\ a.d = d1
    <3> HIDE DEF k1, d1
    <3> QED
      BY <2>1
  <2>3. dev.irq /\ call' = call /\ now' = now
    BY DEF clock_int_handler
  <2> HIDE DEF k1, d1
  <2> QED
    BY <2>1, <2>2, <2>3
<1>3. /\ k1.period = clk.period /\ k1.mode = clk.mode /\ k1.inst = clk.inst
      /\ k1.elapsed = clk.elapsed + clk.period
      /\ k1 \in [period : Counter, mode : {0, 1}, inst : [Clients -> Counter \cup {Infinite}], elapsed : Nat]
      /\ clk.period \in Counter /\ clk.mode = dev.mode
  BY <1>1 DEF ClockTypes, ElapsedInv
<1>4. /\ d1.ctr = dev.ctr /\ d1.left = dev.left /\ d1.mode = dev.mode /\ d1.irq = FALSE
      /\ d1 \in [ctr : Counter, left : Nat, mode : {0, 1}, irq : BOOLEAN]
  BY <1>1 DEF ClockTypes
<1>5. call.step # "remember" /\ clk.period = dev.ctr
  BY <1>1, <1>2 DEF PeriodInv
<1> HIDE DEF k1, d1
<1>6. /\ dev'.ctr = clk.period /\ dev'.left = clk.period /\ dev'.mode = dev.mode /\ dev'.irq = FALSE
      /\ dev' \in [ctr : Counter, left : Nat, mode : {0, 1}, irq : BOOLEAN]
  <2>1. CASE dev.mode = 1
    <3>1. dev' = Programs(d1, clk.period)
      BY <1>2, <1>3, <2>1
    <3>2. Programs(d1, clk.period) = [d1 EXCEPT !.ctr = clk.period, !.left = clk.period]
      BY <1>3, <1>4, Programmed
    <3>3. clk.period \in Counter /\ clk.period \in Nat
      BY <1>1, <1>3
    <3> QED
      BY <1>4, <3>1, <3>2, <3>3
  <2>2. CASE dev.mode # 1
    <3>1. dev' = d1 /\ dev.left = dev.ctr
      BY <1>1, <1>2, <1>3, <2>2 DEF ElapsedInv
    <3> QED
      BY <1>1, <1>3, <1>4, <1>5, <3>1
  <2> QED
    BY <2>1, <2>2
<1>7. ClockTypes'
  BY <1>1, <1>2, <1>3, <1>6 DEF ClockTypes
<1>8. ElapsedInv'
  <2>1. clk.period \in Nat /\ clk.period >= 1
    BY <1>3, CounterIs
  <2>2. clk.elapsed \in Nat /\ now \in Nat
    BY <1>1 DEF ClockTypes
  <2>3. clk.elapsed + clk.period <= now
    BY <1>1, <1>2 DEF ElapsedInv
  <2> QED
    BY <1>2, <1>3, <1>6, <2>1, <2>2, <2>3 DEF ElapsedInv
<1>9. PeriodInv'
  BY <1>1, <1>2, <1>3, <1>5, <1>6 DEF PeriodInv
<1> QED
  BY <1>7, <1>8, <1>9 DEF ClockInv

LEMMA ChooseKeeps ==
    ASSUME ClockInv, 0 \notin PeriodsMs, ChoosePeriod
    PROVE  ClockInv'
<1>1. ClockTypes /\ ElapsedInv /\ PeriodInv /\ Counter \subseteq Nat \ {0} /\ Slack \in Nat
  BY CounterIs, ClocksAssumption DEF ClockInv
<1>2. PICK ms \in PeriodsMs, c \in Clients :
        /\ clk' = Asks(clk, ms, c)
        /\ call' = IF get_lowest(Asks(clk, ms, c).inst) = Asks(clk, ms, c).period THEN call
                   ELSE [step |-> "program", temp |-> get_lowest(Asks(clk, ms, c).inst), waited |-> 0]
  BY DEF ChoosePeriod
<1>3. call.step = "idle" /\ ~dev.irq /\ dev' = dev /\ now' = now
  BY DEF ChoosePeriod
<1>4. /\ clk' \in [period : Counter, mode : {0, 1}, inst : [Clients -> Counter \cup {Infinite}], elapsed : Nat]
      /\ clk'.period = clk.period /\ clk'.mode = clk.mode /\ clk'.elapsed = clk.elapsed
      /\ clk'.inst \in [Clients -> Counter \cup {Infinite}] /\ Asked(clk'.inst)
  BY <1>1, <1>2, AskStores
<1> DEFINE t == get_lowest(clk'.inst)
<1>5. t \in Counter
  BY <1>4, LowestIs
<1>6. /\ t = clk.period => call' = call
      /\ t # clk.period => call' = [step |-> "program", temp |-> t, waited |-> 0]
  BY <1>2, <1>4
<1> HIDE DEF t
<1>7. ClockTypes'
  BY <1>1, <1>3, <1>4, <1>5, <1>6 DEF ClockTypes
<1>8. ElapsedInv'
  BY <1>1, <1>3, <1>4 DEF ElapsedInv
<1>9. PeriodInv'
  <2>1. clk.period = dev.ctr
    BY <1>1, <1>3 DEF PeriodInv
  <2>2. CASE t = clk.period
    BY <1>3, <1>4, <1>6, <2>1, <2>2 DEF PeriodInv, t
  <2>3. CASE t # clk.period
    <3>1. call'.step = "program" /\ call'.temp = t
      BY <1>6, <2>3
    <3> QED
      BY <1>3, <1>4, <1>5, <2>1, <3>1 DEF PeriodInv, t
  <2> QED
    BY <2>2, <2>3
<1> QED
  BY <1>7, <1>8, <1>9 DEF ClockInv

LEMMA ProgramKeeps ==
    ASSUME ClockInv, ProgramPeriod
    PROVE  ClockInv'
<1>1. ClockTypes /\ ElapsedInv /\ PeriodInv /\ Counter \subseteq Nat \ {0} /\ Slack \in Nat
  BY CounterIs, ClocksAssumption DEF ClockInv
<1>2. /\ call.step = "program" /\ ~dev.irq /\ dev' = Programs(dev, call.temp) /\ clk' = clk /\ now' = now
      /\ call' = [call EXCEPT !.step = IF Accepts(call.temp) THEN "remember" ELSE "idle", !.waited = 0]
  BY DEF ProgramPeriod
<1>3. call.temp \in Counter /\ call.temp = get_lowest(clk.inst) /\ Accepts(call.temp)
  BY <1>1, <1>2, CounterIs DEF PeriodInv
<1>4. dev' = [dev EXCEPT !.ctr = call.temp, !.left = call.temp]
  BY <1>1, <1>2, <1>3, Programmed DEF ClockTypes
<1>5. /\ dev'.ctr = call.temp /\ dev'.left = call.temp /\ dev'.mode = dev.mode /\ dev'.irq = FALSE
      /\ dev' \in [ctr : Counter, left : Nat, mode : {0, 1}, irq : BOOLEAN]
  BY <1>1, <1>2, <1>3, <1>4 DEF ClockTypes
<1>6. /\ call'.step = "remember" /\ call'.temp = call.temp /\ call'.waited = 0
      /\ call' \in [step : {"idle", "program", "remember"}, temp : Nat, waited : 0 .. Slack]
  <2>1. call' = [call EXCEPT !.step = "remember", !.waited = 0] /\ 0 \in 0 .. Slack
    BY <1>1, <1>2, <1>3
  <2> QED
    BY <1>1, <2>1 DEF ClockTypes
<1>7. ClockTypes'
  BY <1>1, <1>2, <1>5, <1>6 DEF ClockTypes
<1>8. ElapsedInv'
  <2>1. call.temp \in Nat /\ call.temp >= 1 /\ clk.elapsed <= now /\ clk.elapsed \in Nat /\ now \in Nat
    BY <1>1, <1>2, <1>3 DEF ElapsedInv, ClockTypes
  <2>2. clk.mode = dev.mode
    BY <1>1 DEF ElapsedInv
  <2> QED
    BY <1>2, <1>5, <2>1, <2>2 DEF ElapsedInv
<1>9. PeriodInv'
  <2>1. call.temp \in Nat
    BY <1>1, <1>3
  <2> QED
    BY <1>2, <1>3, <1>5, <1>6, <2>1 DEF PeriodInv
<1> QED
  BY <1>7, <1>8, <1>9 DEF ClockInv

LEMMA RememberKeeps ==
    ASSUME ClockInv, RememberPeriod
    PROVE  ClockInv'
<1>1. ClockTypes /\ ElapsedInv /\ PeriodInv
  BY DEF ClockInv
<1>2. /\ call.step = "remember" /\ ~dev.irq /\ clk' = [clk EXCEPT !.period = call.temp]
      /\ call' = [call EXCEPT !.step = "idle"] /\ dev' = dev /\ now' = now
  BY DEF RememberPeriod
<1>3. call.temp \in Counter /\ call.temp = get_lowest(clk.inst) /\ dev.ctr = call.temp
  BY <1>1, <1>2 DEF PeriodInv
<1>4. /\ clk'.period = call.temp /\ clk'.mode = clk.mode /\ clk'.inst = clk.inst /\ clk'.elapsed = clk.elapsed
      /\ clk' \in [period : Counter, mode : {0, 1}, inst : [Clients -> Counter \cup {Infinite}], elapsed : Nat]
      /\ call'.step = "idle" /\ call' \in [step : {"idle", "program", "remember"}, temp : Nat, waited : 0 .. Slack]
  BY <1>1, <1>2, <1>3 DEF ClockTypes
<1>5. ClockTypes'
  BY <1>1, <1>2, <1>4 DEF ClockTypes
<1>6. ElapsedInv'
  BY <1>1, <1>2, <1>4 DEF ElapsedInv
<1>7. PeriodInv'
  BY <1>2, <1>3, <1>4 DEF PeriodInv
<1> QED
  BY <1>5, <1>6, <1>7 DEF ClockInv

LEMMA ModeKeeps ==
    ASSUME ClockInv, clock_set_mode
    PROVE  ClockInv'
<1>1. ClockTypes /\ ElapsedInv /\ PeriodInv /\ Counter \subseteq Nat \ {0}
  BY CounterIs DEF ClockInv
<1>2. PICK m \in {0, 1} : clk' = [clk EXCEPT !.mode = m] /\ dev' = Programs(SetMode(dev, m), clk.period)
  BY DEF clock_set_mode
<1>3. call.step = "idle" /\ ~dev.irq /\ call' = call /\ now' = now
  BY DEF clock_set_mode
<1>4. /\ SetMode(dev, m) \in [ctr : Counter, left : Nat, mode : {0, 1}, irq : BOOLEAN]
      /\ SetMode(dev, m).mode = m /\ SetMode(dev, m).irq = dev.irq /\ clk.period \in Counter
  BY <1>1 DEF ClockTypes, SetMode
<1>5. dev' = [SetMode(dev, m) EXCEPT !.ctr = clk.period, !.left = clk.period]
  BY <1>2, <1>4, Programmed
<1>6. /\ dev'.ctr = clk.period /\ dev'.left = clk.period /\ dev'.mode = m /\ dev'.irq = FALSE
      /\ dev' \in [ctr : Counter, left : Nat, mode : {0, 1}, irq : BOOLEAN]
  BY <1>1, <1>3, <1>4, <1>5
<1>7. /\ clk'.period = clk.period /\ clk'.mode = m /\ clk'.inst = clk.inst /\ clk'.elapsed = clk.elapsed
      /\ clk' \in [period : Counter, mode : {0, 1}, inst : [Clients -> Counter \cup {Infinite}], elapsed : Nat]
  BY <1>1, <1>2 DEF ClockTypes
<1>8. ClockTypes'
  BY <1>1, <1>3, <1>6, <1>7 DEF ClockTypes
<1>9. ElapsedInv'
  <2>1. clk.period \in Nat /\ clk.period >= 1
    BY <1>4, CounterIs
  <2>2. clk.elapsed \in Nat /\ now \in Nat /\ dev.ctr \in Nat
    BY <1>1 DEF ClockTypes
  <2>3. clk.elapsed <= now
    BY <1>1, <1>3, <2>2 DEF ElapsedInv
  <2> QED
    BY <1>3, <1>6, <1>7, <2>1, <2>2, <2>3 DEF ElapsedInv
<1>10. PeriodInv'
  BY <1>1, <1>3, <1>6, <1>7 DEF PeriodInv
<1> QED
  BY <1>8, <1>9, <1>10 DEF ClockInv

(* What the invariant says of the clock.                                   *)
LEMMA ClockInvSays == ClockInv => ClockSound
<1> SUFFICES ASSUME ClockInv
             PROVE  ClockSound
  OBVIOUS
<1>1. ClockTypes /\ ElapsedInv /\ PeriodInv /\ Counter \subseteq Nat \ {0}
  BY CounterIs DEF ClockInv
<1>2. /\ clk.elapsed \in Nat /\ clk.period \in Nat /\ now \in Nat /\ dev.ctr \in Nat /\ dev.left \in Nat
      /\ dev.irq \in BOOLEAN
  BY <1>1 DEF ClockTypes
<1>3. NeverAhead
  <2>1. CASE dev.irq
    BY <1>1, <1>2, <2>1 DEF ElapsedInv, NeverAhead
  <2>2. CASE ~dev.irq
    BY <1>1, <1>2, <2>2 DEF ElapsedInv, NeverAhead
  <2> QED
    BY <2>1, <2>2
<1>4. ShortestProgrammed
  BY <1>1 DEF PeriodInv, ShortestProgrammed, Asked
<1>5. TimeExact
  BY <1>2, TimeIsExact
<1> QED
  BY <1>3, <1>4, <1>5 DEF ClockSound

(* For every device, range and set of clients: the kernel's time is never  *)
(* ahead of the counts that passed, the device counts the shortest period  *)
(* asked for once clock_set_period is over, and the conversions are exact. *)
(* A call must not be cut by one of a callback, the time between the       *)
(* programming and the assignment must be shorter than the shortest period *)
(* of the device, and a client asks for a millisecond at least.            *)
THEOREM ClockIsSound ==
    ASSUME InCallbacks = FALSE, Slack < MinCounter, 0 \notin PeriodsMs
    PROVE  ClockSpec => []ClockSound
<1>1. ClockInit => ClockInv
  BY ClockStarts
<1>2. ClockInv /\ [ClockNext]_clockVars => ClockInv'
  <2> SUFFICES ASSUME ClockInv, [ClockNext]_clockVars
               PROVE  ClockInv'
    OBVIOUS
  <2>1. CASE Count
    BY <2>1, CountKeeps
  <2>2. CASE clock_int_handler
    BY <2>2, HandlerKeepsClock
  <2>3. CASE ChoosePeriod
    BY <2>3, ChooseKeeps
  <2>4. CASE ProgramPeriod
    BY <2>4, ProgramKeeps
  <2>5. CASE RememberPeriod
    BY <2>5, RememberKeeps
  <2>6. CASE clock_set_mode
    BY <2>6, ModeKeeps
  <2>7. CASE UNCHANGED clockVars
    BY <2>7 DEF clockVars, ClockInv, ClockTypes, ElapsedInv, PeriodInv, Asked
  <2> QED
    BY <2>1, <2>2, <2>3, <2>4, <2>5, <2>6, <2>7 DEF ClockNext
<1>3. ClockInv => ClockSound
  BY ClockInvSays
<1> QED
  BY <1>1, <1>2, <1>3, PTL DEF ClockSpec

(***************************************************************************)
(* Devices.                                                                *)
(***************************************************************************)
DeviceType == {"char", "block", "txt", "gfx", "unknown"}
DeviceRec == [name : Nat, unit : Units, drv : Drivers, type : DeviceType, write_fn : BOOLEAN, read_fn : BOOLEAN]

(* The list is sorted, a name stands for a driver and a unit, and what     *)
(* device_create answered with is in it.                                   *)
Sorted(l) == \A i, j \in 1 .. Len(l) : i < j => l[i].name < l[j].name
Named(l) ==
    \A i \in 1 .. Len(l) : l[i].name = DevName(l[i].drv, l[i].unit) /\ l[i].type = TypeOf(Kind[l[i].drv])
Listed(l) == {<<l[i].drv, l[i].unit>> : i \in 1 .. Len(l)}
ListInv ==
    /\ device_list \in Seq(DeviceRec) /\ Sorted(device_list) /\ Named(device_list)
    /\ made \subseteq Listed(device_list)

(* A user interface runs only after walk.ui says so, and it is the one.    *)
UserInterface == {p \in running : Kind[p[1]] \in {"txt", "gfx"}}
UiInv ==
    /\ walk \in [at : Nat, ui : BOOLEAN]
    /\ IF phase = "create" THEN ~walk.ui ELSE walk.at >= 1
    /\ ~walk.ui => UserInterface = {}
    /\ \A p, q \in UserInterface : p = q

(* A descriptor in use has a device of the list, under its name, and the   *)
(* list does not change once there can be one.                             *)
Descriptors == 0 .. FD_MAX - 1
FdInv ==
    /\ fdarray \in [Descriptors -> [inuse : BOOLEAN, flags : SUBSET {"R"}, name : Int, rawdev : Int \X Int]]
    /\ phase = "create" => walk.at = 0 /\ \A fd \in Descriptors : ~fdarray[fd].inuse
    /\ \A fd \in Descriptors : fdarray[fd].inuse =>
         \E i \in 1 .. Len(device_list) : /\ <<device_list[i].drv, device_list[i].unit>> = fdarray[fd].rawdev
                                          /\ device_list[i].name = fdarray[fd].name
    /\ io.reached # Null => io.fd \in Descriptors /\ fdarray[io.fd].inuse /\ io.reached.name = fdarray[io.fd].name

DevInv == ListInv /\ UiInv /\ FdInv

LEMMA FirstIs ==
    ASSUME NEW S \in SUBSET Nat, S # {}
    PROVE  First(S) \in S /\ \A j \in S : First(S) <= j
<1>1. IsWellFoundedOn(OpToRel(<, Nat), Nat)
  BY NatLessThanWellFounded
<1>2. PICK i \in S : \A j \in S : ~(<<j, i>> \in OpToRel(<, Nat))
  BY <1>1, WFMin
<1>3. \A j \in S : ~(j < i)
  BY <1>2 DEF OpToRel
<1>4. \A j \in S : i <= j
  BY <1>3
<1> QED
  BY <1>4 DEF First

LEMMA NumbersAre == \A r \in DeviceRec : r.name \in Int /\ r.drv \in Int /\ r.unit \in Int
<1>1. \A r \in DeviceRec : r.name \in Nat /\ r.drv \in Drivers /\ r.unit \in Units
  BY DEF DeviceRec
<1>2. (\A x \in Drivers : x \in Int) /\ (\A x \in Units : x \in Int)
  BY DevicesAssumption
<1> QED
  BY <1>1, <1>2

LEMMA NameIs ==
    ASSUME NEW drv \in Drivers, NEW unit \in Units
    PROVE  DevName(drv, unit) \in Nat
<1>1. drv \in Nat /\ unit \in Nat
  BY DevicesAssumption
<1>2. unit % 10 \in 0 .. 9
  BY <1>1
<1> QED
  BY <1>1, <1>2 DEF DevName

LEMMA NameUnique ==
    ASSUME Units \subseteq 0 .. 9
    PROVE  \A d1, d2 \in Drivers, u1, u2 \in Units : DevName(d1, u1) = DevName(d2, u2) => d1 = d2 /\ u1 = u2
<1> SUFFICES ASSUME NEW d1 \in Drivers, NEW d2 \in Drivers, NEW u1 \in Units, NEW u2 \in Units,
                    DevName(d1, u1) = DevName(d2, u2)
             PROVE  d1 = d2 /\ u1 = u2
  OBVIOUS
<1>1. d1 \in Nat /\ d2 \in Nat /\ u1 \in 0 .. 9 /\ u2 \in 0 .. 9
  BY DevicesAssumption
<1>2. u1 % 10 = u1 /\ u2 % 10 = u2
  BY <1>1
<1>3. d1 * 10 + u1 = d2 * 10 + u2
  BY <1>2 DEF DevName
<1> QED
  BY <1>1, <1>3

LEMMA TypeIs ==
    ASSUME NEW kind
    PROVE  /\ TypeOf(kind) \in DeviceType
           /\ TypeOf(kind) \in {"txt", "gfx"} <=> kind \in {"txt", "gfx"}
BY DEF TypeOf, DeviceType

(* A search of a sorted list that ends at the first name not before the    *)
(* one it looks for passes over no device.                                 *)
LEMMA LookupFinds ==
    ASSUME NEW l \in Seq(DeviceRec), Sorted(l), NEW name \in Nat
    PROVE  /\ \A i \in 1 .. Len(l) : l[i].name = name => lookup_name(l, name) = l[i] /\ lookup_name(l, name) # Null
           /\ lookup_name(l, name) # Null =>
                \E i \in 1 .. Len(l) : lookup_name(l, name) = l[i] /\ l[i].name = name
<1> DEFINE S == NotBefore(l, name)
<1>1. /\ Len(l) \in Nat /\ DOMAIN l = 1 .. Len(l)
      /\ \A i \in 1 .. Len(l) : l[i] \in DeviceRec /\ l[i].name \in Nat /\ l[i].name # -1 /\ l[i] # Null
  <2>1. Len(l) \in Nat /\ DOMAIN l = 1 .. Len(l) /\ \A i \in 1 .. Len(l) : l[i] \in DeviceRec
    BY LenProperties, ElementOfSeq
  <2>2. \A i \in 1 .. Len(l) : l[i].name \in Nat /\ l[i].name # -1
    BY <2>1 DEF DeviceRec
  <2> QED
    BY <2>1, <2>2 DEF Null
<1>2. S = {i \in 1 .. Len(l) : l[i].name >= name} /\ S \subseteq Nat /\ S \subseteq 1 .. Len(l)
  BY <1>1 DEF NotBefore
<1>3. lookup_name(l, name) = IF S # {} /\ l[First(S)].name = name THEN l[First(S)] ELSE Null
  BY DEF lookup_name
<1>4. S # {} => First(S) \in S /\ \A j \in S : First(S) <= j
  BY <1>2, FirstIs
<1> HIDE DEF S
<1>5. ASSUME NEW i \in 1 .. Len(l), l[i].name = name
      PROVE  lookup_name(l, name) = l[i] /\ lookup_name(l, name) # Null
  <2>1. i \in S
    BY <1>1, <1>2, <1>5
  <2>2. First(S) \in 1 .. Len(l) /\ First(S) <= i /\ l[First(S)].name >= name
    BY <1>2, <1>4, <2>1
  <2>3. First(S) = i
    <3>1. SUFFICES ASSUME First(S) < i PROVE FALSE
      BY <1>1, <2>2
    <3>2. l[First(S)].name < l[i].name
      BY <2>2, <3>1 DEF Sorted
    <3> QED
      BY <1>1, <1>5, <2>2, <3>2
  <2> QED
    BY <1>1, <1>3, <1>5, <2>1, <2>3
<1>6. ASSUME lookup_name(l, name) # Null
      PROVE  \E i \in 1 .. Len(l) : lookup_name(l, name) = l[i] /\ l[i].name = name
  BY <1>2, <1>3, <1>4, <1>6
<1> QED
  BY <1>5, <1>6

(* Where the elements of a list are after an insertion.                    *)
Inserted(s, l, d, p) ==
    /\ s \in Seq(DeviceRec) /\ Len(s) = Len(l) + 1
    /\ \A k \in 1 .. Len(l) + 1 : s[k] = IF k < p THEN l[k] ELSE IF k = p THEN d ELSE l[k - 1]

LEMMA InsertedAt ==
    ASSUME NEW l \in Seq(DeviceRec), NEW d \in DeviceRec, NEW p \in 1 .. Len(l) + 1
    PROVE  Inserted(SubSeq(l, 1, p - 1) \o <<d>> \o SubSeq(l, p, Len(l)), l, d, p)
<1> DEFINE a == SubSeq(l, 1, p - 1)
           b == SubSeq(l, p, Len(l))
           n == Len(l)
<1>1. n \in Nat /\ p \in 1 .. n + 1 /\ p \in Nat /\ \A i \in 1 .. n : l[i] \in DeviceRec
  BY LenProperties, ElementOfSeq
<1>2. /\ a \in Seq(DeviceRec) /\ Len(a) = p - 1 /\ \A i \in 1 .. p - 1 : a[i] = l[i]
      /\ b \in Seq(DeviceRec) /\ Len(b) = n - p + 1 /\ \A i \in 1 .. n - p + 1 : b[i] = l[p + i - 1]
  BY <1>1
<1>3. <<d>> \in Seq(DeviceRec) /\ Len(<<d>>) = 1 /\ <<d>>[1] = d
  OBVIOUS
<1> HIDE DEF a, b, n
<1>4. /\ a \o <<d>> \in Seq(DeviceRec) /\ Len(a \o <<d>>) = p
      /\ \A i \in 1 .. p : (a \o <<d>>)[i] = IF i < p THEN l[i] ELSE d
  BY <1>1, <1>2, <1>3
<1> DEFINE c == a \o <<d>>
<1> HIDE DEF c
<1>5. c \in Seq(DeviceRec) /\ Len(c) = p /\ \A i \in 1 .. p : c[i] = IF i < p THEN l[i] ELSE d
  BY <1>4 DEF c
<1>6. /\ c \o b \in Seq(DeviceRec) /\ Len(c \o b) = n + 1
      /\ \A k \in 1 .. n + 1 : (c \o b)[k] = IF k <= p THEN c[k] ELSE b[k - p]
  <2>1. Len(c) + Len(b) = n + 1
    BY <1>1, <1>2, <1>5
  <2>2. /\ c \o b \in Seq(DeviceRec) /\ Len(c \o b) = Len(c) + Len(b)
        /\ \A k \in 1 .. Len(c) + Len(b) : (c \o b)[k] = IF k <= Len(c) THEN c[k] ELSE b[k - Len(c)]
    BY <1>2, <1>5, ConcatProperties
  <2> QED
    BY <1>5, <2>1, <2>2
<1> DEFINE e == c \o b
<1> HIDE DEF e
<1>9. \A k \in 1 .. n + 1 : e[k] = IF k <= p THEN c[k] ELSE b[k - p]
  BY <1>6 DEF e
<1>7. ASSUME NEW k \in 1 .. n + 1
      PROVE  e[k] = IF k < p THEN l[k] ELSE IF k = p THEN d ELSE l[k - 1]
  <2>1. CASE k <= p
    <3>1. k \in 1 .. p /\ e[k] = c[k]
      BY <1>1, <1>9, <2>1
    <3>2. c[k] = IF k < p THEN l[k] ELSE d
      BY <1>5, <3>1
    <3>3. CASE k < p
      <4>1. e[k] = l[k]
        BY <3>1, <3>2, <3>3
      <4> QED
        BY <3>3, <4>1, Zenon
    <3>4. CASE k = p
      <4>1. ~(k < p)
        BY <3>4
      <4>2. e[k] = d
        BY <3>1, <3>2, <4>1
      <4> QED
        BY <3>4, <4>1, <4>2, Zenon
    <3> QED
      BY <1>1, <2>1, <3>3, <3>4
  <2>2. CASE k > p
    <3>1. k - p \in 1 .. n - p + 1 /\ p + (k - p) - 1 = k - 1
      BY <1>1, <2>2
    <3>2. b[k - p] = l[k - 1]
      BY <1>2, <3>1
    <3> QED
      BY <1>1, <1>9, <2>2, <3>2
  <2> QED
    BY <1>1, <2>1, <2>2
<1>8. SubSeq(l, 1, p - 1) \o <<d>> \o SubSeq(l, p, Len(l)) = e
  BY DEF a, b, c, e, n
<1>10. e \in Seq(DeviceRec) /\ Len(e) = n + 1
  BY <1>6 DEF e
<1>11. Inserted(e, l, d, p)
  BY <1>7, <1>10 DEF n, Inserted
<1> QED
  BY <1>8, <1>11

LEMMA InsertKeeps ==
    ASSUME NEW l \in Seq(DeviceRec), Sorted(l), Named(l), NEW d \in DeviceRec,
           d.name = DevName(d.drv, d.unit), d.type = TypeOf(Kind[d.drv]),
           \A i \in 1 .. Len(l) : l[i].name # d.name
    PROVE  /\ insert_device(l, d) \in Seq(DeviceRec)
           /\ Sorted(insert_device(l, d)) /\ Named(insert_device(l, d))
           /\ Listed(l) \cup {<<d.drv, d.unit>>} \subseteq Listed(insert_device(l, d))
<1> DEFINE S == NotBefore(l, d.name)
           p == IF S = {} THEN Len(l) + 1 ELSE First(S)
           n == Len(l)
           s == insert_device(l, d)
<1>1. /\ n \in Nat /\ DOMAIN l = 1 .. n /\ \A i \in 1 .. n : l[i] \in DeviceRec /\ l[i].name \in Nat
      /\ d.name \in Nat
  <2>1. n \in Nat /\ DOMAIN l = 1 .. n /\ \A i \in 1 .. n : l[i] \in DeviceRec
    BY LenProperties, ElementOfSeq
  <2>2. \A r \in DeviceRec : r.name \in Nat
    BY DEF DeviceRec
  <2> QED
    BY <2>1, <2>2
<1>2. S = {i \in 1 .. n : l[i].name >= d.name} /\ S \subseteq Nat /\ S \subseteq 1 .. n
  BY <1>1 DEF NotBefore
<1>3. S # {} => First(S) \in S /\ \A j \in S : First(S) <= j
  BY <1>2, FirstIs
<1>4. s = SubSeq(l, 1, p - 1) \o <<d>> \o SubSeq(l, p, n)
  BY DEF insert_device
<1> HIDE DEF S, s
<1>5. p \in 1 .. n + 1
  BY <1>1, <1>2, <1>3
<1>6. \A k \in 1 .. n : k < p => l[k].name < d.name
  <2> SUFFICES ASSUME NEW k \in 1 .. n, k < p
               PROVE  l[k].name < d.name
    OBVIOUS
  <2>1. k \notin S
    BY <1>1, <1>2, <1>3
  <2> QED
    BY <1>1, <1>2, <2>1
<1>7. \A k \in 1 .. n : k >= p => l[k].name > d.name
  <2> SUFFICES ASSUME NEW k \in 1 .. n, k >= p
               PROVE  l[k].name > d.name
    OBVIOUS
  <2>1. S # {} /\ p = First(S) /\ p \in S
    BY <1>1, <1>3
  <2>2. l[p].name >= d.name /\ p \in 1 .. n
    BY <1>2, <2>1
  <2>3. l[k].name >= l[p].name
    <3>1. CASE k = p
      BY <1>1, <3>1
    <3>2. CASE p < k
      BY <1>1, <2>2, <3>2 DEF Sorted
    <3> QED
      BY <1>1, <2>2, <3>1, <3>2
  <2>4. l[k].name # d.name
    OBVIOUS
  <2> QED
    BY <1>1, <2>2, <2>3, <2>4
<1> HIDE DEF p
<1>8. /\ s \in Seq(DeviceRec) /\ Len(s) = n + 1
      /\ \A k \in 1 .. n + 1 : s[k] = IF k < p THEN l[k] ELSE IF k = p THEN d ELSE l[k - 1]
  <2>1. Inserted(s, l, d, p)
    BY <1>4, <1>5, InsertedAt
  <2> QED
    BY <2>1 DEF Inserted
<1> HIDE DEF n
<1>9. Len(l) = n
  BY DEF n
<1>10. Sorted(s)
  <2> SUFFICES ASSUME NEW i \in 1 .. n + 1, NEW j \in 1 .. n + 1, i < j
               PROVE  s[i].name < s[j].name
    BY <1>8 DEF Sorted
  <2>1. CASE j < p
    BY <1>1, <1>5, <1>8, <1>9, <2>1 DEF Sorted
  <2>2. CASE j = p
    <3>1. i \in 1 .. n /\ i < p
      BY <1>1, <1>5, <2>2
    <3> QED
      BY <1>1, <1>5, <1>6, <1>8, <2>2, <3>1
  <2>3. CASE j > p
    <3>1. j - 1 \in 1 .. n /\ j - 1 >= p /\ s[j] = l[j - 1]
      BY <1>1, <1>5, <1>8, <2>3
    <3>2. CASE i < p
      <4>1. i \in 1 .. n /\ i < j - 1 /\ s[i] = l[i]
        BY <1>1, <1>5, <1>8, <3>1, <3>2
      <4> QED
        BY <1>9, <3>1, <4>1 DEF Sorted
    <3>3. CASE i = p
      <4>1. s[i] = d /\ l[j - 1].name > d.name
        BY <1>5, <1>7, <1>8, <3>1, <3>3
      <4> QED
        BY <1>1, <3>1, <4>1
    <3>4. CASE i > p
      <4>1. i - 1 \in 1 .. n /\ i - 1 < j - 1 /\ s[i] = l[i - 1]
        BY <1>1, <1>5, <1>8, <3>4
      <4> QED
        BY <1>9, <3>1, <4>1 DEF Sorted
    <3> QED
      BY <1>5, <3>2, <3>3, <3>4
  <2> QED
    BY <1>5, <2>1, <2>2, <2>3
<1>11. \A k \in 1 .. n + 1 : s[k] = d \/ \E i \in 1 .. n : s[k] = l[i]
  <2> SUFFICES ASSUME NEW k \in 1 .. n + 1, s[k] # d
               PROVE  \E i \in 1 .. n : s[k] = l[i]
    OBVIOUS
  <2>1. CASE k < p
    BY <1>1, <1>5, <1>8, <2>1
  <2>2. CASE k > p
    <3>1. k - 1 \in 1 .. n /\ s[k] = l[k - 1]
      BY <1>1, <1>5, <1>8, <2>2
    <3> QED
      BY <3>1
  <2> QED
    BY <1>5, <1>8, <2>1, <2>2
<1>12. Named(s)
  BY <1>8, <1>9, <1>11 DEF Named
<1>13. Listed(l) \cup {<<d.drv, d.unit>>} \subseteq Listed(s)
  <2>1. <<d.drv, d.unit>> \in Listed(s)
    BY <1>5, <1>8 DEF Listed
  <2>2. ASSUME NEW i \in 1 .. n
        PROVE  \E k \in 1 .. n + 1 : s[k] = l[i]
    <3>1. CASE i < p
      BY <1>1, <1>8, <3>1
    <3>2. CASE i >= p
      <4>1. i + 1 \in 1 .. n + 1 /\ i + 1 > p /\ (i + 1) - 1 = i
        BY <1>1, <1>5, <3>2
      <4> QED
        BY <1>5, <1>8, <4>1
    <3> QED
      BY <1>5, <3>1, <3>2
  <2>3. Listed(l) = {<<l[i].drv, l[i].unit>> : i \in 1 .. n} /\ Listed(s) = {<<s[k].drv, s[k].unit>> : k \in 1 .. n + 1}
    BY <1>8, <1>9 DEF Listed
  <2>4. Listed(l) \subseteq Listed(s)
    BY <2>2, <2>3
  <2> QED
    BY <2>1, <2>4
<1> QED
  BY <1>8, <1>10, <1>12, <1>13 DEF s

LEMMA DevicesStart == DevicesInit => DevInv
<1> SUFFICES ASSUME DevicesInit
             PROVE  DevInv
  OBVIOUS
<1>1. /\ device_list = <<>> /\ phase = "create" /\ walk = [at |-> 0, ui |-> FALSE] /\ running = {}
      /\ fdarray = [fd \in Descriptors |-> [inuse |-> FALSE, flags |-> {}, name |-> -1, rawdev |-> <<-1, -1>>]]
      /\ made = {} /\ io = Fails
  BY DEF DevicesInit, Descriptors
<1>2. ListInv
  BY <1>1 DEF ListInv, Sorted, Named
<1>3. UiInv
  BY <1>1 DEF UiInv, UserInterface
<1>4. FdInv
  <2>1. fdarray \in [Descriptors -> [inuse : BOOLEAN, flags : SUBSET {"R"}, name : Int, rawdev : Int \X Int]]
    BY <1>1
  <2>2. (\A fd \in Descriptors : ~fdarray[fd].inuse) /\ io.reached = Null /\ walk.at = 0
    BY <1>1 DEF Fails
  <2> QED
    BY <2>1, <2>2 DEF FdInv
<1> QED
  BY <1>2, <1>3, <1>4 DEF DevInv

LEMMA CreateKeeps ==
    ASSUME DevInv, device_create
    PROVE  DevInv'
<1>1. ListInv /\ UiInv /\ FdInv
  BY DEF DevInv
<1>2. phase = "create" /\ UNCHANGED <<phase, walk, running, fdarray, io>>
  BY DEF device_create
<1>3. UiInv'
  BY <1>1, <1>2 DEF UiInv, UserInterface
<1>4. FdInv'
  BY <1>1, <1>2 DEF FdInv
<1>5. ListInv'
  <2>1. PICK drv \in Drivers, unit \in Units, works \in BOOLEAN :
          LET name == DevName(drv, unit)
              type == TypeOf(Kind[drv])
              d    == [name |-> name, unit |-> unit, drv |-> drv, type |-> type, write_fn |-> FALSE, read_fn |-> FALSE]
              good == works /\ type # "unknown" /\ lookup_name(device_list, name) = Null
          IN  /\ device_list' = IF good THEN insert_device(device_list, d) ELSE device_list
              /\ made' = IF good THEN made \cup {<<drv, unit>>} ELSE made
    BY DEF device_create
  <2> DEFINE d == [name |-> DevName(drv, unit), unit |-> unit, drv |-> drv, type |-> TypeOf(Kind[drv]),
                   write_fn |-> FALSE, read_fn |-> FALSE]
             good == works /\ TypeOf(Kind[drv]) # "unknown" /\ lookup_name(device_list, DevName(drv, unit)) = Null
  <2>2. /\ device_list' = IF good THEN insert_device(device_list, d) ELSE device_list
        /\ made' = IF good THEN made \cup {<<drv, unit>>} ELSE made
    BY <2>1
  <2>3. /\ d \in DeviceRec /\ d.name = DevName(d.drv, d.unit) /\ d.type = TypeOf(Kind[d.drv])
        /\ d.drv = drv /\ d.unit = unit /\ d.name \in Nat
    BY NameIs, TypeIs DEF DeviceRec
  <2>4. good => lookup_name(device_list, d.name) = Null
    OBVIOUS
  <2> HIDE DEF d, good
  <2>5. CASE good
    <3>1. \A i \in 1 .. Len(device_list) : device_list[i].name # d.name
      BY <1>1, <2>3, <2>4, <2>5, LookupFinds DEF ListInv
    <3>2. /\ insert_device(device_list, d) \in Seq(DeviceRec)
          /\ Sorted(insert_device(device_list, d)) /\ Named(insert_device(device_list, d))
          /\ Listed(device_list) \cup {<<d.drv, d.unit>>} \subseteq Listed(insert_device(device_list, d))
      BY <1>1, <2>3, <3>1, InsertKeeps DEF ListInv
    <3>3. device_list' = insert_device(device_list, d) /\ made' = made \cup {<<drv, unit>>}
      BY <2>2, <2>5
    <3>4. made' \subseteq Listed(device_list')
      BY <1>1, <2>3, <3>2, <3>3 DEF ListInv
    <3> QED
      BY <3>2, <3>3, <3>4 DEF ListInv
  <2>6. CASE ~good
    BY <1>1, <2>2, <2>6 DEF ListInv
  <2> QED
    BY <2>5, <2>6
<1> QED
  BY <1>3, <1>4, <1>5 DEF DevInv

LEMMA AccessKeeps ==
    ASSUME DevInv, device_set_access
    PROVE  DevInv'
<1>1. ListInv /\ UiInv /\ FdInv
  BY DEF DevInv
<1>2. phase = "create" /\ UNCHANGED <<phase, walk, running, fdarray, made, io>>
  BY DEF device_set_access
<1>3. UiInv'
  BY <1>1, <1>2 DEF UiInv, UserInterface
<1>4. FdInv'
  BY <1>1, <1>2 DEF FdInv
<1>5. PICK i \in DOMAIN device_list :
        device_list' = [device_list EXCEPT ![i].write_fn = FALSE, ![i].read_fn = TRUE]
  BY DEF device_set_access
<1>6. /\ Len(device_list) \in Nat /\ DOMAIN device_list = 1 .. Len(device_list)
      /\ \A k \in 1 .. Len(device_list) : device_list[k] \in DeviceRec
  BY <1>1, LenProperties, ElementOfSeq DEF ListInv
<1> DEFINE d == [device_list[i] EXCEPT !.write_fn = FALSE, !.read_fn = TRUE]
<1>7. /\ d \in DeviceRec /\ d.name = device_list[i].name /\ d.drv = device_list[i].drv
      /\ d.unit = device_list[i].unit /\ d.type = device_list[i].type
  BY <1>6 DEF DeviceRec
<1>8. device_list' = [device_list EXCEPT ![i] = d]
  BY <1>5, <1>6
<1> HIDE DEF d
<1>9. /\ device_list' \in Seq(DeviceRec) /\ Len(device_list') = Len(device_list)
      /\ \A k \in 1 .. Len(device_list) : device_list'[k] = IF k = i THEN d ELSE device_list[k]
  BY <1>1, <1>6, <1>7, <1>8, ExceptSeq DEF ListInv
<1>10. \A k \in 1 .. Len(device_list) :
         /\ device_list'[k].name = device_list[k].name /\ device_list'[k].drv = device_list[k].drv
         /\ device_list'[k].unit = device_list[k].unit /\ device_list'[k].type = device_list[k].type
  BY <1>7, <1>9
<1>11. Sorted(device_list') /\ Named(device_list')
  BY <1>1, <1>9, <1>10 DEF ListInv, Sorted, Named
<1>12. Listed(device_list') = Listed(device_list)
  BY <1>9, <1>10 DEF Listed
<1>13. ListInv'
  BY <1>1, <1>2, <1>9, <1>11, <1>12 DEF ListInv
<1> QED
  BY <1>3, <1>4, <1>13 DEF DevInv

LEMMA DoneKeeps ==
    ASSUME DevInv, CreatesDone
    PROVE  DevInv'
<1>1. ListInv /\ UiInv /\ FdInv
  BY DEF DevInv
<1>2. /\ phase = "create" /\ phase' = "start" /\ walk' = [at |-> 1, ui |-> FALSE]
      /\ UNCHANGED <<device_list, running, fdarray, made, io>>
  BY DEF CreatesDone
<1>3. ListInv'
  BY <1>1, <1>2 DEF ListInv
<1>4. UserInterface' = UserInterface
  BY <1>2 DEF UserInterface
<1>5. UiInv'
  BY <1>1, <1>2, <1>4 DEF UiInv
<1>6. FdInv'
  BY <1>1, <1>2 DEF FdInv
<1> QED
  BY <1>3, <1>5, <1>6 DEF DevInv

LEMMA StartKeeps ==
    ASSUME DevInv, start_devices_lib
    PROVE  DevInv'
<1>1. ListInv /\ UiInv /\ FdInv
  BY DEF DevInv
<1>2. phase = "start" /\ phase' # "create" /\ UNCHANGED <<device_list, fdarray, made, io>>
  BY DEF start_devices_lib
<1>3. ListInv'
  BY <1>1, <1>2 DEF ListInv
<1>4. FdInv'
  BY <1>1, <1>2 DEF FdInv
<1>5. walk \in [at : Nat, ui : BOOLEAN] /\ Len(device_list) \in Nat
  BY <1>1, LenProperties DEF UiInv, ListInv
<1>6. CASE walk.at > Len(device_list)
  <2>1. UNCHANGED <<walk, running>>
    BY <1>6 DEF start_devices_lib
  <2>2. UiInv'
    BY <1>1, <1>2, <2>1 DEF UiInv, UserInterface
  <2> QED
    BY <1>3, <1>4, <2>2 DEF DevInv
<1>7. CASE ~(walk.at > Len(device_list))
  <2> DEFINE d == device_list[walk.at]
  <2>1. PICK starts \in BOOLEAN :
          /\ running' = IF MayStart(d.type, walk.ui) /\ starts THEN running \cup {<<d.drv, d.unit>>} ELSE running
          /\ walk' = [at |-> walk.at + 1, ui |-> walk.ui \/ ((MayStart(d.type, walk.ui) /\ starts) /\ d.type # "char")]
    BY <1>7 DEF start_devices_lib
  <2> DEFINE ok == MayStart(d.type, walk.ui) /\ starts
  <2>2. walk'.ui = (walk.ui \/ (ok /\ d.type # "char")) /\ walk' \in [at : Nat, ui : BOOLEAN] /\ walk'.at >= 1
    BY <1>5, <2>1 DEF MayStart
  <2>3. UiInv'
    <3>1. CASE ~ok
      <4>1. running' = running /\ walk'.ui = walk.ui
        BY <1>5, <2>1, <2>2, <3>1
      <4>2. UserInterface' = UserInterface
        BY <4>1 DEF UserInterface
      <4> QED
        BY <1>1, <1>2, <2>2, <4>1, <4>2 DEF UiInv
    <3>2. CASE ok
      <4>1. running' = running \cup {<<d.drv, d.unit>>}
        BY <2>1, <3>2
      <4>2. d.type = TypeOf(Kind[d.drv])
        <5>1. walk.at \in 1 .. Len(device_list)
          BY <1>1, <1>2, <1>5, <1>7 DEF UiInv
        <5> QED
          BY <1>1, <5>1 DEF ListInv, Named
      <4> HIDE DEF d
      <4>3. <<d.drv, d.unit>>[1] = d.drv
        OBVIOUS
      <4>4. CASE d.type = "char"
        <5>1. Kind[d.drv] \notin {"txt", "gfx"}
          BY <4>2, <4>4, TypeIs
        <5>2. UserInterface' = UserInterface
          BY <4>1, <4>3, <5>1 DEF UserInterface
        <5>3. walk'.ui = walk.ui
          BY <1>5, <2>2, <4>4
        <5> QED
          BY <1>1, <1>2, <2>2, <5>2, <5>3 DEF UiInv
      <4>5. CASE d.type # "char"
        <5>1. ~walk.ui /\ walk'.ui
          BY <2>2, <3>2, <4>5 DEF MayStart
        <5>2. UserInterface = {}
          BY <1>1, <5>1 DEF UiInv
        <5>3. UserInterface' \subseteq {<<d.drv, d.unit>>}
          BY <4>1, <5>2 DEF UserInterface
        <5>4. \A p, q \in UserInterface' : p = q
          BY <5>3
        <5> QED
          BY <1>2, <2>2, <5>1, <5>4 DEF UiInv
      <4> QED
        BY <4>4, <4>5
    <3> QED
      BY <3>1, <3>2
  <2> QED
    BY <1>3, <1>4, <2>3 DEF DevInv
<1> QED
  BY <1>6, <1>7

(* The two outcomes of open: nothing changes but the last answer, or a     *)
(* free descriptor is given the device that the name leads to.             *)
LEMMA OpenIs ==
    ASSUME DevInv, open
    PROVE  /\ phase # "create" /\ UNCHANGED <<device_list, phase, walk, running, made>> /\ io'.reached = Null
           /\ \/ UNCHANGED fdarray
              \/ \E fd \in Descriptors, i \in 1 .. Len(device_list) :
                   /\ ~fdarray[fd].inuse
                   /\ fdarray' = [fdarray EXCEPT ![fd] =
                        [inuse |-> TRUE, flags |-> {"R"}, name |-> device_list[i].name,
                         rawdev |-> <<device_list[i].drv, device_list[i].unit>>]]
<1>1. ListInv /\ UiInv /\ FdInv
  BY DEF DevInv
<1>2. UNCHANGED <<device_list, phase, walk, running, made>> /\ phase # "create"
  BY <1>1 DEF open, FdInv
<1>3. PICK drv \in Drivers, unit \in Units, flags \in {{"R"}, {}} :
        LET fd  == First(Free)
            dv  == device_lookup(drv, unit)
        IN  IF Free = {} \/ flags = {} \/ dv = Null THEN io' = Fails /\ UNCHANGED fdarray
            ELSE /\ fdarray' = [fdarray EXCEPT ![fd] = [inuse |-> TRUE, flags |-> flags, name |-> DevName(drv, unit),
                                                        rawdev |-> <<dv.drv, dv.unit>>]]
                 /\ io' = [Fails EXCEPT !.fd = fd, !.ret = fd]
  BY DEF open
<1> DEFINE fd == First(Free)
           dv == device_lookup(drv, unit)
<1>4. CASE Free = {} \/ flags = {} \/ dv = Null
  <2>1. io' = Fails /\ UNCHANGED fdarray
    BY <1>3, <1>4
  <2> QED
    BY <1>2, <2>1 DEF Fails
<1>5. CASE ~(Free = {} \/ flags = {} \/ dv = Null)
  <2>1. /\ fdarray' = [fdarray EXCEPT ![fd] = [inuse |-> TRUE, flags |-> flags, name |-> DevName(drv, unit),
                                               rawdev |-> <<dv.drv, dv.unit>>]]
        /\ io' = [Fails EXCEPT !.fd = fd, !.ret = fd]
        /\ Free # {} /\ flags = {"R"} /\ dv # Null
    BY <1>3, <1>5
  <2>2. Free = {f \in Descriptors : ~fdarray[f].inuse} /\ Free \subseteq Nat
    BY <1>1, DevicesAssumption DEF Free, FdInv, Descriptors
  <2>3. fd \in Descriptors /\ ~fdarray[fd].inuse
    <3>1. fd \in Free
      BY <2>1, <2>2, FirstIs
    <3> QED
      BY <2>2, <3>1
  <2>4. PICK i \in 1 .. Len(device_list) : dv = device_list[i] /\ device_list[i].name = DevName(drv, unit)
    BY <1>1, <2>1, NameIs, LookupFinds DEF ListInv, device_lookup
  <2>5. io'.reached = Null
    BY <2>1 DEF Fails
  <2> HIDE DEF fd, dv
  <2>6. fdarray' = [fdarray EXCEPT ![fd] = [inuse |-> TRUE, flags |-> {"R"}, name |-> device_list[i].name,
                                            rawdev |-> <<device_list[i].drv, device_list[i].unit>>]]
    BY <2>1, <2>4
  <2> QED
    BY <1>2, <2>3, <2>5, <2>6
<1> QED
  BY <1>4, <1>5

LEMMA OpenKeeps ==
    ASSUME DevInv, open
    PROVE  DevInv'
<1>1. ListInv /\ UiInv /\ FdInv
  BY DEF DevInv
<1>2. phase # "create" /\ UNCHANGED <<device_list, phase, walk, running, made>> /\ io'.reached = Null
  BY OpenIs
<1>3. ListInv'
  BY <1>1, <1>2 DEF ListInv
<1>4. UiInv'
  BY <1>1, <1>2 DEF UiInv, UserInterface
<1>5. FdInv'
  <2>1. CASE UNCHANGED fdarray
    BY <1>1, <1>2, <2>1 DEF FdInv
  <2>2. CASE ~UNCHANGED fdarray
    <3>1. PICK fd \in Descriptors, i \in 1 .. Len(device_list) :
            fdarray' = [fdarray EXCEPT ![fd] =
                         [inuse |-> TRUE, flags |-> {"R"}, name |-> device_list[i].name,
                          rawdev |-> <<device_list[i].drv, device_list[i].unit>>]]
      BY <2>2, OpenIs
    <3> DEFINE r == [inuse |-> TRUE, flags |-> {"R"}, name |-> device_list[i].name,
                     rawdev |-> <<device_list[i].drv, device_list[i].unit>>]
    <3>2. /\ r \in [inuse : BOOLEAN, flags : SUBSET {"R"}, name : Int, rawdev : Int \X Int]
          /\ r.rawdev = <<device_list[i].drv, device_list[i].unit>> /\ r.name = device_list[i].name
      <4>1. device_list[i] \in DeviceRec
        BY <1>1, ElementOfSeq DEF ListInv
      <4>2. device_list[i].name \in Int /\ device_list[i].drv \in Int /\ device_list[i].unit \in Int
        BY <4>1, NumbersAre
      <4> QED
        BY <4>2
    <3> HIDE DEF r
    <3>3. fdarray' = [fdarray EXCEPT ![fd] = r]
      BY <3>1 DEF r
    <3>4. /\ fdarray' \in [Descriptors -> [inuse : BOOLEAN, flags : SUBSET {"R"}, name : Int, rawdev : Int \X Int]]
          /\ \A f \in Descriptors : fdarray'[f] = IF f = fd THEN r ELSE fdarray[f]
      BY <1>1, <3>2, <3>3 DEF FdInv
    <3>5. ASSUME NEW f \in Descriptors, fdarray'[f].inuse
          PROVE  \E k \in 1 .. Len(device_list) :
                   /\ <<device_list[k].drv, device_list[k].unit>> = fdarray'[f].rawdev
                   /\ device_list[k].name = fdarray'[f].name
      <4>1. CASE f = fd
        BY <3>2, <3>4, <4>1
      <4>2. CASE f # fd
        <5>1. fdarray'[f] = fdarray[f]
          BY <3>4, <4>2
        <5> QED
          BY <1>1, <3>5, <5>1 DEF FdInv
      <4> QED
        BY <4>1, <4>2
    <3> QED
      BY <1>2, <3>4, <3>5 DEF FdInv
  <2> QED
    BY <2>1, <2>2
<1> QED
  BY <1>3, <1>4, <1>5 DEF DevInv

(* A transfer reaches the device of the descriptor's name, if any.         *)
LEMMA TransferIs ==
    ASSUME DevInv, transfer
    PROVE  /\ UNCHANGED <<device_list, phase, walk, running, fdarray, made>>
           /\ io'.reached # Null => /\ io'.fd \in Descriptors /\ fdarray[io'.fd].inuse
                                    /\ io'.reached.name = fdarray[io'.fd].name
<1>1. ListInv /\ FdInv /\ DOMAIN fdarray = Descriptors
  BY DEF DevInv, FdInv
<1>2. UNCHANGED <<device_list, phase, walk, running, fdarray, made>>
  BY DEF transfer
<1>3. PICK fd \in Descriptors, way \in {"read", "write"}, a \in Answers :
        LET d   == device_list[Device(fd)]
            ret == IF way = "read" THEN device_io_rx(d, a) ELSE device_io_tx(d, a)
        IN  io' = IF ~fdarray[fd].inuse THEN [Fails EXCEPT !.fd = fd]
                  ELSE [fd |-> fd, reached |-> d, way |-> way, status |-> a,
                        ret |-> IF ret \in {"EIO", "EPERM"} THEN -1 ELSE 1]
  BY <1>1 DEF transfer
<1> DEFINE d == device_list[Device(fd)]
<1>4. CASE ~fdarray[fd].inuse
  <2>1. io' = [Fails EXCEPT !.fd = fd]
    BY <1>3, <1>4
  <2> QED
    BY <1>2, <2>1 DEF Fails
<1>5. CASE fdarray[fd].inuse
  <2>1. io'.fd = fd /\ io'.reached = d
    BY <1>3, <1>5
  <2>2. PICK i \in 1 .. Len(device_list) : /\ <<device_list[i].drv, device_list[i].unit>> = fdarray[fd].rawdev
                                           /\ device_list[i].name = fdarray[fd].name
    BY <1>1, <1>5 DEF FdInv
  <2>3. DOMAIN device_list = 1 .. Len(device_list)
    BY <1>1, LenProperties DEF ListInv
  <2>4. /\ Device(fd) \in 1 .. Len(device_list)
        /\ <<device_list[Device(fd)].drv, device_list[Device(fd)].unit>> = fdarray[fd].rawdev
    BY <2>2, <2>3 DEF Device
  <2>5. device_list[Device(fd)].drv = device_list[i].drv /\ device_list[Device(fd)].unit = device_list[i].unit
    BY <2>2, <2>4
  <2>6. d.name = device_list[i].name
    BY <1>1, <2>4, <2>5 DEF ListInv, Named
  <2> HIDE DEF d
  <2> QED
    BY <1>2, <1>5, <2>1, <2>2, <2>6
<1> QED
  BY <1>4, <1>5

LEMMA TransferKeeps ==
    ASSUME DevInv, transfer
    PROVE  DevInv'
<1>1. ListInv /\ UiInv /\ FdInv
  BY DEF DevInv
<1>2. /\ UNCHANGED <<device_list, phase, walk, running, fdarray, made>>
      /\ io'.reached # Null => /\ io'.fd \in Descriptors /\ fdarray[io'.fd].inuse
                               /\ io'.reached.name = fdarray[io'.fd].name
  BY TransferIs
<1>3. ListInv'
  BY <1>1, <1>2 DEF ListInv
<1>4. UiInv'
  BY <1>1, <1>2 DEF UiInv, UserInterface
<1>5. FdInv'
  BY <1>1, <1>2 DEF FdInv
<1> QED
  BY <1>3, <1>4, <1>5 DEF DevInv

LEMMA DevicesStep == DevInv /\ [DevicesNext]_deviceVars => DevInv'
<1> SUFFICES ASSUME DevInv, [DevicesNext]_deviceVars
             PROVE  DevInv'
  OBVIOUS
<1>1. CASE device_create
  BY <1>1, CreateKeeps
<1>2. CASE device_set_access
  BY <1>2, AccessKeeps
<1>3. CASE CreatesDone
  BY <1>3, DoneKeeps
<1>4. CASE start_devices_lib
  BY <1>4, StartKeeps
<1>5. CASE open
  BY <1>5, OpenKeeps
<1>6. CASE transfer
  BY <1>6, TransferKeeps
<1>7. CASE UNCHANGED deviceVars
  BY <1>7 DEF deviceVars, DevInv, ListInv, UiInv, FdInv, UserInterface
<1> QED
  BY <1>1, <1>2, <1>3, <1>4, <1>5, <1>6, <1>7 DEF DevicesNext

LEMMA DevInvSays ==
    ASSUME Units \subseteq 0 .. 9, DevInv
    PROVE  DevicesSound
<1>1. ListInv /\ UiInv
  BY DEF DevInv
<1>2. ASSUME NEW p \in made
      PROVE  device_lookup(p[1], p[2]) # Null
  <2>1. PICK i \in 1 .. Len(device_list) : p = <<device_list[i].drv, device_list[i].unit>>
    BY <1>1 DEF ListInv, Listed
  <2>2. device_list[i].name = DevName(p[1], p[2]) /\ device_list[i].name \in Nat
    <3>1. device_list[i] \in DeviceRec
      BY <1>1, ElementOfSeq DEF ListInv
    <3> QED
      BY <1>1, <2>1, <3>1 DEF ListInv, Named, DeviceRec
  <2> QED
    BY <1>1, <2>2, LookupFinds DEF ListInv, device_lookup
<1>3. ASSUME NEW drv \in Drivers, NEW unit \in Units, device_lookup(drv, unit) # Null
      PROVE  device_lookup(drv, unit).drv = drv /\ device_lookup(drv, unit).unit = unit
  <2>1. PICK i \in 1 .. Len(device_list) :
          device_lookup(drv, unit) = device_list[i] /\ device_list[i].name = DevName(drv, unit)
    BY <1>1, <1>3, NameIs, LookupFinds DEF ListInv, device_lookup
  <2>2. device_list[i] \in DeviceRec /\ device_list[i].name = DevName(device_list[i].drv, device_list[i].unit)
    BY <1>1, ElementOfSeq DEF ListInv, Named
  <2>3. device_list[i].drv \in Drivers /\ device_list[i].unit \in Units
    BY <2>2 DEF DeviceRec
  <2>4. DevName(device_list[i].drv, device_list[i].unit) = DevName(drv, unit)
    BY <2>1, <2>2
  <2>5. device_list[i].drv = drv /\ device_list[i].unit = unit
    <3> DEFINE x == device_list[i].drv
               y == device_list[i].unit
    <3>1. x \in Drivers /\ y \in Units /\ DevName(x, y) = DevName(drv, unit)
      BY <2>3, <2>4
    <3> HIDE DEF x, y
    <3>2. DevName(x, y) = DevName(drv, unit) => x = drv /\ y = unit
      BY <3>1, NameUnique
    <3>3. x = drv /\ y = unit
      BY <3>1, <3>2
    <3> QED
      BY <3>3 DEF x, y
  <2> QED
    BY <2>1, <2>5
<1>4. CreatedFound
  BY <1>2, <1>3 DEF CreatedFound
<1>5. OneUiRuns
  <2>1. CASE UserInterface = {}
    BY <2>1, FS_EmptySet DEF OneUiRuns, UserInterface
  <2>2. CASE UserInterface # {}
    <3>1. PICK p : UserInterface = {p}
      BY <1>1, <2>2 DEF UiInv
    <3>2. Cardinality(UserInterface) = 1
      BY <3>1, FS_Singleton
    <3> QED
      BY <3>2 DEF OneUiRuns, UserInterface
  <2> QED
    BY <2>1, <2>2
<1> QED
  BY <1>4, <1>5 DEF DevicesSound

(* For every set of drivers with at most ten units each, whatever the      *)
(* order of creation and whichever device fails to start: device_lookup    *)
(* finds every device that was created, and the one that was asked for,    *)
(* and at most one user interface runs.  Beyond ten units two devices have *)
(* one name, since only its last digit is printed.                         *)
THEOREM DevicesAreSound ==
    ASSUME Units \subseteq 0 .. 9
    PROVE  DevicesSpec => []DevicesSound
<1>1. DevicesInit => DevInv
  BY DevicesStart
<1>2. DevInv /\ [DevicesNext]_deviceVars => DevInv'
  BY DevicesStep
<1>3. DevInv => DevicesSound
  BY DevInvSays
<1> QED
  BY <1>1, <1>2, <1>3, PTL DEF DevicesSpec

(* A descriptor in use is given to nobody else, and what is transferred    *)
(* through it reaches the device it was opened with, for any units.        *)
THEOREM DescriptorsAreKept == DevicesSpec => DescriptorKept
<1> DEFINE Keeps == \A fd \in DOMAIN fdarray :
             /\ fdarray[fd].inuse => fdarray'[fd] = fdarray[fd]
             /\ io'.fd = fd /\ io'.reached # Null => io'.reached.name = fdarray[fd].name
<1>1. DevicesInit => DevInv
  BY DevicesStart
<1>2. DevInv /\ [DevicesNext]_deviceVars => DevInv'
  BY DevicesStep
<1>3. DevInv /\ [DevicesNext]_deviceVars => [Keeps]_deviceVars
  <2> SUFFICES ASSUME DevInv, DevicesNext
               PROVE  Keeps
    OBVIOUS
  <2>1. FdInv /\ DOMAIN fdarray = Descriptors
    BY DEF DevInv, FdInv
  <2>2. CASE fdarray' = fdarray /\ io' = io
    BY <2>1, <2>2 DEF FdInv
  <2>3. CASE open
    <3>1. io'.reached = Null
      BY <2>3, OpenIs
    <3>2. ASSUME NEW fd \in Descriptors, fdarray[fd].inuse
          PROVE  fdarray'[fd] = fdarray[fd]
      <4>1. CASE UNCHANGED fdarray
        BY <4>1
      <4>2. CASE ~UNCHANGED fdarray
        <5>1. PICK f \in Descriptors, i \in 1 .. Len(device_list) :
                /\ ~fdarray[f].inuse
                /\ fdarray' = [fdarray EXCEPT ![f] =
                     [inuse |-> TRUE, flags |-> {"R"}, name |-> device_list[i].name,
                      rawdev |-> <<device_list[i].drv, device_list[i].unit>>]]
          BY <2>3, <4>2, OpenIs
        <5>2. f # fd
          BY <3>2, <5>1
        <5> QED
          BY <2>1, <5>1, <5>2
      <4> QED
        BY <4>1, <4>2
    <3> QED
      BY <2>1, <3>1, <3>2
  <2>4. CASE transfer
    BY <2>1, <2>4, TransferIs
  <2>5. device_create \/ device_set_access \/ CreatesDone \/ start_devices_lib => fdarray' = fdarray /\ io' = io
    BY DEF device_create, device_set_access, CreatesDone, start_devices_lib
  <2> QED
    BY <2>2, <2>3, <2>4, <2>5 DEF DevicesNext
<1> QED
  BY <1>1, <1>2, <1>3, PTL DEF DevicesSpec, DescriptorKept
=============================================================================
