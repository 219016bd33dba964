------------------------------- MODULE Network --------------------------------
(***************************************************************************)
(* The receive path of the network: the RTL8139 driver, the network        *)
(* buffers and the network thread (drivers/network/rtl8139/rtl8139.c,      *)
(* network/net_buffers.c, applications/network/network_core.c).            *)
(*                                                                         *)
(* The card is the environment: it stores frames in the receive ring,      *)
(* raises interrupts and sees the link come and go, between any two steps. *)
(* The interrupt handler runs to its end before a thread goes on; the card *)
(* does not wait for it.  A frame is a number, in order of arrival, and a  *)
(* length; a packet is a member of the pool.  netb is a barrier: the       *)
(* network thread goes on once it is open (see Barriers).                  *)
(*                                                                         *)
(* Definitions that come just before a helper with the same parameters are *)
(* mistakes the code could have made; no specification uses them.          *)
(***************************************************************************)
EXTENDS Integers, Sequences, FiniteSets

CONSTANTS
    RBLEN_SIZE,     \* bytes of the receive ring
    CAPR_DATA_OFF,  \* what RL_CAPR is short of the address read
    AddressSpace,   \* values of the 16-bit register RL_CAPR
    FrameLength,    \* lengths of frames, with their FCS
    MaxFrames,      \* bound on frames that arrive
    MaxExtras,      \* bound on changes of the link, calls of rtl_stop and
                    \* packets sent, together
    packets,        \* size of the pool and of the queues
    App,            \* threads that send packets
    LinkWhileStopped \* whether the link changes while the driver is stopped

ASSUME NetworkAssumption ==
    /\ packets \in Nat /\ packets > 2
    /\ RBLEN_SIZE \in Nat \ {0} /\ AddressSpace \in Nat \ {0}
    /\ RBLEN_SIZE % 4 = 0 /\ AddressSpace % RBLEN_SIZE = 0
    /\ CAPR_DATA_OFF \in 1 .. AddressSpace /\ FrameLength \subseteq Nat

Packet == 1 .. packets
NoPacket == 0

VARIABLES
    \* the card
    unread,         \* the frames in the ring not yet read, oldest first
    CBR, CAPR,      \* where the card stores next, where the driver has read
    RE, TE, IMR,    \* receiver and transmitter enabled, interrupts unmasked
    RCR,            \* what the receiver accepts
    OWN,            \* the transmit descriptors belong to the driver
    ISR,            \* pending interrupts
    linkUp,         \* RL_MSR
    arrived, links, \* frames and changes of the link so far
    \* the driver
    rx_cur_address, rx_ring_offset,
    ifflags, drvStatus, lineOn,
    irq, isr,       \* where the handler is, and its copy of ISR
    op, restarts,   \* where rtl_start or rtl_stop is; how many
    \* network buffers
    pkts_head, pkts_tail, \* the pool: the oldest packet in use, the next one
    frameOf,        \* the frame each packet holds
    in_cb, out_cb,  \* the queues: [head, tail, buf]
    netb,           \* the barrier is open
    \* threads
    net, held,      \* where the network thread is, and the packet it has
    lastIn,         \* the last frame it processed
    app, appPkt, sends

cardVars == <<unread, CBR, CAPR, RE, TE, IMR, RCR, OWN, ISR, linkUp, arrived, links>>
driverVars == <<rx_cur_address, rx_ring_offset, ifflags, drvStatus, lineOn, irq, isr, op, restarts>>
bufVars == <<pkts_head, pkts_tail, frameOf, in_cb, out_cb, netb>>
threadVars == <<net, held, lastIn, app, appPkt, sends>>
vars == <<cardVars, driverVars, bufVars, threadVars>>

(* What the driver would read where no frame begins.                       *)
NoFrame == [at |-> 0, id |-> 0, len |-> 0, ok |-> FALSE]

NetTypeOK ==
    /\ CBR \in 0 .. RBLEN_SIZE - 1 /\ CAPR \in 0 .. AddressSpace - 1
    /\ rx_cur_address \in 0 .. AddressSpace - 1
    /\ rx_ring_offset \in 0 .. RBLEN_SIZE - 1
    /\ ISR \subseteq {"ROK", "RXOVW", "PUN"} /\ isr \subseteq {"ROK", "RXOVW", "PUN"}
    /\ irq \in {"idle", "ack", "receive", "clear", "clearOvw", "link"}
    /\ {pkts_head, pkts_tail} \subseteq Packet /\ held \in Packet \cup {NoPacket}
    /\ {in_cb.head, in_cb.tail, out_cb.head, out_cb.tail} \subseteq 0 .. packets - 1

(***************************************************************************)
(* Queues of packets, include/libs/cbuffers.h: an index moves by one.      *)
(***************************************************************************)
cbuffer_init == [head |-> 0, tail |-> 0, buf |-> [i \in 0 .. packets - 1 |-> NoPacket]]
cbuffer_is_empty(c) == c.head = c.tail
cbuffer_in_use(c) == (c.tail - c.head + packets) % packets
(* The queue is full one packet early: cbuffer_free_space is 1.            *)
cbuffer_is_full(c) == packets - cbuffer_in_use(c) - 1 = 1
Step(i) == IF i + 1 = packets THEN 0 ELSE i + 1
cbuffer_add(c) == [c EXCEPT !.tail = Step(@)]
(* What is left in the slot of a removed packet is not looked at again.    *)
RemoveForgotten(c) == c
cbuffer_remove(c) == [c EXCEPT !.head = Step(@), !.buf = [@ EXCEPT ![c.head] = NoPacket]]
Store(c, p) == [c EXCEPT !.buf[c.tail] = p]
Queue(c) == [i \in 1 .. cbuffer_in_use(c) |-> c.buf[(c.head + i - 1) % packets]]

(***************************************************************************)
(* Network buffers.  The pool is a pakman (libs/pakman.c, see ChunkPools): *)
(* a circle of packets, of which one is never in use, taken at the tail    *)
(* and given back at the head, in that order only.                         *)
(***************************************************************************)
netbuf_init ==
    /\ pkts_head = 1 /\ pkts_tail = 1 /\ frameOf = [p \in Packet |-> 0]
    /\ in_cb = cbuffer_init /\ out_cb = cbuffer_init /\ netb = FALSE

PoolStep(p) == IF p = packets THEN 1 ELSE p + 1
InUse(p) ==
    IF pkts_head <= pkts_tail THEN pkts_head <= p /\ p < pkts_tail
                              ELSE pkts_head <= p \/ p < pkts_tail
free == {p \in Packet : ~InUse(p)}

(* What netbuf_get answers, under lock(): the packet at the tail, or none: *)
(* all are in use, or those in use take up the bytes of the pool.          *)
netbuf_get ==
    (IF PoolStep(pkts_tail) # pkts_head THEN {pkts_tail} ELSE {})
        \cup (IF pkts_head # pkts_tail THEN {NoPacket} ELSE {})

PutUnordered(pkt) ==
    pkts_head' = PoolStep(pkts_head) /\ frameOf' = [frameOf EXCEPT ![pkt] = 0]

(* pakman_put_packet answers EPERM for any packet but the oldest, and      *)
(* nobody looks at the answer.                                             *)
pakman_put_packet(pkt) ==
    IF pkt = pkts_head
    THEN pkts_head' = PoolStep(pkts_head) /\ frameOf' = [frameOf EXCEPT ![pkt] = 0]
    ELSE UNCHANGED <<pkts_head, frameOf>>

netbuf_copy_eth(rx_pkt, pkt) == [frameOf EXCEPT ![pkt] = rx_pkt.id]

(***************************************************************************)
(* The card (external).  It stores a frame when the receiver is enabled    *)
(* and the ring has more room than the frame needs, and reports an         *)
(* overflow otherwise; an empty ring has all its room.  The frame may run  *)
(* past the end of the ring (RL_RCR_WRAP).                                 *)
(***************************************************************************)
Aligned(len) == ((len + 4 + 3) \div 4) * 4
ReadAddress == (CAPR + CAPR_DATA_OFF) % RBLEN_SIZE
BUFE == CBR = ReadAddress
Room == IF BUFE THEN RBLEN_SIZE ELSE (ReadAddress - CBR + RBLEN_SIZE) % RBLEN_SIZE

FrameArrives ==
    /\ arrived < MaxFrames /\ linkUp /\ arrived' = arrived + 1
    /\ \E len \in FrameLength, ok \in BOOLEAN :
           IF ~RE \/ "AB" \notin RCR
           THEN UNCHANGED <<unread, CBR, ISR>>
           ELSE IF Aligned(len) < Room
           THEN /\ unread' = Append(unread, [at |-> CBR, id |-> arrived + 1, len |-> len, ok |-> ok])
                /\ CBR' = (CBR + Aligned(len)) % RBLEN_SIZE
                /\ ISR' = ISR \cup {"ROK"}
           ELSE ISR' = ISR \cup {"RXOVW"} /\ UNCHANGED <<unread, CBR>>
    /\ UNCHANGED <<CAPR, RE, TE, IMR, RCR, OWN, linkUp, links, driverVars, bufVars, threadVars>>

Extra == links + restarts + sends < MaxExtras

LinkChanges ==
    /\ Extra /\ (LinkWhileStopped \/ (IMR /\ lineOn))
    /\ links' = links + 1 /\ linkUp' = ~linkUp /\ ISR' = ISR \cup {"PUN"}
    /\ UNCHANGED <<unread, CBR, CAPR, RE, TE, IMR, RCR, OWN, arrived, driverVars, bufVars, threadVars>>

(* Writing RL_RCR sets the pointers of the ring back.                      *)
ResetRing == CBR' = 0 /\ CAPR' = AddressSpace - CAPR_DATA_OFF /\ unread' = <<>>

(***************************************************************************)
(* The interrupt handler.                                                  *)
(***************************************************************************)

(* What the receiver accepts.                                              *)
RxMode(flags) ==
    {"APM"} \cup (IF "PROMISC" \in flags THEN {"AB", "AM", "AAP"}
                  ELSE (IF "BROADCAST" \in flags THEN {"AB"} ELSE {})
                       \cup (IF flags \cap {"MULTICAST", "ALLMULTI"} # {} THEN {"AM"} ELSE {}))

(* The driver and the card both go back to the start of the ring.          *)
ConfigKeepsOffset ==
    /\ RCR' = RxMode(ifflags) /\ ResetRing
    /\ rx_cur_address' = 0 /\ UNCHANGED rx_ring_offset
rtl_config_rx ==
    /\ RCR' = RxMode(ifflags) /\ ResetRing
    /\ rx_cur_address' = 0 /\ rx_ring_offset' = 0

(* rtl_interrupts looks at the overflow next, then at the link.            *)
AfterReceive == IF "RXOVW" \in isr THEN "clearOvw" ELSE "link"

rtl_int_handler ==
    /\ lineOn /\ IMR /\ irq = "idle" /\ ISR # {}
    /\ isr' = ISR /\ irq' = "ack"
    /\ UNCHANGED <<cardVars, rx_cur_address, rx_ring_offset, ifflags, drvStatus, lineOn, op, restarts,
                   bufVars, threadVars>>

AckInterrupt ==
    /\ irq = "ack" /\ ISR' = ISR \ isr
    /\ irq' = IF "ROK" \in isr THEN "receive" ELSE AfterReceive
    /\ UNCHANGED <<unread, CBR, CAPR, RE, TE, IMR, RCR, OWN, linkUp, arrived, links,
                   rx_cur_address, rx_ring_offset, ifflags, drvStatus, lineOn, isr, op, restarts,
                   bufVars, threadVars>>

(* One frame: the packet is filled and queued, then the frame is skipped.  *)
(* A failure ends the loop; the packet a full queue refuses is not given   *)
(* back.                                                                   *)
LoopEndsEarly == TRUE
LoopEnds == BUFE

(* The ring is 32 Kbytes, the offset is taken back when it leaves it.      *)
OffsetBackLate(len) ==
    LET o == rx_ring_offset + Aligned(len)
    IN  IF o > RBLEN_SIZE THEN o - RBLEN_SIZE ELSE o
OffsetAfter(len) ==
    LET o == rx_ring_offset + Aligned(len)
    IN  IF o >= RBLEN_SIZE THEN o - RBLEN_SIZE ELSE o

SkipFrame(len) ==
    /\ rx_cur_address' = (rx_cur_address + Aligned(len)) % AddressSpace
    /\ rx_ring_offset' = OffsetAfter(len)
    /\ CAPR' = (rx_cur_address + Aligned(len) - CAPR_DATA_OFF + AddressSpace) % AddressSpace
    /\ unread' = Tail(unread) /\ UNCHANGED irq

HeaderAt(o) ==
    IF unread # <<>> /\ Head(unread).at = o THEN Head(unread) ELSE NoFrame

rtl_receive_packets ==
    LET rx_pkt == HeaderAt(rx_ring_offset)
    IN  /\ irq = "receive" /\ ~BUFE
        /\ IF ~rx_pkt.ok THEN SkipFrame(rx_pkt.len) /\ UNCHANGED bufVars
           ELSE \E pkt \in netbuf_get : IF pkt = NoPacket
           THEN irq' = "clear" /\ UNCHANGED <<rx_cur_address, rx_ring_offset, CAPR, unread, bufVars>>
           ELSE /\ pkts_tail' = PoolStep(pkts_tail)
                /\ frameOf' = netbuf_copy_eth(rx_pkt, pkt)
                /\ UNCHANGED <<pkts_head, out_cb>>
                /\ IF cbuffer_is_full(in_cb)
                   THEN /\ irq' = "clear"
                        /\ UNCHANGED <<rx_cur_address, rx_ring_offset, CAPR, unread, in_cb, netb>>
                   ELSE /\ in_cb' = cbuffer_add(Store(in_cb, pkt)) /\ netb' = TRUE
                        /\ SkipFrame(rx_pkt.len)
        /\ UNCHANGED <<CBR, RE, TE, IMR, RCR, OWN, ISR, linkUp, arrived, links,
                       ifflags, drvStatus, lineOn, isr, op, restarts, threadVars>>

ReceiveEnds ==
    /\ irq = "receive" /\ LoopEnds /\ irq' = AfterReceive
    /\ UNCHANGED <<cardVars, rx_cur_address, rx_ring_offset, ifflags, drvStatus, lineOn, isr, op, restarts,
                   bufVars, threadVars>>

(* rtl_clear_rx disables the receiver and enables it again, and configures *)
(* it: a frame may come in between.                                        *)
rtl_clear_rx ==
    /\ irq \in {"clear", "clearOvw"} /\ rtl_config_rx
    /\ irq' = IF irq = "clear" THEN AfterReceive ELSE "link"
    /\ UNCHANGED <<RE, TE, IMR, OWN, ISR, linkUp, arrived, links, ifflags, drvStatus, lineOn, isr,
                   op, restarts, bufVars, threadVars>>

(* A change of the link is told from an underrun by what was known of it.  *)
LinkToggled(flags) == IF "UP" \in flags THEN flags \ {"UP"} ELSE flags \cup {"UP"}
LinkFlags(flags) == IF linkUp THEN flags \cup {"UP"} ELSE flags \ {"UP"}
rtl_interrupts_link ==
    /\ irq = "link" /\ irq' = "idle" /\ isr' = {}
    /\ ifflags' = IF "PUN" \in isr THEN LinkFlags(ifflags) ELSE ifflags
    /\ UNCHANGED <<cardVars, rx_cur_address, rx_ring_offset, drvStatus, lineOn, op, restarts,
                   bufVars, threadVars>>

(***************************************************************************)
(* rtl_start and rtl_stop, called by a thread: interrupts come between     *)
(* their steps.                                                            *)
(***************************************************************************)
Thr == irq = "idle"

rtl_set_interrupt_mask == IMR' = TRUE

(* The value read, with the OWN bit kept, is replaced and not combined.    *)
rtl_config_tx == OWN' = FALSE

(* rtl_reset_hw, then interrupts are unmasked and the transmitter is set   *)
(* up: the descriptors are written without their OWN bit.  rtl_start does  *)
(* not look whether it has been called: its callers start a card that does *)
(* not run.                                                                *)
ResetAndConfigTx ==
    /\ Thr /\ op = "idle" /\ drvStatus # "RUN"
    /\ op' = "rx" /\ ISR' = {} /\ RE' = FALSE /\ TE' = FALSE /\ RCR' = {}
    /\ rtl_set_interrupt_mask /\ rtl_config_tx /\ ResetRing
    /\ UNCHANGED <<linkUp, arrived, links, rx_cur_address, rx_ring_offset, ifflags, drvStatus,
                   lineOn, irq, isr, restarts, bufVars, threadVars>>

ConfigRx ==
    /\ Thr /\ op = "rx" /\ op' = "go" /\ rtl_config_rx
    /\ UNCHANGED <<RE, TE, IMR, OWN, ISR, linkUp, arrived, links, ifflags, drvStatus, lineOn, irq,
                   isr, restarts, bufVars, threadVars>>

rtl_start ==
    /\ Thr /\ op = "go" /\ op' = "idle"
    /\ RE' = TRUE /\ TE' = TRUE /\ lineOn' = TRUE /\ drvStatus' = "RUN"
    /\ UNCHANGED <<unread, CBR, CAPR, IMR, RCR, OWN, ISR, linkUp, arrived, links, rx_cur_address,
                   rx_ring_offset, ifflags, irq, isr, restarts, bufVars, threadVars>>

rtl_clear_interrupt_mask ==
    /\ Thr /\ op = "idle" /\ drvStatus = "RUN" /\ Extra
    /\ op' = "off" /\ IMR' = FALSE /\ restarts' = restarts + 1
    /\ UNCHANGED <<unread, CBR, CAPR, RE, TE, RCR, OWN, ISR, linkUp, arrived, links, rx_cur_address,
                   rx_ring_offset, ifflags, drvStatus, lineOn, irq, isr, bufVars, threadVars>>

rtl_stop ==
    /\ Thr /\ op = "off" /\ op' = "idle"
    /\ RE' = FALSE /\ TE' = FALSE /\ lineOn' = FALSE /\ drvStatus' = "STOP"
    /\ UNCHANGED <<unread, CBR, CAPR, IMR, RCR, OWN, ISR, linkUp, arrived, links, rx_cur_address,
                   rx_ring_offset, ifflags, irq, isr, restarts, bufVars, threadVars>>

(* rtl_done resets the card.                                               *)
rtl_done ==
    /\ Thr /\ op = "idle" /\ drvStatus = "STOP"
    /\ drvStatus' = "DONE" /\ IMR' = FALSE /\ ISR' = {} /\ OWN' = TRUE /\ RCR' = {} /\ ResetRing
    /\ UNCHANGED <<RE, TE, linkUp, arrived, links, rx_cur_address, rx_ring_offset, ifflags, lineOn,
                   irq, isr, op, restarts, bufVars, threadVars>>

(***************************************************************************)
(* The network thread: network_core_main_entry.                            *)
(***************************************************************************)
Others == UNCHANGED <<cardVars, driverVars, app, appPkt, sends>>

(* The loop goes on unless both queues were empty.                         *)
KeepOn(n) == IF n = "outOnly" THEN "wait" ELSE "in"

(* netbuf_wait waits for the barrier, then closes it.                      *)
netbuf_wait ==
    /\ Thr /\ net = "wait" /\ netb /\ net' = "close"
    /\ UNCHANGED <<held, lastIn, bufVars>> /\ Others
BarrierCloses ==
    /\ Thr /\ net = "close" /\ netb' = FALSE /\ net' = "in"
    /\ UNCHANGED <<held, lastIn, pkts_head, pkts_tail, frameOf, in_cb, out_cb>> /\ Others

ProcessesNewest ==
    /\ Thr /\ net = "in" /\ ~cbuffer_is_empty(in_cb)
    /\ LET last == (in_cb.tail + packets - 1) % packets
       IN  /\ held' = in_cb.buf[last] /\ lastIn' = frameOf[held']
           /\ in_cb' = [in_cb EXCEPT !.tail = last, !.buf[last] = NoPacket] /\ net' = "putIn"
    /\ UNCHANGED <<pkts_head, pkts_tail, frameOf, out_cb, netb>> /\ Others
netbuf_process_in ==
    /\ Thr /\ net = "in"
    /\ IF cbuffer_is_empty(in_cb)
       THEN net' = "outOnly" /\ UNCHANGED <<held, lastIn, in_cb>>
       ELSE /\ held' = in_cb.buf[in_cb.head] /\ lastIn' = frameOf[held']
            /\ in_cb' = cbuffer_remove(in_cb) /\ net' = "putIn"
    /\ UNCHANGED <<pkts_head, pkts_tail, frameOf, out_cb, netb>> /\ Others

netbuf_process_out ==
    /\ Thr /\ net \in {"out", "outOnly"}
    /\ IF cbuffer_is_empty(out_cb)
       THEN net' = KeepOn(net) /\ UNCHANGED <<held, out_cb>>
       ELSE /\ held' = out_cb.buf[out_cb.head]
            /\ out_cb' = cbuffer_remove(out_cb) /\ net' = "putOut"
    /\ UNCHANGED <<lastIn, pkts_head, pkts_tail, frameOf, in_cb, netb>> /\ Others

(* Packets are given back to the pool once they have been processed; one   *)
(* the pool refuses is nobody's from then on.                              *)
netbuf_put ==
    /\ Thr /\ net \in {"putIn", "putOut"}
    /\ pakman_put_packet(held) /\ held' = NoPacket
    /\ net' = IF net = "putIn" THEN "out" ELSE "in"
    /\ UNCHANGED <<lastIn, pkts_tail, in_cb, out_cb, netb>> /\ Others

(***************************************************************************)
(* Threads that send: netbuf_get, then netbuf_out, whose test and copy,    *)
(* cbuffer_add and barrier_open are three steps.                           *)
(***************************************************************************)
AppStays == UNCHANGED <<cardVars, driverVars, net, held, lastIn>>

AppGets(a) ==
    /\ Thr /\ app[a] = "idle" /\ Extra
    /\ \E pkt \in netbuf_get \ {NoPacket} : appPkt' = [appPkt EXCEPT ![a] = pkt]
    /\ pkts_tail' = PoolStep(pkts_tail)
    /\ app' = [app EXCEPT ![a] = "store"] /\ sends' = sends + 1
    /\ UNCHANGED <<pkts_head, frameOf, in_cb, out_cb, netb>> /\ AppStays

(* A full queue rejects the packet, and the thread gives it back.          *)
netbuf_out(a) ==
    /\ Thr /\ app[a] = "store"
    /\ IF cbuffer_is_full(out_cb)
       THEN /\ pakman_put_packet(appPkt[a]) /\ appPkt' = [appPkt EXCEPT ![a] = NoPacket]
            /\ app' = [app EXCEPT ![a] = "idle"] /\ UNCHANGED out_cb
       ELSE /\ out_cb' = Store(out_cb, appPkt[a])
            /\ app' = [app EXCEPT ![a] = "add"] /\ UNCHANGED <<pkts_head, frameOf, appPkt>>
    /\ UNCHANGED <<sends, pkts_tail, in_cb, netb>> /\ AppStays

OutAdds(a) ==
    /\ Thr /\ app[a] = "add" /\ app' = [app EXCEPT ![a] = "open"]
    /\ out_cb' = cbuffer_add(out_cb) /\ appPkt' = [appPkt EXCEPT ![a] = NoPacket]
    /\ UNCHANGED <<sends, pkts_head, pkts_tail, frameOf, in_cb, netb>> /\ AppStays

OutOpens(a) ==
    /\ Thr /\ app[a] = "open" /\ app' = [app EXCEPT ![a] = "idle"] /\ netb' = TRUE
    /\ UNCHANGED <<appPkt, sends, pkts_head, pkts_tail, frameOf, in_cb, out_cb>> /\ AppStays

Init ==
    /\ unread = <<>>
    /\ CBR = 0 /\ CAPR = AddressSpace - CAPR_DATA_OFF /\ RE = FALSE /\ TE = FALSE /\ IMR = FALSE
    /\ RCR = {} /\ OWN = TRUE /\ ISR = {} /\ linkUp = FALSE /\ arrived = 0 /\ links = 0
    /\ rx_cur_address = 0 /\ rx_ring_offset = 0
    /\ ifflags = {"BROADCAST"} /\ drvStatus = "INIT" /\ lineOn = FALSE
    /\ irq = "idle" /\ isr = {} /\ op = "idle" /\ restarts = 0
    /\ netbuf_init
    /\ net = "wait" /\ held = NoPacket /\ lastIn = 0
    /\ app = [a \in App |-> "idle"] /\ appPkt = [a \in App |-> NoPacket] /\ sends = 0

Handler ==
    \/ rtl_int_handler \/ AckInterrupt \/ rtl_receive_packets \/ ReceiveEnds \/ rtl_clear_rx
    \/ rtl_interrupts_link
Driver == ResetAndConfigTx \/ ConfigRx \/ rtl_start \/ rtl_clear_interrupt_mask \/ rtl_stop \/ rtl_done
NetworkThread ==
    netbuf_wait \/ BarrierCloses \/ netbuf_process_in \/ netbuf_process_out \/ netbuf_put
Sender(a) == AppGets(a) \/ netbuf_out(a) \/ OutAdds(a) \/ OutOpens(a)

Next ==
    \/ FrameArrives \/ LinkChanges \/ Handler \/ Driver \/ NetworkThread
    \/ \E a \in App : Sender(a)

Spec == Init /\ [][Next]_vars

(* The network thread and the handler go on; the application may stop      *)
(* anywhere but inside a call.                                             *)
Fairness ==
    /\ WF_vars(Handler) /\ WF_vars(NetworkThread)
    /\ \A a \in App : WF_vars(OutAdds(a) \/ OutOpens(a))
FairSpec == Spec /\ Fairness

(***************************************************************************)
(* Properties.                                                             *)
(***************************************************************************)

(* rtl_receive_packets reads a header at rx_ring_offset whenever the card  *)
(* says the ring is not empty: it is the oldest frame not yet read,        *)
(* however often the ring wrapped, overflowed or was set back.             *)
RingInStep ==
    irq = "receive" /\ ~BUFE => unread # <<>> /\ rx_ring_offset = Head(unread).at

(* rtl_int_handler clears the interrupts before it reads the ring: a frame *)
(* in the ring of a running card has its interrupt pending, or the handler *)
(* is about to read it.                                                    *)
FramesPending ==
    unread # <<>> /\ IMR /\ lineOn /\ irq \in {"idle", "link"} => "ROK" \in ISR

(* Frames go through the IN queue in order of arrival and none of them     *)
(* twice: the queue is written by the handler and read by the network      *)
(* thread without a lock ("contention free by design", net_buffers.c).     *)
InOrder ==
    LET q == Queue(in_cb)
    IN  /\ \A i \in 1 .. Len(q) - 1 : frameOf[q[i]] < frameOf[q[i + 1]]
        /\ q # <<>> => frameOf[q[1]] > lastIn

(* Whatever the pool refuses to take back, it never hands out a packet     *)
(* that somebody still has: a packet is free or has one owner or none.     *)
Owners(p) ==
    Cardinality({i \in DOMAIN Queue(in_cb) : Queue(in_cb)[i] = p})
    + Cardinality({i \in DOMAIN Queue(out_cb) : Queue(out_cb)[i] = p})
    + Cardinality({a \in App : appPkt[a] = p})
    + (IF held = p THEN 1 ELSE 0) + (IF p \in free THEN 1 ELSE 0)
PacketsOwned == \A p \in Packet : Owners(p) <= 1

(* While nobody sends and the IN queue has refused no packet, the network  *)
(* thread gives packets back in the order the handler took them, so that   *)
(* the pool, which takes back the oldest only, takes every one of them.    *)
OldestGivenBack ==
    sends = 0 /\ (\A p \in Packet : Owners(p) = 1) /\ net = "putIn" => held = pkts_head

(* net_buffers.h: netbuf_wait "will not suspend if IN or OUT queues have   *)
(* packets available for processing": the barrier is open, or the thread   *)
(* that queued the packet is about to open it.                             *)
StackAwake ==
    net = "wait" /\ ~netb => /\ cbuffer_is_empty(in_cb)
                             /\ cbuffer_is_empty(out_cb) \/ \E a \in App : app[a] = "open"

(* IFF_UP of the interface is the state of the link once the handler has   *)
(* seen its last change, in a driver that has been started once.           *)
LinkKnown ==
    restarts = 0 /\ drvStatus = "RUN" /\ irq = "idle" /\ "PUN" \notin ISR => (linkUp <=> "UP" \in ifflags)

(* Between the card of rtl8139.c and the network thread: the ring is read  *)
(* where the card wrote, no frame is left behind an acknowledged           *)
(* interrupt, packets arrive in order, have one owner at most and are      *)
(* given back in order, the thread is awake while a queue has one, and the *)
(* link is known.                                                          *)
NetworkSound ==
    /\ NetTypeOK
    /\ RingInStep
    /\ FramesPending
    /\ InOrder
    /\ PacketsOwned
    /\ OldestGivenBack
    /\ StackAwake
    /\ LinkKnown

(* What is queued is processed.                                            *)
QueuesDrain ==
    /\ ~cbuffer_is_empty(in_cb) ~> cbuffer_is_empty(in_cb)
    /\ ~cbuffer_is_empty(out_cb) ~> cbuffer_is_empty(out_cb)

(* net_buffers.h: "The packet must have been retrieved by calling          *)
(* netbuf_get()", "in case of failure [...] the packet is rejected": its   *)
(* owner has to give it back; no packet is ever lost.                      *)
NoneLeaked == \A p \in Packet : Owners(p) = 1

(* The same of the packets that are received and sent and fit the queues:  *)
(* the pool takes back what the network thread has processed.              *)
PutAccepted == net \in {"putIn", "putOut"} => held = pkts_head

(* rtl8139.c, rtl_link_status: "Detect link status changes and configure   *)
(* the card accordingly": the interface of a running driver knows the link *)
(* whatever happened before it was started again.                          *)
LinkDetected ==
    drvStatus = "RUN" /\ irq = "idle" /\ "PUN" \notin ISR => (linkUp <=> "UP" \in ifflags)

(* rtl8139.c, rtl_config_tx: "Keep reserved bits and OWN bit".             *)
OwnKept == drvStatus = "RUN" => OWN
================================================================================
