----------------------------- MODULE CharDrivers ------------------------------
(***************************************************************************)
(* Character drivers with ring buffers, and their callers: the serial line *)
(* (drivers/ti16550d), keyboard and mouse (drivers/i8042), on top of the   *)
(* I/O waits and of include/libs/cbuffers.h.                               *)
(*                                                                         *)
(* One of the devices is in use, dev; each thread has one thing to do with *)
(* it, job.  The ring and the hardware FIFO of the receiver hold bytes,    *)
(* numbered modulo 2 as they arrive, and so does the ring of the           *)
(* transmitter; sizes are constants.  A test of a ring and what follows,   *)
(* the wait of a reader or a writer and the registration of a poll, are    *)
(* steps of their own, and interrupts fall between them when Races is      *)
(* TRUE.  The thread's copy out of or into a ring is one step with the     *)
(* test before it: only an interrupt could interleave, and it moves the    *)
(* other end of the ring.                                                  *)
(*                                                                         *)
(* Definitions that come just before a helper with the same parameters are *)
(* mistakes the code could have made; no specification uses them.          *)
(***************************************************************************)
EXTENDS IoWaits, TLC

CONSTANTS
    Device,     \* among "uart", "kbd", "mouse"
    Job,        \* what threads do, among "read", "write", "poll", "timed",
                \* "none"
    Sharing,    \* whether threads with different jobs, or that poll, share the
                \* device
    BUF_SIZE,   \* size of the rings
    RX_SEQ_MAX, \* bytes in the receiver FIFO that raise an interrupt
    TX_SEQ_MAX, \* bytes an interrupt gives the transmitter, and the room a
                \* writer waits for
    FifoSize,   \* size of the receiver FIFO
    Bytes,      \* how many bytes a call asks for
    PollTimes,  \* timeout arguments of poll, 0 is a negative one (for ever)
    Races,      \* whether an interrupt may come between a test and the wait
                \* or the registration that follows
    Stops,      \* whether the driver is stopped and started again while
                \* threads write
    KillIo      \* whether threads that wait are killed

ASSUME DriversAssumption ==
    /\ BUF_SIZE \in Nat \ {0, 1} /\ Races \in BOOLEAN /\ Stops \in BOOLEAN
    /\ TX_SEQ_MAX \in 1 .. BUF_SIZE - 1 /\ RX_SEQ_MAX \in Nat
    /\ FifoSize \in Nat \ {0} /\ Bytes \subseteq Nat /\ PollTimes \subseteq Nat
    /\ {"r", "w"} \subseteq WaitQueue

VARIABLES
    dev, job,   \* chosen at the start
    rx, tx,     \* the rings: [head, tail, buf]
    rxq, txq,   \* the bytes accepted and not yet taken, for the properties
    fifo,       \* the receiver FIFO
    line,       \* the number of the next byte of the line
    next,       \* the number of the next byte of the writers
    etbei,      \* the transmitter interrupt is enabled
    running,    \* DRV_STATUS_RUN: interrupts are not masked
    pc,         \* where each thread is
    left,       \* bytes its write has left
    result      \* what the last poll of each thread returned, and before that
                \* what its test of the device has found

driverVars == <<dev, job, rx, tx, rxq, txq, fifo, line, next, etbei, running, pc, left, result>>
vars == <<threadsVars, ioVars, driverVars>>

(***************************************************************************)
(* cbuffers.h                                                              *)
(***************************************************************************)
cbuffer_init == [head |-> 0, tail |-> 0, buf |-> [i \in 0 .. BUF_SIZE - 1 |-> 0]]
cbuffer_is_empty(c) == c.head = c.tail

FreeWholeRing(c) ==
    IF c.head <= c.tail THEN BUF_SIZE - c.tail + c.head ELSE c.head - c.tail - 1
cbuffer_free_space(c) ==
    IF c.head <= c.tail THEN BUF_SIZE - c.tail + c.head - 1 ELSE c.head - c.tail - 1
cbuffer_in_use(c) ==
    IF c.head <= c.tail THEN c.tail - c.head ELSE BUF_SIZE - c.head + c.tail

(* cbuffer_add_n and cbuffer_remove_n: an index has passed the end at most *)
(* once.                                                                   *)
WrapLate(i) == IF i > BUF_SIZE THEN i - BUF_SIZE ELSE i
Wrap(i) == IF i >= BUF_SIZE THEN i - BUF_SIZE ELSE i

(* The bytes of s are stored at the tail, one by one.                      *)
Stored(c, s) ==
    [c EXCEPT !.tail = Wrap(@ + Len(s)),
              !.buf = [i \in DOMAIN @ |->
                  IF \E j \in DOMAIN s : Wrap(c.tail + j - 1) = i
                  THEN s[CHOOSE j \in DOMAIN s : Wrap(c.tail + j - 1) = i] ELSE @[i]]]
Contents(c) == [j \in 1 .. cbuffer_in_use(c) |-> c.buf[Wrap(c.head + j - 1)]]
Removed(c, n) == [c EXCEPT !.head = Wrap(@ + n)]

Least(a, b) == IF a < b THEN a ELSE b
Numbers(from, n) == [j \in 1 .. n |-> (from + j - 1) % 2]

Ring == [head : 0 .. BUF_SIZE - 1, tail : 0 .. BUF_SIZE - 1, buf : [0 .. BUF_SIZE - 1 -> {0, 1}]]

Place == {"app", "rd", "rdz", "wr", "wrz", "tested", "linked", "poll", "pollz", "polled", "timed"}

RingsTypeOK == rx \in Ring /\ tx \in Ring /\ Len(fifo) <= FifoSize

CallersTypeOK ==
    /\ IoTypeOK
    /\ pc \in [Thread -> Place]

Init ==
    /\ IoInit /\ status = [t \in Thread |-> "READY"]
    /\ dev \in Device /\ job \in [Thread -> Job]
    /\ Sharing \/ \A t, u \in Thread : t # u =>
            "none" \in {job[t], job[u]} \/ (job[t] = job[u] /\ job[t] # "poll")
    /\ \A t \in Thread : job[t] = "write" => dev = "uart"
    /\ \A t \in Thread : job[t] = "read" => dev # "mouse"
    /\ rx = cbuffer_init /\ tx = cbuffer_init /\ rxq = <<>> /\ txq = <<>>
    /\ fifo = <<>> /\ line = 0 /\ next = 0
    /\ etbei = FALSE /\ running = TRUE
    /\ pc = [t \in Thread |-> "app"]
    /\ left = [t \in Thread |-> 0]
    /\ result = [t \in Thread |-> "none"]

Quiet == UNCHANGED <<dev, job>>
(***************************************************************************)
(* Interrupts.  None comes while the driver is stopped, nor, when Races is *)
(* FALSE, while a thread is between its test and its wait, or the item for *)
(* input of its poll.                                                      *)
(***************************************************************************)
Unready(t) ==
    \/ pc[t] \in {"rdz", "wrz"}
    \/ pc[t] = "tested" /\ table[t] = <<>>
    \/ pc[t] = "linked" /\ Len(table[t]) = 1
IntOn == running /\ (Races \/ \A t \in Thread : ~Unready(t))

LineReceives ==
    /\ \E t \in Thread : job[t] \in {"read", "poll", "timed"}
    /\ dev = "uart" => Len(fifo) < FifoSize
    /\ dev # "uart" => fifo = <<>>
    /\ fifo' = Append(fifo, line)
    /\ line' = (line + 1) % 2
    /\ UNCHANGED <<threadsVars, ioVars, rx, tx, rxq, txq, next, etbei, running, pc, left, result>>
    /\ Quiet

(* The first n bytes of the FIFO are read, and the first m of them kept.   *)
Receive(n, m, resume) ==
    /\ fifo' = SubSeq(fifo, n + 1, Len(fifo))
    /\ rx' = Stored(rx, SubSeq(fifo, 1, m))
    /\ rxq' = rxq \o SubSeq(fifo, 1, m)
    /\ IF resume THEN thread_io_resume("r") ELSE UNCHANGED ioVars
    /\ UNCHANGED <<threadsVars, tx, txq, line, next, etbei, running, pc, left, result>>
    /\ Quiet

(* A full ring drops what the FIFO holds; otherwise bytes are read as long *)
(* as there is room.                                                       *)
uart_handle_recv_data_fifo ==
    LET room == cbuffer_free_space(rx)
    IN  /\ IntOn /\ dev = "uart" /\ Len(fifo) >= RX_SEQ_MAX
        /\ IF room = 0 THEN Receive(Len(fifo), 0, TRUE)
           ELSE Receive(Least(room, Len(fifo)), Least(room, Len(fifo)), TRUE)

uart_handle_recv_data_timeout ==
    LET n == Least(cbuffer_free_space(rx), Len(fifo))
    IN  /\ IntOn /\ dev = "uart" /\ Len(fifo) \in 1 .. RX_SEQ_MAX - 1
        /\ Receive(n, n, TRUE)

NoResume == FALSE
kbd_resumes == TRUE

kbd_interrupt ==
    /\ IntOn /\ dev = "kbd" /\ fifo # <<>>
    /\ Receive(1, Least(1, cbuffer_free_space(rx)), kbd_resumes)

(* A byte of the mouse stays in the controller when the ring is full; the  *)
(* waiting threads are told of complete packets of three bytes.            *)
mse_interrupt ==
    LET n == Least(1, cbuffer_free_space(rx))
    IN  /\ IntOn /\ dev = "mouse" /\ fifo # <<>>
        /\ Receive(n, n, (cbuffer_in_use(rx) + n) % 3 = 0)

(* enable_uart_tx and disable_uart_tx.                                     *)
EnableUartTx(on) == etbei' = on

(* The transmitter takes bytes, and its interrupt is disabled when none    *)
(* are left.                                                               *)
uart_handle_tx_data ==
    LET n == Least(TX_SEQ_MAX, cbuffer_in_use(tx))
    IN  /\ IntOn /\ etbei
        /\ tx' = Removed(tx, n)
        /\ txq' = SubSeq(txq, n + 1, Len(txq))
        /\ EnableUartTx(~cbuffer_is_empty(tx'))
        /\ thread_io_resume("w")
        /\ UNCHANGED <<threadsVars, rx, rxq, fifo, line, next, running, pc, left, result>>
        /\ Quiet

(***************************************************************************)
(* uart_read and kbd_read, for the thread t.                               *)
(***************************************************************************)
Moves(t, at, to) == current = t /\ pc[t] = at /\ pc' = [pc EXCEPT ![t] = to]

ReadFinds(t) ==
    /\ Moves(t, "rd", "rdz") /\ cbuffer_is_empty(rx)
    /\ UNCHANGED <<threadsVars, ioVars, rx, tx, rxq, txq, fifo, line, next, etbei, running, left, result>>
    /\ Quiet

(* Bytes up to the end of the ring first, then the others.                 *)
CopiedAtOnce(n) == [j \in 1 .. n |-> IF rx.head + j - 1 < BUF_SIZE THEN rx.buf[rx.head + j - 1] ELSE 0]
Copied(n) == SubSeq(Contents(rx), 1, n)

ReadCopies(t, bytes) ==
    LET n == Least(bytes, cbuffer_in_use(rx))
    IN  /\ Moves(t, "rd", "app") /\ ~cbuffer_is_empty(rx)
        /\ rx' = Removed(rx, n)
        /\ rxq' = IF Copied(n) = SubSeq(rxq, 1, n) THEN SubSeq(rxq, n + 1, Len(rxq)) ELSE <<"lost">>
        /\ UNCHANGED <<threadsVars, ioVars, tx, txq, fifo, line, next, etbei, running, left, result>>
        /\ Quiet

(* thread_io_wait on the queue of the reader or of the writer; the loop    *)
(* tests again when it returns.                                            *)
Waits(t, at, to, q) ==
    /\ Moves(t, at, to)
    /\ thread_io_wait(q, 0)
    /\ UNCHANGED <<rx, tx, rxq, txq, fifo, line, next, etbei, running, left, result>>
    /\ Quiet

(***************************************************************************)
(* uart_write.                                                             *)
(***************************************************************************)
WriteFinds(t) ==
    /\ Moves(t, "wr", "wrz") /\ cbuffer_free_space(tx) < TX_SEQ_MAX
    /\ UNCHANGED <<threadsVars, ioVars, rx, tx, rxq, txq, fifo, line, next, etbei, running, left, result>>
    /\ Quiet

TrimForgotten(n) == Least(n, cbuffer_free_space(tx) + 1)
Trimmed(n) == Least(Least(n, cbuffer_free_space(tx)), BUF_SIZE - tx.tail)

WriteCopies(t) ==
    LET n == Trimmed(left[t])
    IN  /\ Moves(t, "wr", IF left[t] = n THEN "app" ELSE "wr")
        /\ cbuffer_free_space(tx) >= TX_SEQ_MAX
        /\ tx' = Stored(tx, Numbers(next, n))
        /\ txq' = txq \o Numbers(next, n)
        /\ next' = (next + n) % 2
        /\ left' = [left EXCEPT ![t] = @ - n]
        /\ EnableUartTx(TRUE)
        /\ UNCHANGED <<threadsVars, ioVars, rx, rxq, fifo, line, running, result>>
        /\ Quiet

(***************************************************************************)
(* poll on the device, for input (POLLIN).  The driver (uart_poll,         *)
(* kbd_poll, mse_poll) tests its ring and then registers with its queues;  *)
(* poll looks whether something was signalled, and sleeps.                 *)
(***************************************************************************)
PollQueues == IF dev = "uart" THEN <<"r", "w">> ELSE <<"r">>
Readable == ~cbuffer_is_empty(rx)

PollTests(t) ==
    /\ Moves(t, "app", "tested") /\ job[t] = "poll"
    /\ signalled' = signalled \ {t}
    /\ result' = [result EXCEPT ![t] = IF Readable THEN "found" ELSE "empty"]
    /\ UNCHANGED <<threadsVars, wq, links, used, item, bits, pbits, table, stage>>
    /\ UNCHANGED <<rx, tx, rxq, txq, fifo, line, next, etbei, running, left>>
    /\ Quiet

PollLinks(t) ==
    /\ Moves(t, "tested", "linked")
    /\ poll_links(t, PollQueues[Len(table[t]) + 1])
    /\ UNCHANGED <<threadsVars, rx, tx, rxq, txq, fifo, line, next, etbei, running, left, result>>
    /\ Quiet

AllLinked(t) == Len(table[t]) = Len(PollQueues)

PollFills(t) ==
    /\ Moves(t, "linked", IF AllLinked(t) THEN "poll" ELSE "tested")
    /\ poll_fills(t, AllLinked(t) /\ result[t] = "found")
    /\ UNCHANGED <<threadsVars, rx, tx, rxq, txq, fifo, line, next, etbei, running, left, result>>
    /\ Quiet

PollLooks(t) ==
    /\ Moves(t, "poll", "pollz") /\ t \notin signalled
    /\ UNCHANGED <<threadsVars, ioVars, rx, tx, rxq, txq, fifo, line, next, etbei, running, left, result>>
    /\ Quiet

PollSleeps(t) ==
    /\ Moves(t, "pollz", "polled")
    /\ \E m \in PollTimes : now + m <= MaxTime /\ poll_sleep(m)
    /\ result' = [result EXCEPT ![t] = "slept"]
    /\ UNCHANGED <<rx, tx, rxq, txq, fifo, line, next, etbei, running, left>>
    /\ Quiet

PollReturns(t) ==
    /\ \/ Moves(t, "polled", "app")
       \/ Moves(t, "poll", "app") /\ t \in signalled
    /\ cleanup(t)
    /\ result' = [result EXCEPT ![t] = IF Readable THEN "ready" ELSE "timedout"]
    /\ UNCHANGED <<threadsVars, rx, tx, rxq, txq, fifo, line, next, etbei, running, left>>
    /\ Quiet

(* A wait with a timeout, outside any driver.                              *)
TimedWaits(t) ==
    /\ Moves(t, "app", "timed") /\ job[t] = "timed"
    /\ now + 1 <= MaxTime /\ thread_io_wait("r", 1)
    /\ UNCHANGED <<rx, tx, rxq, txq, fifo, line, next, etbei, running, left, result>>
    /\ Quiet

TimedReturns(t) ==
    /\ Moves(t, "timed", "app")
    /\ \E P \in Alike :
        result' = [result EXCEPT ![t] = IF TimedOut(t, "r", P) THEN "timedout" ELSE "ready"]
    /\ UNCHANGED <<threadsVars, ioVars, rx, tx, rxq, txq, fifo, line, next, etbei, running, left>>
    /\ Quiet

(***************************************************************************)
(* The rest of what threads do, and the scheduler.                         *)
(***************************************************************************)
Calls(t) ==
    /\ \/ Moves(t, "app", "rd") /\ job[t] = "read" /\ UNCHANGED left
       \/ /\ Moves(t, "app", "wr") /\ job[t] = "write"
          /\ \E n \in Bytes : left' = [left EXCEPT ![t] = n]
    /\ UNCHANGED <<threadsVars, ioVars, rx, tx, rxq, txq, fifo, line, next, etbei, running, result>>
    /\ Quiet

GivesUp(t) ==
    /\ Moves(t, "app", "app") /\ Yield /\ stage' = "io"
    /\ UNCHANGED <<wq, links, used, item, bits, pbits, table, signalled>>
    /\ UNCHANGED <<rx, tx, rxq, txq, fifo, line, next, etbei, running, left, result>>
    /\ Quiet

(* uart_start leaves the transmitter interrupt off, whatever the ring of   *)
(* the transmitter holds.                                                  *)
StopStart(t) ==
    /\ Moves(t, "app", "app")
    /\ Stops \/ \A u \in Thread : job[u] # "write"
    /\ running' = ~running
    /\ etbei' = ~running'
    /\ UNCHANGED <<threadsVars, ioVars, rx, tx, rxq, txq, fifo, line, next, left, result>>
    /\ Quiet

KillWaiter(t) ==
    /\ KillIo /\ current # NoThread /\ pc[current] = "app"
    /\ status[t] = "WAITING" /\ "COMPLETION" \in waits[t]
    /\ Kill(t) /\ cancel_io_waits(t)
    /\ UNCHANGED driverVars

Thinks(t) ==
    \/ Calls(t) \/ GivesUp(t) \/ StopStart(t)
    \/ ReadFinds(t) \/ Waits(t, "rdz", "rd", "r") \/ \E n \in Bytes : ReadCopies(t, n)
    \/ WriteFinds(t) \/ Waits(t, "wrz", "wr", "w") \/ WriteCopies(t)
    \/ PollTests(t) \/ PollLinks(t) \/ PollFills(t)
    \/ PollLooks(t) \/ PollSleeps(t) \/ PollReturns(t)
    \/ TimedWaits(t) \/ TimedReturns(t)

Pass ==
    \/ (ResumeIo \/ ResumePoll) /\ UNCHANGED driverVars
    \/ /\ current = NoThread /\ stage = "done"
       /\ \A t \in Thread : status[t] # "READY"
       /\ stage' = "io"
       /\ UNCHANGED <<threadsVars, wq, links, used, item, bits, pbits, table, signalled, driverVars>>
    \/ \E t \in Thread :
        /\ stage = "done"
        /\ Timeout(t) \/ Dispatch(t) \/ Bury(t)
        /\ UNCHANGED <<ioVars, driverVars>>

Interrupt ==
    \/ uart_handle_recv_data_fifo \/ uart_handle_recv_data_timeout
    \/ uart_handle_tx_data \/ kbd_interrupt \/ mse_interrupt

Next ==
    \/ LineReceives \/ Interrupt \/ Pass
    \/ /\ \E t \in Thread : "TIMEOUT" \in waits[t]     \* nobody else reads the clock
       /\ Tick /\ UNCHANGED <<ioVars, driverVars>>
    \/ \E t \in Thread : Thinks(t) \/ KillWaiter(t)

Spec == Init /\ [][Next]_vars

(* Threads are alike.                                                      *)
Symmetry == Permutations(Thread)

(***************************************************************************)
(* Properties.                                                             *)
(***************************************************************************)

(* The rings are read and written at both ends, by threads and interrupts, *)
(* and wrap: what a ring holds is what was accepted and not yet taken, in  *)
(* order, and no byte is read that was not.                                *)
RingsHoldBytes == Contents(rx) = rxq /\ Contents(tx) = txq

Asleep(t) == status[t] = "WAITING" /\ "COMPLETION" \in waits[t]
Reading(t) == Asleep(t) /\ pc[t] = "rd"
Writing(t) == Asleep(t) /\ pc[t] = "wr"

(* io_waits.h: "Resume all threads waiting on a wait queue."  A thread     *)
(* asleep in thread_io_wait has an item of its own that the next resume    *)
(* reaches, or is already marked to be resumed.                            *)
SleeperReached ==
    \A t \in Thread : Reading(t) \/ Writing(t) =>
        \/ t \in bits \cup pbits
        \/ LET q == IF Reading(t) THEN "r" ELSE "w"
           IN  \E i \in Visited(q) : i \in used /\ item[i] = [poll |-> FALSE, tid |-> t]

(* The counter of a wait queue, which alone tells thread_io_resume when to *)
(* stop, is the number of its items, and each of them is allocated.        *)
QueuesCounted ==
    \A q \in WaitQueue : wq[q].counter = Len(Listed(q)) /\ ListedItems(q) \subseteq used

(* A reader is not left asleep when there are bytes for it: it is already  *)
(* marked, and the next pass of the scheduler resumes it.                  *)
ReaderMarked == \A t \in Thread : Reading(t) /\ Readable => t \in bits

(* A writer is not left asleep: it is marked, or bytes are left to send    *)
(* and the transmitter interrupt, which will mark it, is enabled.          *)
WriterMarked == \A t \in Thread : Writing(t) => t \in bits \/ (etbei /\ ~cbuffer_is_empty(tx))

(* poll.h: "If one or more events are now present, the scheduler will wake *)
(* up the sleeping thread": bytes that arrive while poll registers with    *)
(* the queues, before it looks, before it sleeps or later are not missed.  *)
(* An event of the mouse is a packet of three bytes.                       *)
Event == IF dev = "mouse" THEN cbuffer_in_use(rx) >= 3 ELSE Readable
PollMarked == \A t \in Thread : Asleep(t) /\ pc[t] = "polled" /\ Event => t \in pbits

(* poll.h: "ETIMEDOUT if the timeout expired before any event could        *)
(* happen": a poll without a timeout does not return it.                   *)
UntimedPoll == PollTimes = {0} => \A t \in Thread : job[t] = "poll" => result[t] # "timedout"

(* The rings the driver's interrupts fill and its callers empty hold the   *)
(* bytes that came and were not read, in order, at every position of the   *)
(* two indices; their limits are kept.                                     *)
RingsSound ==
    /\ RingsTypeOK
    /\ RingsHoldBytes

(* The queues of waiting threads, from which calls, timeouts, kills, polls *)
(* and interrupts take items: links and counters agree, and each sleeper   *)
(* can be reached from the queue it sleeps in.                             *)
WaitQueuesSound ==
    /\ CallersTypeOK
    /\ SleeperReached
    /\ QueuesCounted

(* Nobody sleeps on when there is something for it: readers with bytes in  *)
(* the ring, writers with room in it and pollers of a device that is ready *)
(* have been marked for the scheduler.                                     *)
NobodyForgotten ==
    /\ ReaderMarked
    /\ WriterMarked
    /\ PollMarked

=============================================================================
