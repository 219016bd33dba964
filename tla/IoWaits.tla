------------------------------- MODULE IoWaits --------------------------------
(***************************************************************************)
(* I/O waits and poll: kernel/io_waits.c and kernel/poll.c.                *)
(*                                                                         *)
(* A thread that waits for a driver leaves an item, taken from a pool, in  *)
(* the driver's wait queue and sleeps; the interrupt handler empties the   *)
(* queue, frees the items and marks the threads in a bitmap, which the     *)
(* scheduler reads each time a thread gives the processor up.  poll leaves *)
(* one item in each wait queue of each device it is given, keeps pointers  *)
(* to them in a table of its own, and takes them back when it returns,     *)
(* whether or not an interrupt has freed them meanwhile.                   *)
(*                                                                         *)
(* There is one poll table for each thread.  Timed waits (no driver has    *)
(* one) are steps of this module too.  An item holds the number of a       *)
(* thread, or the address of a poll table with the number for its lowest   *)
(* byte (a union): the field tid is the thread, or the owner of the table. *)
(*                                                                         *)
(* Definitions that come just before a helper with the same parameters are *)
(* mistakes the code could have made; no specification uses them.          *)
(***************************************************************************)
EXTENDS Threads, Sequences

CONSTANTS
    WaitQueue,  \* wait queues
    MaxItems,   \* bound on the items of the pool
    Aliases,    \* whether the address of a poll table may end in the number of
                \* a thread
    Null        \* the null pointer

Item == 1 .. MaxItems

ASSUME IoAssumption == MaxItems \in Nat /\ Null \notin Item

INSTANCE Lists WITH Node <- Item

VARIABLES
    wq,         \* the wait queues: list_inst
    links,      \* links of the items
    used,       \* the items that are allocated
    item,       \* what each item says: [poll, tid]
    bits,       \* thread_ids of io_waits.c
    pbits,      \* thread_ids of poll.c
    table,      \* poll items of each thread: a sequence of [item, wq]
    signalled,  \* threads whose poll table is signalled
    stage       \* where the pass of the scheduler is: "io", "poll", "done"

ioVars == <<wq, links, used, item, bits, pbits, table, signalled, stage>>

(* The nodes linked in a wait queue, and the items it holds.               *)
Listed(q) == Walk(links.next, wq[q].head, MaxItems)
ListedItems(q) == LET s == Listed(q) IN {s[j] : j \in DOMAIN s}

IoTypeOK ==
    /\ ThreadsTypeOK
    /\ \A q \in WaitQueue :
            wq[q] \in [head : Item \cup {Null}, tail : Item \cup {Null}, counter : 0 .. MaxItems]
    /\ used \subseteq Item
    /\ item \in [Item -> [poll : BOOLEAN, tid : Thread \cup {NoThread}]]
    /\ bits \subseteq Thread /\ pbits \subseteq Thread /\ signalled \subseteq Thread
    /\ \A t \in Thread : \A j \in DOMAIN table[t] :
            table[t][j] \in [item : Item, wq : WaitQueue]
    /\ stage \in {"io", "poll", "done"}

IoInit ==
    /\ ThreadsInit
    /\ wq = [q \in WaitQueue |-> list_init]
    /\ links = NoLinks
    /\ used = {}
    /\ item = [i \in Item |-> [poll |-> FALSE, tid |-> NoThread]]
    /\ bits = {} /\ pbits = {} /\ signalled = {}
    /\ table = [t \in Thread |-> <<>>]
    /\ stage = "done"

(* chunks_pool_malloc: the first item that is free.                        *)
FirstFree(U) == CHOOSE i \in Item \ U : \A j \in Item \ U : i <= j
CanAlloc(n) == Cardinality(Item \ used) >= n

(***************************************************************************)
(* thread_io_wait_internal.  The item is taken and linked, and the thread  *)
(* put to sleep, with interrupts off.                                      *)
(***************************************************************************)
thread_io_wait(q, msecs) ==
    LET i == FirstFree(used)
        r == list_append(wq[q], links, i)
    IN  /\ CanAlloc(1)
        /\ used' = used \cup {i}
        /\ item' = [item EXCEPT ![i] = [poll |-> FALSE, tid |-> current]]
        /\ wq' = [wq EXCEPT ![q] = r.l]
        /\ links' = r.k
        /\ Block({"COMPLETION"}, msecs)
        /\ stage' = "io"
        /\ UNCHANGED <<bits, pbits, table, signalled>>

(* The items that seem to be the thread t's when only the byte of the      *)
(* number is compared, P being the owners of the tables whose address ends *)
(* in it.                                                                  *)
Alike == IF Aliases THEN SUBSET Thread ELSE {{}}
Seems(i, t, P) == item[i] = [poll |-> FALSE, tid |-> t] \/ (item[i].poll /\ item[i].tid \in P)

(* What a timed wait returns: the item is found in the queue when nobody   *)
(* resumed it, and left there.                                             *)
TimedOut(t, q, P) == wq[q].counter > 0 /\ \E i \in ListedItems(q) : Seems(i, t, P)

(***************************************************************************)
(* thread_io_resume, in an interrupt: a step on its own.  As many items    *)
(* are taken from the head as the counter says; an item of a poll signals  *)
(* its table, once, and what an item says that poll has not filled yet is  *)
(* left over from its last use.  A counter larger than the list is a null  *)
(* pointer followed: not a step.                                           *)
(***************************************************************************)
ResumeHead(q) == {wq[q].head} \ {Null}
Visited(q) == LET s == Listed(q) IN {s[j] : j \in 1 .. wq[q].counter}

(* The threads whose tables the items I signal: those not yet signalled.   *)
poll_wakeup(I) == {item[i].tid : i \in {v \in I : item[v].poll}} \ signalled

thread_io_resume(q) ==
    LET V == Visited(q)
        P == poll_wakeup(V)
        all == Listed(q)
        rest == SubSeq(all, wq[q].counter + 1, Len(all))
        h == IF rest = <<>> THEN Null ELSE rest[1]
    IN  /\ wq[q].counter <= Len(all)
        /\ bits' = bits \cup ({item[i].tid : i \in {v \in V : ~item[v].poll}} \cap Thread)
        /\ pbits' = pbits \cup P
        /\ signalled' = signalled \cup P
        /\ used' = used \ V
        /\ links' = [next |-> [i \in Item |-> IF i \in V THEN Null ELSE links.next[i]],
                     prev |-> [i \in Item |-> IF i \in V \cup {h} THEN Null ELSE links.prev[i]]]
        /\ wq' = [wq EXCEPT ![q] = [head |-> h, tail |-> IF h = Null THEN Null ELSE @.tail,
                                    counter |-> 0]]
        /\ UNCHANGED <<item, table, stage>>

(***************************************************************************)
(* resume_on_io_wait and resume_on_poll, with interrupts off.              *)
(***************************************************************************)
ResumeIo ==
    /\ stage = "io"
    /\ Wake("COMPLETION", bits)
    /\ bits' = {}
    /\ stage' = "poll"
    /\ UNCHANGED <<wq, links, used, item, pbits, table, signalled>>

KeepPolled(S) == {}
Polled(S) == S

ResumePoll ==
    /\ stage = "poll"
    /\ Wake("COMPLETION", Polled(pbits))
    /\ pbits' = {}
    /\ stage' = "done"
    /\ UNCHANGED <<wq, links, used, item, bits, table, signalled>>

(* cancel_io_waits, for a thread that is killed: the first of its items in *)
(* each queue, or what seems to be one.  A thread waits in one queue: a    *)
(* second match is not a step.                                             *)
CancelSeeming(t, P) ==
    LET own(q) == {j \in DOMAIN Listed(q) : Seems(Listed(q)[j], t, P)}
        C == {q \in WaitQueue : own(q) # {}}
        hit == [q \in C |-> Listed(q)[CHOOSE j \in own(q) : \A k \in own(q) : j <= k]]
        gone == {hit[q] : q \in C}
    IN  /\ wq' = [q \in WaitQueue |->
                    IF q \in C THEN list_remove(wq[q], links, hit[q]).l ELSE wq[q]]
        /\ \/ C = {} /\ UNCHANGED links
           \/ \E q \in C : gone = {hit[q]} /\ links' = list_remove(wq[q], links, hit[q]).k
        /\ used' = used \ gone
        /\ bits' = bits \ {t}
        /\ UNCHANGED <<item, pbits, table, signalled, stage>>

cancel_io_waits(t) == \E P \in Alike : CancelSeeming(t, P)

(***************************************************************************)
(* poll_wait, in two steps with interrupts on between them: an item is     *)
(* taken and linked in the wait queue, and then it is told whose it is.    *)
(* found is whether the driver, which tested the device before, has input; *)
(* it is looked at when the driver is done.                                *)
(***************************************************************************)
poll_links(t, q) ==
    LET i == FirstFree(used)
        r == list_append(wq[q], links, i)
    IN  /\ CanAlloc(1)
        /\ used' = used \cup {i}
        /\ wq' = [wq EXCEPT ![q] = r.l]
        /\ links' = r.k
        /\ table' = [table EXCEPT ![t] = Append(@, [item |-> i, wq |-> q])]
        /\ UNCHANGED <<item, bits, pbits, signalled, stage>>

poll_fills(t, found) ==
    /\ item' = [item EXCEPT ![table[t][Len(table[t])].item] = [poll |-> TRUE, tid |-> t]]
    /\ signalled' = IF found THEN signalled \cup {t} ELSE signalled
    /\ UNCHANGED <<wq, links, used, bits, pbits, table, stage>>

(* The thread sleeps; whether something was signalled it has tested before *)
(* that, with interrupts on.                                               *)
poll_sleep(msecs) ==
    /\ Block({"COMPLETION"}, msecs)
    /\ stage' = "io"
    /\ UNCHANGED <<wq, links, used, item, bits, pbits, table, signalled>>

(* cleanup: each item is unlinked from the queue it was put in and freed,  *)
(* also when it was freed before and is somebody else's by now.            *)
TakenBack(s, e) ==
    LET r == list_remove(s.wq[e.wq], s.links, e.item)
    IN  [used |-> s.used \ {e.item}, wq |-> [s.wq EXCEPT ![e.wq] = r.l], links |-> r.k]

Cleaned(tab) ==
    LET f[n \in 0 .. Len(tab)] ==
            IF n = 0 THEN [used |-> used, wq |-> wq, links |-> links]
            ELSE TakenBack(f[n - 1], tab[n])
    IN  f[Len(tab)]

cleanup(t) ==
    LET z == Cleaned(table[t])
    IN  /\ used' = z.used /\ wq' = z.wq /\ links' = z.links
        /\ table' = [table EXCEPT ![t] = <<>>]
        /\ signalled' = signalled \ {t}
        /\ UNCHANGED <<item, bits, pbits, stage>>

=============================================================================
