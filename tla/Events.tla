------------------------------- MODULE Events --------------------------------
(***************************************************************************)
(* Event queues: kernel/events.c.                                          *)
(*                                                                         *)
(* One thread watches a queue and waits for its events; threads and        *)
(* interrupt handlers put events into it at any moment.  A wait marks the  *)
(* thread in one bitmap for all the queues, and resume_on_events, which    *)
(* the scheduler calls each time a thread gives the processor up, resumes  *)
(* the marked watchers of the queues that have events.  todo holds the     *)
(* queues that pass has yet to visit.                                      *)
(*                                                                         *)
(* Definitions that come just before a helper with the same parameters are *)
(* mistakes the code could have made; no specification uses them.          *)
(***************************************************************************)
EXTENDS Threads, Sequences, SequencesExt

CONSTANTS
    Queue,      \* event queues
    NoQueue,    \* "no queue", not a member of Queue
    Event,      \* events: the nodes that are linked, not their contents
    EvTimeouts, \* msecs arguments of wait_for_events_timed, 0 is no timeout
    WatchMany,  \* whether a thread may watch several queues
    Capacity    \* bound on the events in one queue

ASSUME QueueAssumption == NoQueue \notin Queue
ASSUME EventsAssumption ==
    EvTimeouts \subseteq Nat /\ WatchMany \in BOOLEAN /\ Capacity \in Nat \ {0}

VARIABLES
    events_list,    \* the queues that exist
    msgqueue,       \* the events of each queue
    threadid,       \* the watcher of each queue
    bits,           \* thread_ids: threads that wait for events
    waitsOn,        \* the queue each thread is inside wait_for_events_timed of
    checked,        \* threads that have found their queue empty, not yet asleep
    untimed,        \* threads whose wait has no timeout
    todo            \* queues the pass of resume_on_events has yet to visit

eventVars == <<events_list, msgqueue, threadid, bits, waitsOn, checked, untimed, todo>>

EventsTypeOK ==
    /\ ThreadsTypeOK
    /\ events_list \subseteq Queue /\ todo \subseteq Queue
    /\ msgqueue \in [Queue -> Seq(Event)]
    /\ threadid \in [Queue -> Thread \cup {NoThread}]
    /\ waitsOn \in [Thread -> Queue \cup {NoQueue}]
    /\ bits \subseteq Thread /\ checked \subseteq Thread /\ untimed \subseteq Thread

EventsInit ==
    /\ ThreadsInit
    /\ events_list = {} /\ todo = {}
    /\ msgqueue = [q \in Queue |-> <<>>]
    /\ threadid = [q \in Queue |-> NoThread]
    /\ waitsOn = [t \in Thread |-> NoQueue]
    /\ bits = {} /\ checked = {} /\ untimed = {}

(* The thread t executes its own code, outside wait_for_events_timed.      *)
InApp(t) == current = t /\ waitsOn[t] = NoQueue

Queued(e) == \E q \in events_list : Contains(msgqueue[q], e)

event_init_queue(q) ==
    /\ q \notin events_list
    /\ events_list' = events_list \cup {q}
    /\ msgqueue' = [msgqueue EXCEPT ![q] = <<>>]
    /\ threadid' = [threadid EXCEPT ![q] = NoThread]
    /\ UNCHANGED <<threadsVars, bits, waitsOn, checked, untimed, todo>>

(* The events that are left are taken out one by one and forgotten.        *)
event_done_queue(q) ==
    /\ q \in events_list
    /\ events_list' = events_list \ {q}
    /\ msgqueue' = [msgqueue EXCEPT ![q] = <<>>]
    /\ UNCHANGED <<threadsVars, threadid, bits, waitsOn, checked, untimed, todo>>

(* A queue that has a watcher keeps it: EINVAL.                            *)
event_watch_queue(t, q) ==
    /\ InApp(t)
    /\ q \in events_list /\ threadid[q] = NoThread
    /\ WatchMany \/ \A r \in events_list : threadid[r] # t
    /\ threadid' = [threadid EXCEPT ![q] = t]
    /\ UNCHANGED <<threadsVars, events_list, msgqueue, bits, waitsOn, checked, untimed, todo>>

event_put(q, e) ==
    /\ q \in events_list /\ Len(msgqueue[q]) < Capacity
    /\ msgqueue' = [msgqueue EXCEPT ![q] = Append(@, e)]
    /\ UNCHANGED <<threadsVars, events_list, threadid, bits, waitsOn, checked, untimed, todo>>

event_get(q) ==
    /\ q \in events_list /\ msgqueue[q] # <<>>
    /\ msgqueue' = [msgqueue EXCEPT ![q] = Tail(@)]
    /\ UNCHANGED <<threadsVars, events_list, threadid, bits, waitsOn, checked, untimed, todo>>

(***************************************************************************)
(* wait_for_events_timed, for the watcher t.  Interrupts are on: an event  *)
(* may be put after the queue was found empty and before t is asleep.      *)
(***************************************************************************)
WaitChecks(t, q) ==
    /\ InApp(t)
    /\ q \in events_list /\ threadid[q] = t
    /\ msgqueue[q] = <<>>
    /\ waitsOn' = [waitsOn EXCEPT ![t] = q]
    /\ checked' = checked \cup {t}
    /\ UNCHANGED <<threadsVars, events_list, msgqueue, threadid, bits, untimed, todo>>

MarkForgotten(t) == bits
Mark(t) == bits \cup {t}

WaitSleeps(t, msecs) ==
    /\ current = t /\ t \in checked
    /\ now + msecs <= MaxTime
    /\ Block({"EVENT"}, msecs)
    /\ bits' = Mark(t)
    /\ checked' = checked \ {t}
    /\ untimed' = IF msecs = 0 THEN untimed \cup {t} ELSE untimed \ {t}
    /\ todo' = events_list
    /\ UNCHANGED <<events_list, msgqueue, threadid, waitsOn>>

(* The thread has been dispatched again: EOK if the queue has events,      *)
(* ETIMEDOUT otherwise.                                                    *)
WaitReturns(t) ==
    /\ current = t /\ waitsOn[t] # NoQueue /\ t \notin checked
    /\ waitsOn' = [waitsOn EXCEPT ![t] = NoQueue]
    /\ UNCHANGED <<threadsVars, events_list, msgqueue, threadid, bits, checked, untimed, todo>>

(***************************************************************************)
(* resume_on_events, one queue at a time.  The mark is cleared also when   *)
(* the watcher no longer waits and scheduler_resume_thread refuses.        *)
(***************************************************************************)
ResumesAny(q) == threadid[q] \in bits
Resumes(q) == threadid[q] \in bits /\ msgqueue[q] # <<>>

ResumeWatcher(q) ==
    /\ q \in todo
    /\ todo' = todo \ {q}
    /\ IF q \in events_list /\ Resumes(q)
       THEN /\ Wake("EVENT", {threadid[q]})
            /\ bits' = bits \ {threadid[q]}
       ELSE UNCHANGED <<threadsVars, bits>>
    /\ UNCHANGED <<events_list, msgqueue, threadid, waitsOn, checked, untimed>>

(* cancel_wait_for_events: the first queue the victim watches loses its    *)
(* watcher, whichever it waits for; the mark stays.  When it watches none  *)
(* the kernel panics: not a step.                                          *)
cancel_wait_for_events(t) ==
    \E q \in events_list :
        threadid[q] = t /\ threadid' = [threadid EXCEPT ![q] = NoThread]

KillWatcher(t) ==
    /\ Kill(t)
    /\ IF status[t] = "WAITING" /\ waits[t] = {"EVENT"}
       THEN cancel_wait_for_events(t) ELSE UNCHANGED threadid
    /\ UNCHANGED <<events_list, msgqueue, bits, waitsOn, checked, untimed, todo>>

(***************************************************************************)
(* The scheduler: a pass begins when a thread gives the processor up, and  *)
(* the next thread is chosen when it is over.  Idle, which is not in       *)
(* Thread, gives the processor up for ever.                                *)
(***************************************************************************)
Suspends ==
    /\ Yield /\ todo' = events_list
    /\ UNCHANGED <<events_list, msgqueue, threadid, bits, waitsOn, checked, untimed>>

IdleSuspends ==
    /\ current = NoThread /\ todo = {}
    /\ \A t \in Thread : status[t] # "READY"
    /\ todo' = events_list
    /\ UNCHANGED <<threadsVars, events_list, msgqueue, threadid, bits, waitsOn, checked, untimed>>

Expires(t) == current = NoThread /\ Timeout(t) /\ UNCHANGED eventVars
Runs(t) == todo = {} /\ Dispatch(t) /\ UNCHANGED eventVars
Dies(t) == (Bury(t) \/ Reap(t)) /\ UNCHANGED eventVars

(* A slot is used again; neither watchers nor marks hear of it.            *)
Restarts(t) ==
    /\ Create(t)
    /\ waitsOn' = [waitsOn EXCEPT ![t] = NoQueue]
    /\ UNCHANGED <<events_list, msgqueue, threadid, bits, checked, untimed, todo>>

=============================================================================
