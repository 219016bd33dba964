------------------------------- MODULE Barriers ------------------------------
(***************************************************************************)
(* Barriers: kernel/barriers.c.                                            *)
(*                                                                         *)
(* barrier_open and barrier_close may be called by an interrupt handler,   *)
(* everything else is thread context code.  Opening a barrier only sets a  *)
(* flag: the threads are resumed by resume_on_barriers, which the          *)
(* scheduler calls each time a thread gives the processor up, before it    *)
(* chooses the next one.  todo holds the barriers that pass has yet to     *)
(* visit.                                                                  *)
(*                                                                         *)
(* Definitions that come just before a helper with the same parameters are *)
(* mistakes the code could have made; no specification uses them.          *)
(***************************************************************************)
EXTENDS Threads

CONSTANTS
    Barrier,    \* barriers
    NoBarrier,  \* "no barrier", not a member of Barrier
    AutoClose   \* the barriers created with autoclose

ASSUME BarrierAssumption == NoBarrier \notin Barrier /\ AutoClose \subseteq Barrier

VARIABLES
    barriers_list,  \* the barriers that exist
    open,           \* the ones flagged BARRIER_OPEN
    thread_ids,     \* the bitmap of each barrier: the threads waiting for it
    checked,        \* the barrier a thread has found closed, not yet asleep
    todo,           \* barriers the pass of resume_on_barriers has yet to visit
    closing         \* the barrier whose threads the pass has just resumed

barrierVars == <<barriers_list, open, thread_ids, checked, todo, closing>>

BarriersTypeOK ==
    /\ ThreadsTypeOK
    /\ barriers_list \subseteq Barrier
    /\ open \subseteq Barrier
    /\ thread_ids \in [Barrier -> SUBSET Thread]
    /\ checked \in [Thread -> Barrier \cup {NoBarrier}]
    /\ todo \subseteq Barrier
    /\ closing \in Barrier \cup {NoBarrier}

BarriersInit ==
    /\ ThreadsInit
    /\ barriers_list = {}
    /\ open = {}
    /\ thread_ids = [b \in Barrier |-> {}]
    /\ checked = [t \in Thread |-> NoBarrier]
    /\ todo = {}
    /\ closing = NoBarrier

(* The thread t executes its own code, outside the barrier calls.          *)
InApp(t) == current = t /\ checked[t] = NoBarrier

barrier_create(b) ==
    /\ b \notin barriers_list
    /\ barriers_list' = barriers_list \cup {b}
    /\ open' = open \ {b}
    /\ thread_ids' = [thread_ids EXCEPT ![b] = {}]
    /\ UNCHANGED <<threadsVars, checked, todo, closing>>

barrier_open(b) ==
    /\ b \in barriers_list
    /\ open' = open \cup {b}
    /\ UNCHANGED <<threadsVars, barriers_list, thread_ids, checked, todo, closing>>

barrier_close(b) ==
    /\ b \in barriers_list
    /\ open' = open \ {b}
    /\ UNCHANGED <<threadsVars, barriers_list, thread_ids, checked, todo, closing>>

(***************************************************************************)
(* wait_for_barrier, for the thread t that has the processor: the flag is  *)
(* read with interrupts off; by the time the thread is asleep an interrupt *)
(* may have changed it.                                                    *)
(***************************************************************************)

(* An open barrier lets the caller through and stays open.                 *)
WaitPasses(t, b) ==
    /\ InApp(t)
    /\ b \in barriers_list \cap open
    /\ UNCHANGED <<threadsVars, barrierVars>>

WaitChecks(t, b) ==
    /\ InApp(t)
    /\ b \in barriers_list \ open
    /\ checked' = [checked EXCEPT ![t] = b]
    /\ UNCHANGED <<threadsVars, barriers_list, open, thread_ids, todo, closing>>

BitForgotten(t) == thread_ids
BitOfNobody(t) == [thread_ids EXCEPT ![checked[t]] = @ \cup {NoThread}]
BitSet(t) == [thread_ids EXCEPT ![checked[t]] = @ \cup {t}]

WaitSleeps(t) ==
    /\ current = t /\ checked[t] # NoBarrier
    /\ thread_ids' = BitSet(t)
    /\ checked' = [checked EXCEPT ![t] = NoBarrier]
    /\ Block({"BARRIER"}, 0)
    /\ todo' = barriers_list
    /\ UNCHANGED <<barriers_list, open, closing>>

(***************************************************************************)
(* resume_on_barriers, one barrier at a time, in any order: which one is   *)
(* visited first makes no difference to the threads.                       *)
(***************************************************************************)
StopsAfter(b) == {}
StillToVisit(b) == todo \ {b}

ResumeWaiters(b) ==
    /\ b \in todo /\ closing = NoBarrier
    /\ todo' = StillToVisit(b)
    /\ IF b \in open
       THEN /\ Wake("BARRIER", thread_ids[b])
            /\ thread_ids' = [thread_ids EXCEPT ![b] = {}]
            /\ closing' = IF b \in AutoClose THEN b ELSE NoBarrier
       ELSE UNCHANGED <<threadsVars, thread_ids, closing>>
    /\ UNCHANGED <<barriers_list, open, checked>>

CloseResumed ==
    /\ closing # NoBarrier
    /\ open' = open \ {closing}
    /\ closing' = NoBarrier
    /\ UNCHANGED <<threadsVars, barriers_list, thread_ids, checked, todo>>

PassOver == todo = {} /\ closing = NoBarrier

(* barrier_done resumes the threads of the open barriers and frees b; the  *)
(* threads that wait for b are left alone unless b is open.                *)
barrier_done(b) ==
    LET O == barriers_list \cap open
    IN  /\ b \in barriers_list
        /\ Wake("BARRIER", UNION {thread_ids[c] : c \in O})
        /\ thread_ids' = [c \in Barrier |-> IF c \in O \cup {b} THEN {} ELSE thread_ids[c]]
        /\ open' = open \ ((O \cap AutoClose) \cup {b})
        /\ barriers_list' = barriers_list \ {b}
        /\ UNCHANGED <<checked, todo, closing>>

(* cancel_wait_for_barrier, for a thread that is killed; when no barrier   *)
(* names it the kernel panics: not a step.                                 *)
CancelForgotten(t) == UNCHANGED thread_ids
cancel_wait_for_barrier(t) ==
    \E b \in barriers_list :
        /\ t \in thread_ids[b]
        /\ thread_ids' = [thread_ids EXCEPT ![b] = @ \ {t}]

KillWaiter(t) ==
    /\ Kill(t)
    /\ IF status[t] = "WAITING" /\ waits[t] = {"BARRIER"}
       THEN cancel_wait_for_barrier(t) ELSE UNCHANGED thread_ids
    /\ UNCHANGED <<barriers_list, open, checked, todo, closing>>

(* Giving the processor up starts a pass, and the next thread is chosen    *)
(* when the pass is over.                                                  *)
Suspends == Yield /\ todo' = barriers_list
                  /\ UNCHANGED <<barriers_list, open, thread_ids, checked, closing>>

Terminates == Exit /\ todo' = barriers_list
                   /\ UNCHANGED <<barriers_list, open, thread_ids, checked, closing>>

Runs(t) == PassOver /\ Dispatch(t) /\ UNCHANGED barrierVars

(* The thread Idle is not in Thread: it gives the processor up for ever,   *)
(* so when no thread is READY the passes go on.                            *)
IdleSuspends ==
    /\ current = NoThread /\ PassOver
    /\ \A t \in Thread : status[t] # "READY"
    /\ todo' = barriers_list
    /\ UNCHANGED <<threadsVars, barriers_list, open, thread_ids, checked, closing>>

Dies(t) == (Bury(t) \/ Reap(t)) /\ UNCHANGED barrierVars

=============================================================================
