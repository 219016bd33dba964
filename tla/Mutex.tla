-------------------------------- MODULE Mutex --------------------------------
(***************************************************************************)
(* Mutexes: kernel/mutex.c, the mutex calls of kernel/kernel.c, and the    *)
(* part of scheduler_remove_thread that cancels a wait for a mutex.        *)
(*                                                                         *)
(* All of it is thread context code that is never interrupted by another   *)
(* thread: a call is one step, except that a thread that has to wait comes *)
(* back to the second half of thread_lock_mutex_timed when it is next      *)
(* dispatched.  Each mutex keeps its waiters in a circular buffer, here a  *)
(* sequence; NoThread stands for an entry that was cancelled.              *)
(*                                                                         *)
(* Definitions that come just before a helper with the same parameters are *)
(* mistakes the code could have made; no specification uses them.          *)
(***************************************************************************)
EXTENDS Threads, Sequences, SequencesExt

CONSTANTS
    Mtx,        \* mutexes
    NoMtx,      \* "no mutex", not a member of Mtx
    Slots,      \* DIEGOS_MAX_THREADS, the size of the buffer of waiters
    Timeouts,   \* msecs arguments of thread_lock_mutex_timed
    Kills,      \* whether threads kill one another
    Reuse,      \* whether the slots of dead threads are used again
    Untidy      \* whether a thread may exit or be killed while it owns a mutex

ASSUME MtxAssumption == NoMtx \notin Mtx
ASSUME SlotsAssumption == Slots \in Nat \ {0}
ASSUME TimeoutsAssumption == Timeouts \subseteq Nat
ASSUME ChoiceAssumption ==
    Kills \in BOOLEAN /\ Reuse \in BOOLEAN /\ Untidy \in BOOLEAN

VARIABLES
    mutexes_list,   \* the mutexes that exist, in the order cancel visits them
    locker_tid,     \* the owner of each mutex
    ids,            \* the waiters of each mutex: ids_buffer, head to tail
    calls,          \* the mutex each thread is inside thread_lock_mutex_timed of
    timed,          \* threads whose call has a timeout
    held,           \* mutexes each thread takes itself to hold
    ret             \* what the lock call that returned in this step returned

mutexVars == <<mutexes_list, locker_tid, ids, calls, timed, held, ret>>
vars == <<threadsVars, mutexVars>>

MutexTypeOK ==
    /\ ThreadsTypeOK
    /\ mutexes_list \in Seq(Mtx)
    /\ locker_tid \in [Mtx -> Thread \cup {NoThread}]
    /\ ids \in [Mtx -> Seq(Thread \cup {NoThread})]
    /\ calls \in [Thread -> Mtx \cup {NoMtx}]
    /\ timed \subseteq Thread
    /\ held \in [Thread -> SUBSET Mtx]
    /\ ret \in {"none", "EOK", "EBUSY", "ETIMEDOUT"}

Init ==
    /\ ThreadsInit
    /\ status = [t \in Thread |-> "READY"]
    /\ mutexes_list = <<>>
    /\ locker_tid = [m \in Mtx |-> NoThread]
    /\ ids = [m \in Mtx |-> <<>>]
    /\ calls = [t \in Thread |-> NoMtx]
    /\ timed = {}
    /\ held = [t \in Thread |-> {}]
    /\ ret = "none"

(* The thread that executes application code, outside the mutex calls.     *)
InApp(t) == current = t /\ calls[t] = NoMtx

(* Owning is what the mutex says; a tidy thread owns nothing.              *)
Owns(t) == {m \in Mtx : locker_tid[m] = t}

(* init_mutex prepends to the list.                                        *)
thread_create_mutex(m) ==
    /\ current # NoThread /\ InApp(current)
    /\ ~Contains(mutexes_list, m)
    /\ mutexes_list' = <<m>> \o mutexes_list
    /\ ret' = "none"
    /\ UNCHANGED <<threadsVars, locker_tid, ids, calls, timed, held>>

(* done_mutex refuses a mutex that has an owner or an entry in its buffer. *)
thread_destroy_mutex(m) ==
    /\ current # NoThread /\ InApp(current)
    /\ locker_tid[m] = NoThread /\ ids[m] = <<>>
    /\ \E i \in DOMAIN mutexes_list :
            mutexes_list[i] = m /\ mutexes_list' = RemoveAt(mutexes_list, i)
    /\ ret' = "none"
    /\ UNCHANGED <<threadsVars, locker_tid, ids, calls, timed, held>>

(***************************************************************************)
(* thread_lock_mutex_timed.  Callers that look at the result, as the demo  *)
(* does, take every answer but ETIMEDOUT for success.                      *)
(***************************************************************************)

(* lock_mutex gives the caller a mutex that nobody owns; it was not locked *)
(* before the call, and the call answers EBUSY.                            *)
LockFree(m) ==
    /\ current # NoThread /\ InApp(current)
    /\ Contains(mutexes_list, m)
    /\ locker_tid[m] = NoThread
    /\ locker_tid' = [locker_tid EXCEPT ![m] = current]
    /\ held' = [held EXCEPT ![current] = @ \cup {m}]
    /\ ret' = "EBUSY"
    /\ UNCHANGED <<threadsVars, mutexes_list, ids, calls, timed>>

(* lock_mutex fails for the owner and when the buffer is full.  A circular *)
(* buffer of Slots entries holds one entry less.                           *)
BufferFull(m) == Len(ids[m]) >= Slots - 1

LockRefused(m) ==
    /\ current # NoThread /\ InApp(current)
    /\ Contains(mutexes_list, m)
    /\ locker_tid[m] # NoThread
    /\ locker_tid[m] = current \/ BufferFull(m)
    /\ held' = [held EXCEPT ![current] = @ \cup {m}]
    /\ ret' = "EBUSY"
    /\ UNCHANGED <<threadsVars, mutexes_list, locker_tid, ids, calls, timed>>

(* The mutex has another owner: the caller is queued and waits.            *)
QueueAtHead(m) == <<current>> \o ids[m]
QueueNothing(m) == ids[m]
QueueCaller(m) == Append(ids[m], current)

LockWaits(m, msecs) ==
    /\ current # NoThread /\ InApp(current)
    /\ Contains(mutexes_list, m)
    /\ locker_tid[m] \notin {NoThread, current}
    /\ ~BufferFull(m)
    /\ now + msecs <= MaxTime
    /\ ids' = [ids EXCEPT ![m] = QueueCaller(m)]
    /\ calls' = [calls EXCEPT ![current] = m]
    /\ timed' = IF msecs = 0 THEN timed \ {current} ELSE timed \cup {current}
    /\ ret' = "none"
    /\ Block({"MUTEX"}, msecs)
    /\ UNCHANGED <<mutexes_list, locker_tid, held>>

(* The thread has been dispatched again: a timed call looks whether the    *)
(* mutex is its own, the other one does not.                               *)
LockReturns ==
    /\ current # NoThread /\ calls[current] # NoMtx
    /\ LET m  == calls[current]
           ok == current \notin timed \/ locker_tid[m] = current
       IN  /\ held' = [held EXCEPT ![current] = IF ok THEN @ \cup {m} ELSE @]
           /\ ret' = IF ok THEN "EOK" ELSE "ETIMEDOUT"
    /\ calls' = [calls EXCEPT ![current] = NoMtx]
    /\ UNCHANGED <<threadsVars, mutexes_list, locker_tid, ids, timed>>

(***************************************************************************)
(* unlock_mutex.  Cancelled entries at the head of the buffer are dropped, *)
(* the next entry becomes the owner.  When get_thread finds no thread for  *)
(* the entry, a null pointer is read and the owner may be anything.        *)
(***************************************************************************)
Cancelled(s) == \A j \in DOMAIN s : s[j] = NoThread
LiveIndex(s) ==
    CHOOSE j \in DOMAIN s : s[j] # NoThread /\ \A k \in 1 .. j - 1 : s[k] = NoThread
NextEntry(m) == ids[m][LiveIndex(ids[m])]

unlock_mutex(m) ==
    IF Cancelled(ids[m])
    THEN /\ locker_tid' = [locker_tid EXCEPT ![m] = NoThread]
         /\ ids' = [ids EXCEPT ![m] = <<>>]
    ELSE /\ \E o \in IF status[NextEntry(m)] = "NONE" THEN Thread \cup {NoThread}
                                                      ELSE {NextEntry(m)} :
                locker_tid' = [locker_tid EXCEPT ![m] = o]
         /\ ids' = [ids EXCEPT ![m] = SubSeq(@, LiveIndex(@) + 1, Len(@))]

(* thread_unlock_mutex resumes the new owner.  A caller that is not the    *)
(* owner gets EPERM and changes nothing.                                   *)
MayUnlockAny(m) == TRUE
MayUnlock(m) == locker_tid[m] = current

WakeNobody(m) == {}
WakeOwner(m) == {locker_tid'[m]} \cap Thread

thread_unlock_mutex(m) ==
    /\ current # NoThread /\ InApp(current)
    /\ Contains(mutexes_list, m)
    /\ MayUnlock(m)
    /\ unlock_mutex(m)
    /\ Wake("MUTEX", WakeOwner(m))
    /\ held' = [held EXCEPT ![current] = @ \ {m}]
    /\ ret' = "none"
    /\ UNCHANGED <<mutexes_list, calls, timed>>

(***************************************************************************)
(* cancel_wait_on_mutex: the first mutex of the list that names the thread *)
(* as owner is unlocked, or the first whose buffer names it has its entry  *)
(* cancelled.                                                              *)
(***************************************************************************)
Names(m, t) == locker_tid[m] = t \/ Contains(ids[m], t)
FirstNaming(t) ==
    CHOOSE m \in ToSet(mutexes_list) :
        /\ Names(m, t)
        /\ \A j, k \in DOMAIN mutexes_list :
                mutexes_list[j] = m /\ k < j => ~Names(mutexes_list[k], t)
EntryOf(m, t) ==
    CHOOSE j \in DOMAIN ids[m] : ids[m][j] = t /\ \A k \in 1 .. j - 1 : ids[m][k] # t

CancelZero == NoMtx
CancelMark == NoThread

CancelNothing(t) == UNCHANGED <<locker_tid, ids>>
cancel_wait_on_mutex(t) ==
    LET m == FirstNaming(t)
    IN  IF locker_tid[m] = t THEN unlock_mutex(m)
        ELSE /\ ids' = [ids EXCEPT ![m][EntryOf(m, t)] = CancelMark]
             /\ UNCHANGED locker_tid

(* thread_kill.  Only an untimed wait is cancelled.  When no mutex names   *)
(* the victim the kernel panics: not a step.  The kill of a thread asleep  *)
(* for a mutex is Kill of Threads as far as states and buffers go; the     *)
(* scheduler's links are not sound after it (see Kill).                    *)
thread_kill(t) ==
    /\ Kills
    /\ current # NoThread /\ InApp(current)
    /\ Untidy \/ Owns(t) = {}
    /\ IF status[t] = "WAITING" /\ waits[t] = {"MUTEX"}
       THEN (\E m \in ToSet(mutexes_list) : Names(m, t)) /\ cancel_wait_on_mutex(t)
       ELSE UNCHANGED <<locker_tid, ids>>
    /\ ret' = "none"
    /\ Kill(t)
    /\ UNCHANGED <<mutexes_list, calls, timed, held>>

(* A slot is used again for a new thread; the mutexes do not hear of it.   *)
thread_create(t) ==
    /\ Reuse
    /\ current # NoThread /\ InApp(current)
    /\ Create(t)
    /\ calls' = [calls EXCEPT ![t] = NoMtx]
    /\ held' = [held EXCEPT ![t] = {}]
    /\ timed' = timed \ {t}
    /\ ret' = "none"
    /\ UNCHANGED <<mutexes_list, locker_tid, ids>>

(* What the thread does apart from the mutexes.                            *)
thread_suspend ==
    /\ current # NoThread /\ InApp(current)
    /\ Yield /\ ret' = "none"
    /\ UNCHANGED <<mutexes_list, locker_tid, ids, calls, timed, held>>

thread_terminate ==
    /\ current # NoThread /\ InApp(current)
    /\ Untidy \/ Owns(current) = {}
    /\ Exit /\ ret' = "none"
    /\ UNCHANGED <<mutexes_list, locker_tid, ids, calls, timed, held>>

Scheduling ==
    /\ Tick \/ \E t \in Thread : Background(t)
    /\ ret' = "none"
    /\ UNCHANGED <<mutexes_list, locker_tid, ids, calls, timed, held>>

Next ==
    \/ \E m \in Mtx :
        \/ thread_create_mutex(m) \/ thread_destroy_mutex(m)
        \/ LockFree(m) \/ LockRefused(m) \/ thread_unlock_mutex(m)
        \/ \E msecs \in Timeouts : LockWaits(m, msecs)
    \/ LockReturns
    \/ \E t \in Thread : thread_kill(t) \/ thread_create(t)
    \/ thread_suspend \/ thread_terminate \/ Scheduling

Spec == Init /\ [][Next]_vars

(***************************************************************************)
(* Properties.                                                             *)
(***************************************************************************)
Live(t) == status[t] \notin {"NONE", "DEAD"} /\ t \notin doomed

(* diegos.txi: "Unless the mutex is unlocked, no other thread is allowed   *)
(* to enter the same critical code section".  No two living threads take   *)
(* themselves to hold the same mutex.                                      *)
MutualExclusion ==
    \A m \in Mtx : \A t, u \in Thread :
        t # u /\ Live(t) /\ Live(u) => ~(m \in held[t] /\ m \in held[u])

(* diegos.txi: "Once the first thread has released (unlocked) the mutex,   *)
(* the threads waiting for a lock will be run one at a time".  A hand-over *)
(* is never lost: the owner of a mutex is not asleep in the call that      *)
(* waits for it.                                                           *)
OwnerAwake ==
    \A t \in Thread : status[t] = "WAITING" /\ calls[t] # NoMtx
                        => locker_tid[calls[t]] # t

(* A thread that waits for a mutex, without a timeout, is in its buffer    *)
(* exactly once, and the mutex has an owner who will hand it over.         *)
WaiterQueued ==
    \A t \in Thread :
        status[t] = "WAITING" /\ Live(t) /\ calls[t] # NoMtx =>
            /\ locker_tid[calls[t]] # NoThread
            /\ Cardinality({j \in DOMAIN ids[calls[t]] : ids[calls[t]][j] = t}) = 1

(* unlock_mutex never looks up a thread that is gone: every entry of a     *)
(* buffer that is not cancelled is a thread waiting for that mutex.        *)
EntriesWait ==
    \A m \in Mtx : \A j \in DOMAIN ids[m] :
        ids[m][j] # NoThread =>
            /\ status[ids[m][j]] = "WAITING"
            /\ calls[ids[m][j]] = m

(* mutexes.h: "ETIMEDOUT if the timeout expires before the mutex is        *)
(* locked".  A thread that was told so does not become the owner: an owner *)
(* holds the mutex or is in the call that waits for it.                    *)
OwnerAsked ==
    \A m \in Mtx, t \in Thread :
        locker_tid[m] = t /\ Live(t) => m \in held[t] \/ calls[t] = m

(* mutexes.h: "EOK on success", "EBUSY if the thread has already locked    *)
(* the mutex".  A lock call that takes a mutex answers EOK.                *)
LockAnswersEOK ==
    [][\A m \in Mtx : locker_tid[m] = NoThread /\ locker_tid'[m] # NoThread
                        => ret' = "EOK"]_vars

(* Fairness: the scheduler serves every READY thread in turn, a call that  *)
(* was interrupted goes on, and a thread does not keep a mutex for ever.   *)
Fairness ==
    /\ WF_vars(LockReturns)
    /\ WF_vars(thread_suspend)
    /\ \A t \in Thread : SF_vars(Scheduling /\ Dispatch(t))
    /\ \A m \in Mtx : SF_vars(thread_unlock_mutex(m))

FairSpec == Spec /\ Fairness

(* Two threads that each wait for the mutex of the other.                  *)
Crossed ==
    \E t, u \in Thread : /\ t # u /\ calls[t] # NoMtx /\ calls[u] # NoMtx
                         /\ calls[t] \in held[u] /\ calls[u] \in held[t]

(* No hand-over of mutex.c is lost: the owner unlock_mutex chooses is      *)
(* awake, a thread that waits has one entry in the buffer of its mutex,    *)
(* and an entry of the buffer names a thread that waits, whoever was       *)
(* killed and whichever slots were used again.                             *)
WaitersKept ==
    /\ MutexTypeOK
    /\ OwnerAwake
    /\ WaiterQueued
    /\ EntriesWait

=============================================================================
