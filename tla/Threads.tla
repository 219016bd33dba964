------------------------------- MODULE Threads -------------------------------
(***************************************************************************)
(* What the scheduler promises to the rest of the kernel.                  *)
(*                                                                         *)
(* One thread at a time has the processor and keeps it until it calls the  *)
(* kernel.  A thread that waits becomes READY when the primitive it waits  *)
(* for resumes it, or when its time has come, and not otherwise.  A thread *)
(* that was killed never gets the processor again.  Queues, priorities and *)
(* the passes of update_schedule are left out: Scheduler has them, and     *)
(* implements this specification.                                          *)
(*                                                                         *)
(* Modules that model a primitive EXTEND this one: they take its state,    *)
(* and compose their own steps with Block and Wake.                        *)
(***************************************************************************)
EXTENDS Integers, FiniteSets

CONSTANTS
    Thread,     \* thread identifiers
    NoThread,   \* THREAD_TID_INVALID
    Eternal,    \* the system threads, which cannot be killed
    MaxTime     \* bound on the clock

ASSUME NoThreadAssumption == NoThread \notin Thread
ASSUME EternalAssumption == Eternal \subseteq Thread
ASSUME BoundAssumption == MaxTime \in Nat

WaitFlag == {"MUTEX", "EVENT", "BARRIER", "COMPLETION", "TIMEOUT"}
Status   == {"NONE", "READY", "RUNNING", "WAITING", "DEAD"}

VARIABLES
    current,    \* the thread that has the processor, or NoThread
    status,     \* "NONE" is a free slot of the thread table
    waits,      \* the wait flags of each thread
    wake,       \* the time at which a timed wait expires
    doomed,     \* threads flagged THREAD_FLAG_TERMINATE
    now         \* milliseconds since boot

threadsVars == <<current, status, waits, wake, doomed, now>>

ThreadsTypeOK ==
    /\ current \in Thread \cup {NoThread}
    /\ status \in [Thread -> Status]
    /\ waits \in [Thread -> SUBSET WaitFlag]
    /\ wake \in [Thread -> Nat]
    /\ doomed \subseteq Thread
    /\ now \in Nat

(* Some threads exist before kernel_run; none of them runs.                *)
ThreadsInit ==
    /\ current = NoThread
    /\ status \in [Thread -> {"NONE", "READY"}]
    /\ waits = [t \in Thread |-> {}]
    /\ wake = [t \in Thread |-> 0]
    /\ doomed = {}
    /\ now = 0

(***************************************************************************)
(* Steps of the thread that has the processor.                             *)
(***************************************************************************)

(* thread_suspend *)
Yield ==
    /\ current # NoThread
    /\ status' = [status EXCEPT ![current] = "READY"]
    /\ current' = NoThread
    /\ UNCHANGED <<waits, wake, doomed, now>>

(* scheduler_wait_thread, scheduler_delay_thread: msecs = 0 is no timeout. *)
Block(fl, msecs) ==
    /\ current # NoThread
    /\ status' = [status EXCEPT ![current] = "WAITING"]
    /\ waits' = [waits EXCEPT ![current] =
                    fl \cup (IF msecs = 0 THEN {} ELSE {"TIMEOUT"})]
    /\ wake' = [wake EXCEPT ![current] = IF msecs = 0 THEN 0 ELSE now + msecs]
    /\ current' = NoThread
    /\ UNCHANGED <<doomed, now>>

(* thread_terminate *)
Exit ==
    /\ current \in Thread \ Eternal
    /\ status' = [status EXCEPT ![current] = "DEAD"]
    /\ current' = NoThread
    /\ UNCHANGED <<waits, wake, doomed, now>>

(* thread_create *)
Create(t) ==
    /\ status[t] = "NONE"
    /\ status' = [status EXCEPT ![t] = "READY"]
    /\ UNCHANGED <<current, waits, wake, doomed, now>>

(* thread_kill.  The victim keeps its place until the scheduler finds the  *)
(* flag; a victim that waits for a mutex and for nothing else is dead at   *)
(* once.  The code links such a victim in dead_queue without taking it out *)
(* of wait_queue, and the sleepers behind it are cut off: this is what     *)
(* becomes of its state only, and Scheduler implements Kill for the other  *)
(* victims (SparesMutexWaiters).                                           *)
Kill(t) ==
    /\ t \in Thread \ (Eternal \cup {current})
    /\ status[t] \in {"READY", "WAITING"}
    /\ doomed' = doomed \cup {t}
    /\ status' = [status EXCEPT ![t] =
                    IF @ = "WAITING" /\ waits[t] = {"MUTEX"} THEN "DEAD" ELSE @]
    /\ waits' = [waits EXCEPT ![t] = IF status[t] = "WAITING" THEN {} ELSE @]
    /\ UNCHANGED <<current, wake, now>>

(***************************************************************************)
(* Steps of the scheduler.                                                 *)
(***************************************************************************)

(* scheduler_resume_thread, called by a primitive for the threads of S.    *)
Resumable(f, S) == {t \in S : status[t] = "WAITING" /\ f \in waits[t]}

Wake(f, S) ==
    LET R == Resumable(f, S)
    IN  /\ status' = [t \in Thread |-> IF t \in R THEN "READY" ELSE status[t]]
        /\ waits' = [t \in Thread |-> IF t \in R THEN {} ELSE waits[t]]
        /\ wake' = [t \in Thread |-> IF t \in R THEN 0 ELSE wake[t]]
        /\ UNCHANGED <<current, doomed, now>>

(* A timed wait expires.                                                   *)
Timeout(t) ==
    /\ status[t] = "WAITING" /\ "TIMEOUT" \in waits[t]
    /\ wake[t] <= now
    /\ status' = [status EXCEPT ![t] = "READY"]
    /\ waits' = [waits EXCEPT ![t] = {}]
    /\ wake' = [wake EXCEPT ![t] = 0]
    /\ UNCHANGED <<current, doomed, now>>

(* A killed thread is moved to dead_queue.                                 *)
Bury(t) ==
    /\ t \in doomed /\ status[t] \in {"READY", "WAITING"}
    /\ status' = [status EXCEPT ![t] = "DEAD"]
    /\ UNCHANGED <<current, waits, wake, doomed, now>>

(* house_keeping frees the slot of a dead thread.                          *)
Reap(t) ==
    /\ status[t] = "DEAD"
    /\ status' = [status EXCEPT ![t] = "NONE"]
    /\ waits' = [waits EXCEPT ![t] = {}]
    /\ wake' = [wake EXCEPT ![t] = 0]
    /\ doomed' = doomed \ {t}
    /\ UNCHANGED <<current, now>>

(* new_runner *)
Dispatch(t) ==
    /\ current = NoThread
    /\ status[t] = "READY" /\ t \notin doomed
    /\ status' = [status EXCEPT ![t] = "RUNNING"]
    /\ current' = t
    /\ UNCHANGED <<waits, wake, doomed, now>>

(* clock_int_handler *)
Tick ==
    /\ now' \in now + 1 .. MaxTime
    /\ UNCHANGED <<current, status, waits, wake, doomed>>

Background(t) == Timeout(t) \/ Bury(t) \/ Reap(t) \/ Dispatch(t)

ThreadsNext ==
    \/ Yield \/ Exit \/ Tick
    \/ \E fl \in SUBSET (WaitFlag \ {"TIMEOUT"}), msecs \in 0 .. MaxTime :
            Block(fl, msecs)
    \/ \E f \in WaitFlag \ {"TIMEOUT"} :
            Wake(f, {t \in Thread : status'[t] # status[t]})
    \/ \E t \in Thread : Create(t) \/ Kill(t) \/ Background(t)

ThreadsSpec == ThreadsInit /\ [][ThreadsNext]_threadsVars

=============================================================================
