------------------------------ MODULE Scheduler ------------------------------
(***************************************************************************)
(* The cooperative thread scheduler of DiegOS: kernel/scheduler.c, the     *)
(* thread API of kernel/kernel.c and the thread table of kernel/threads.c. *)
(*                                                                         *)
(* There is one CPU and no pre-emption.  Kernel code is a sequential       *)
(* program, followed here by the program counter pc; every iteration of a  *)
(* loop is a step of its own, because clock and device interrupts may      *)
(* arrive between any two of them.  Interrupts only advance the clock      *)
(* (now) and mark threads whose wait is over (signalled); all queues and   *)
(* thread states are changed by thread context code alone.                 *)
(*                                                                         *)
(* The primitives that make a thread wait (mutex, events, barriers, I/O    *)
(* waits, poll) appear as the sets of threads they have marked; the        *)
(* modules of the primitives build on Threads, the specification this one  *)
(* implements.                                                             *)
(*                                                                         *)
(* Some helpers are preceded by a second definition with the same          *)
(* parameters: a plausible mistake in the code the helper translates,      *)
(* which no specification uses and which breaks one of the properties.     *)
(***************************************************************************)
EXTENDS Integers, Sequences, FiniteSets, SequencesExt

CONSTANTS
    MaxThreads,     \* DIEGOS_MAX_THREADS
    CreatePrios,    \* priorities applications give their threads
    SchedDelayMax,  \* SCHED_DELAY_MAX
    Delays,         \* arguments of thread_delay
    Timeouts,       \* msecs arguments of the waits, 0 is "no timeout"
    Sources,        \* interrupt sources that signal in this instance
    WaitKinds,      \* wait flags application threads use in this instance
    KillTargets,    \* sets of wait flags a WAITING victim may carry
    Calls,          \* thread API calls application threads make
    MaxTime         \* bound on the clock

THREAD_TID_IDLE    == 0
THREAD_TID_TMRS    == 1
THREAD_TID_INVALID == 255
THREAD_PRIORITIES  == 4

Tid  == 0 .. MaxThreads - 1
Prio == 0 .. THREAD_PRIORITIES - 1

SystemTids == {THREAD_TID_IDLE, THREAD_TID_TMRS}

THREAD_MASK_EVENTS == {"MUTEX", "EVENT", "BARRIER", "COMPLETION"}
THREAD_MASK_WAIT   == THREAD_MASK_EVENTS \cup {"TIMEOUT"}
Flag               == THREAD_MASK_WAIT \cup {"TERMINATE"}
ThreadState        == {"RUNNING", "WAITING", "READY", "DEAD"}

(* The four passes that open update_schedule, in program order, and the    *)
(* wait flag each of them passes to scheduler_resume_thread.               *)
Source == {"events", "barriers", "io_wait", "poll"}
SourceFlag == [events   |-> "EVENT",      barriers |-> "BARRIER",
               io_wait  |-> "COMPLETION", poll     |-> "COMPLETION"]
AfterPass  == [events   |-> "barriers",   barriers |-> "io_wait",
               io_wait  |-> "poll",       poll     |-> "waiting"]

PC == Source \cup {"boot", "user", "waiting", "waiting_loop", "delayed",
                   "delayed_loop", "set_period", "may_check", "runner",
                   "house", "house_loop", "switch", "panic"}

CallNames == {"suspend", "may_suspend", "delay", "wait", "terminate",
              "create", "kill", "unlock"}

ASSUME ThreadsAssumption ==
    /\ MaxThreads \in Nat
    /\ 2 <= MaxThreads /\ MaxThreads < THREAD_TID_INVALID
ASSUME PrioAssumption == CreatePrios \subseteq Prio
ASSUME TimeAssumption ==
    /\ SchedDelayMax \in Nat \ {0}
    /\ MaxTime \in Nat
    /\ Delays \subseteq Nat \ {0}
    /\ Timeouts \subseteq Nat
ASSUME EnvironmentAssumption ==
    /\ Sources \subseteq Source
    /\ WaitKinds \subseteq THREAD_MASK_EVENTS
    /\ KillTargets \subseteq SUBSET THREAD_MASK_WAIT
    /\ Calls \subseteq CallNames

VARIABLES
    alive,          \* {t : thread_storage[t].tid = t}
    thread_num,     \* number of slots in use, as threads.c counts it
    prio, state, flags, delay,      \* the fields of thread_storage[t]
    ready,          \* ready_queues, one sequence of tids per priority
    waitq, delayq, deadq,           \* wait_queue, delay_queue, dead_queue
    running,        \* the static variable of the same name
    cpu,            \* the thread on whose stack the processor executes
    pc,             \* where kernel code is
    mode,           \* who called update_schedule
    i,              \* loop counter of schedule_waiting and house_keeping
    expiration,     \* the clock value those functions have read
    new_delay_wq, new_delay_dq,     \* as in scheduler.c
    period,         \* the clock period the scheduler asked for
    now,            \* milliseconds since boot
    signalled       \* threads each source has marked for resumption

slotVars   == <<alive, thread_num, prio>>
fieldVars  == <<state, flags, delay>>
threadVars == <<slotVars, fieldVars>>
queueVars  == <<ready, waitq, delayq, deadq>>
cpuVars    == <<running, cpu>>
loopVars   == <<i, expiration>>
delayVars  == <<new_delay_wq, new_delay_dq, period>>
envVars    == <<now, signalled>>
vars == <<threadVars, queueVars, cpuVars, pc, mode, loopVars, delayVars,
          envVars>>

ThreadTypes ==
    /\ alive \subseteq Tid
    /\ thread_num \in Int
    /\ prio \in [Tid -> Prio]
    /\ state \in [Tid -> ThreadState]
    /\ flags \in [Tid -> SUBSET Flag]
    /\ delay \in [Tid -> Nat]

QueueTypes ==
    /\ ready \in [Prio -> Seq(Tid)]
    /\ waitq \in Seq(Tid)
    /\ delayq \in Seq(Tid)
    /\ deadq \in Seq(Tid)

ControlTypes ==
    /\ running \in Tid \cup {THREAD_TID_INVALID}
    /\ cpu \in Tid \cup {THREAD_TID_INVALID}
    /\ pc \in PC
    /\ mode \in {"schedule", "may"}
    /\ i \in Nat
    /\ expiration \in Nat

ClockTypes ==
    /\ new_delay_wq \in Nat
    /\ new_delay_dq \in Nat
    /\ period \in Nat
    /\ now \in Nat
    /\ signalled \in [Source -> SUBSET Tid]

(* Every variable has its C type; in particular no loop counter, delay or  *)
(* period, unsigned in the code, goes below zero.                          *)
TypeOK == ThreadTypes /\ QueueTypes /\ ControlTypes /\ ClockTypes

(***************************************************************************)
(* Boot: kernel_threads_init has created the Idle and the Timers thread.   *)
(* A slot that is not in use was zeroed, and 0 is THREAD_RUNNING.          *)
(***************************************************************************)
Init ==
    /\ alive = SystemTids
    /\ thread_num = 2
    /\ prio = [t \in Tid |-> IF t = THREAD_TID_IDLE THEN 3 ELSE 0]
    /\ state = [t \in Tid |-> IF t \in SystemTids THEN "READY" ELSE "RUNNING"]
    /\ flags = [t \in Tid |-> {}]
    /\ delay = [t \in Tid |-> 0]
    /\ ready = [p \in Prio |-> IF p = 0 THEN <<THREAD_TID_TMRS>>
                               ELSE IF p = 3 THEN <<THREAD_TID_IDLE>> ELSE <<>>]
    /\ waitq = <<>> /\ delayq = <<>> /\ deadq = <<>>
    /\ running = THREAD_TID_INVALID
    /\ cpu = THREAD_TID_INVALID
    /\ pc = "boot"
    /\ mode = "schedule"
    /\ i = 0 /\ expiration = 0
    /\ new_delay_wq = SchedDelayMax /\ new_delay_dq = SchedDelayMax
    /\ period = SchedDelayMax
    /\ now = 0
    /\ signalled = [s \in Source |-> {}]

(* schedule_thread and the update_schedule of thread_may_suspend both      *)
(* start with the first of the four resume passes.                         *)
EnterSchedule(m) == pc' = "events" /\ mode' = m

(* kernel_run, on the boot stack, with no thread running yet.              *)
KernelRun ==
    /\ pc = "boot"
    /\ EnterSchedule("schedule")
    /\ UNCHANGED <<threadVars, queueVars, cpuVars, loopVars, delayVars,
                   envVars>>

(***************************************************************************)
(* Thread table.                                                           *)
(***************************************************************************)

(* init_thread takes the first free slot; thread_create adds the thread to *)
(* the ready queue of its priority.  The calls that fail (no slot, a name  *)
(* in use, no memory for the stack) change nothing and are not steps.      *)
thread_create(p) ==
    /\ thread_num # MaxThreads
    /\ \E t \in Tid \ alive :
        /\ \A u \in Tid : u < t => u \in alive
        /\ alive' = alive \cup {t}
        /\ prio' = [prio EXCEPT ![t] = p]
        /\ state' = [state EXCEPT ![t] = "READY"]
        /\ delay' = [delay EXCEPT ![t] = 0]
        /\ ready' = [ready EXCEPT ![p] = Append(@, t)]
    /\ thread_num' = thread_num + 1
    /\ UNCHANGED <<flags, waitq, delayq, deadq, cpuVars, pc, mode, loopVars,
                   delayVars, envVars>>

(* scheduler_resume_thread(fl, t): its two checks and its effect.          *)
CanResume(fl, t) ==
    /\ t \in alive
    /\ state[t] = "WAITING"
    /\ fl \cap flags[t] \cap THREAD_MASK_WAIT # {}

ResumedStateKept(t) == state[t]
ResumedState(t) == "READY"

ResumeAll(fl, S) ==
    LET R == {t \in S : CanResume(fl, t)}
    IN  /\ state' = [t \in Tid |-> IF t \in R THEN ResumedState(t) ELSE state[t]]
        /\ flags' = [t \in Tid |-> IF t \in R THEN flags[t] \ THREAD_MASK_WAIT
                                              ELSE flags[t]]
        /\ delay' = [t \in Tid |-> IF t \in R THEN 0 ELSE delay[t]]

(***************************************************************************)
(* Calls a running thread makes.                                           *)
(***************************************************************************)

(* scheduler_suspend_thread and the schedule_thread that follows it.       *)
SuspendRunning ==
    /\ ready' = [ready EXCEPT ![prio[running]] = Append(@, running)]
    /\ state' = [state EXCEPT ![running] = "READY"]
    /\ EnterSchedule("schedule")
    /\ UNCHANGED <<slotVars, flags, delay, waitq, delayq, deadq, cpuVars,
                   loopVars, delayVars, envVars>>

thread_suspend == pc = "user" /\ SuspendRunning

thread_may_suspend ==
    /\ pc = "user"
    /\ EnterSchedule("may")
    /\ UNCHANGED <<threadVars, queueVars, cpuVars, loopVars, delayVars,
                   envVars>>

(* scheduler_delay_thread walks delay_queue to the first thread that       *)
(* expires later than wake, and inserts the running thread before it.      *)
DelayAtTail(p, wake)  == p = Len(delayq) + 1
DelayPlace(p, wake) ==
    /\ \A j \in 1 .. p - 1 : delay[delayq[j]] <= wake
    /\ p <= Len(delayq) => wake < delay[delayq[p]]

thread_delay(msecs) ==
    /\ pc = "user"
    /\ running \notin SystemTids
    /\ LET wake == msecs + now
       IN  /\ \E p \in 1 .. Len(delayq) + 1 :
                DelayPlace(p, wake) /\ delayq' = InsertAt(delayq, p, running)
           /\ delay' = [delay EXCEPT ![running] = wake]
    /\ flags' = [flags EXCEPT ![running] = (@ \ THREAD_MASK_WAIT) \cup {"TIMEOUT"}]
    /\ state' = [state EXCEPT ![running] = "WAITING"]
    /\ EnterSchedule("schedule")
    /\ UNCHANGED <<slotVars, ready, waitq, deadq, cpuVars, loopVars,
                   delayVars, envVars>>

(* scheduler_wait_thread and the schedule_thread every wait ends with.     *)
WaitRunning(kind, msecs) ==
    /\ running # THREAD_TID_IDLE
    /\ waitq' = Append(waitq, running)
    /\ flags' = [flags EXCEPT ![running] = (@ \ THREAD_MASK_WAIT) \cup {kind}
                                \cup (IF msecs = 0 THEN {} ELSE {"TIMEOUT"})]
    /\ state' = [state EXCEPT ![running] = "WAITING"]
    /\ delay' = [delay EXCEPT ![running] = IF msecs = 0 THEN 0 ELSE now + msecs]
    /\ EnterSchedule("schedule")
    /\ UNCHANGED <<slotVars, ready, delayq, deadq, cpuVars, loopVars,
                   delayVars>>

Wait(kind, msecs) == pc = "user" /\ WaitRunning(kind, msecs) /\ UNCHANGED envVars

(* thread_terminate: the RUNNING case of scheduler_remove_thread.          *)
thread_terminate ==
    /\ pc = "user"
    /\ running \notin SystemTids
    /\ state' = [state EXCEPT ![running] = "DEAD"]
    /\ deadq' = Append(deadq, running)
    /\ EnterSchedule("schedule")
    /\ UNCHANGED <<slotVars, flags, delay, ready, waitq, delayq, cpuVars,
                   loopVars, delayVars, envVars>>

(* The cancel_* call scheduler_remove_thread makes for the victim's wait   *)
(* flags w; a wait that also carries TIMEOUT matches no case of the        *)
(* switch, and the bit of poll is never cleared.                           *)
CancelledSource(w) == {s \in Source \ {"poll"} : w = {SourceFlag[s]}}

(* scheduler_remove_thread of a thread other than the running one.  It     *)
(* returns FALSE when there is no such thread, for a system thread, for a  *)
(* DEAD one, and when the primitive finds nothing to cancel: a barrier or  *)
(* an event queue may have been destroyed under its waiters.               *)
RemovableSystem(t) == t \in alive /\ state[t] # "DEAD"
Removable(t) == t \in alive \ SystemTids /\ state[t] # "DEAD"

CancelRefused(t) ==
    /\ state[t] = "WAITING"
    /\ flags[t] \cap THREAD_MASK_WAIT \in {{"EVENT"}, {"BARRIER"}}

RemoveThread(t) ==
    LET w == flags[t] \cap THREAD_MASK_WAIT
    IN  /\ Removable(t)
        /\ flags' = [flags EXCEPT ![t] =
                        (IF state[t] = "WAITING" THEN @ \ THREAD_MASK_WAIT ELSE @)
                        \cup {"TERMINATE"}]
        /\ IF state[t] = "WAITING" /\ w = {"MUTEX"}
           THEN /\ state' = [state EXCEPT ![t] = "DEAD"]
                /\ deadq' = Append(deadq, t)
           ELSE UNCHANGED <<state, deadq>>
        /\ signalled' = [s \in Source |->
                IF state[t] = "WAITING" /\ s \in CancelledSource(w)
                THEN signalled[s] \ {t} ELSE signalled[s]]
        /\ UNCHANGED <<slotVars, delay, ready, waitq, delayq, cpuVars, pc, mode,
                       loopVars, delayVars, now>>

(* thread_kill panics when scheduler_remove_thread refuses.                *)
PanicKill(t) ==
    /\ ~Removable(t) \/ CancelRefused(t)
    /\ pc' = "panic"
    /\ UNCHANGED <<threadVars, queueVars, cpuVars, mode, loopVars, delayVars,
                   envVars>>

thread_kill(t) ==
    /\ pc = "user"
    /\ t # running
    /\ RemoveThread(t) \/ PanicKill(t)

(* thread_unlock_mutex hands the mutex over and resumes the new owner.     *)
UnlockResume(t) ==
    /\ pc = "user"
    /\ CanResume({"MUTEX"}, t)
    /\ ResumeAll({"MUTEX"}, {t})
    /\ UNCHANGED <<slotVars, queueVars, cpuVars, pc, mode, loopVars,
                   delayVars, envVars>>

(***************************************************************************)
(* update_schedule.                                                        *)
(***************************************************************************)

(* resume_on_events, resume_on_barriers, resume_on_io_wait, resume_on_poll *)
ResumePass(s) ==
    /\ pc = s
    /\ ResumeAll({SourceFlag[s]}, signalled[s])
    /\ signalled' = [signalled EXCEPT ![s] = {}]
    /\ pc' = AfterPass[s]
    /\ UNCHANGED <<slotVars, queueVars, cpuVars, mode, loopVars, delayVars,
                   now>>

(* update_new_delay *)
NewDelay(t, nd) ==
    IF delay[t] > expiration /\ delay[t] - expiration < nd
    THEN delay[t] - expiration ELSE nd

RollForgotten(q) == q
queue_roll(q) == IF Len(q) > 1 THEN Append(Tail(q), Head(q)) ELSE q

(* schedule_waiting is entered only when wait_queue is not empty; it       *)
(* examines as many entries as the queue holds when it starts.             *)
WaitCountLong == Len(waitq) + 1
WaitCount == Len(waitq)

WaitingStart ==
    /\ pc = "waiting"
    /\ IF waitq # <<>>
       THEN /\ pc' = "waiting_loop"
            /\ i' = WaitCount
            /\ expiration' = now
            /\ new_delay_wq' = SchedDelayMax
       ELSE /\ pc' = "delayed"
            /\ UNCHANGED <<loopVars, new_delay_wq>>
    /\ UNCHANGED <<threadVars, queueVars, cpuVars, mode, new_delay_dq, period,
                   envVars>>

(* One iteration: the head of wait_queue is examined, possibly taken out,  *)
(* and what is left of the queue is rolled in every case.                  *)
IterationPastZero == i >= 0
IterationLeft == i > 0

ExpiredEarly(t) == delay[t] <= expiration + 1
Expired(t) == delay[t] <= expiration

HeadNotTaken == queue_roll(waitq)
HeadTaken == queue_roll(Tail(waitq))

WaitingIteration ==
    /\ pc = "waiting_loop"
    /\ IterationLeft
    /\ i' = i - 1
    /\ UNCHANGED <<slotVars, delayq, cpuVars, pc, mode, expiration,
                   new_delay_dq, period, envVars>>

(* WAITING and flagged TERMINATE: moved to dead_queue.                     *)
WaitingTerminated ==
    LET t == Head(waitq)
    IN  /\ WaitingIteration
        /\ state[t] = "WAITING" /\ "TERMINATE" \in flags[t]
        /\ waitq' = HeadTaken
        /\ deadq' = Append(deadq, t)
        /\ state' = [state EXCEPT ![t] = "DEAD"]
        /\ UNCHANGED <<flags, delay, ready, new_delay_wq>>

(* WAITING with a timeout that has expired: resumed and made ready.        *)
WaitingExpired ==
    LET t  == Head(waitq)
        fl == flags[t] \cap THREAD_MASK_EVENTS
    IN  /\ WaitingIteration
        /\ state[t] = "WAITING" /\ "TERMINATE" \notin flags[t]
        /\ "TIMEOUT" \in flags[t] /\ Expired(t)
        /\ waitq' = HeadTaken
        /\ ResumeAll(fl, {t})
        /\ ready' = IF CanResume(fl, t)
                    THEN [ready EXCEPT ![prio[t]] = Append(@, t)] ELSE ready
        /\ UNCHANGED <<deadq, new_delay_wq>>

(* Still WAITING, with or without a timeout, or in a state that only gets  *)
(* an error message.                                                       *)
WaitingStays ==
    LET t == Head(waitq)
    IN  /\ WaitingIteration
        /\ state[t] = "WAITING" => /\ "TERMINATE" \notin flags[t]
                                   /\ "TIMEOUT" \in flags[t] => ~Expired(t)
        /\ state[t] # "READY"
        /\ waitq' = queue_roll(waitq)
        /\ new_delay_wq' = IF state[t] = "WAITING" /\ "TIMEOUT" \in flags[t]
                           THEN NewDelay(t, new_delay_wq) ELSE new_delay_wq
        /\ UNCHANGED <<fieldVars, ready, deadq>>

(* Already resumed by its primitive: moved to its ready queue.             *)
WaitingReady ==
    LET t == Head(waitq)
    IN  /\ WaitingIteration
        /\ state[t] = "READY"
        /\ waitq' = HeadTaken
        /\ ready' = [ready EXCEPT ![prio[t]] = Append(@, t)]
        /\ UNCHANGED <<fieldVars, deadq, new_delay_wq>>

WaitingEnd ==
    /\ pc = "waiting_loop"
    /\ i = 0
    /\ pc' = "delayed"
    /\ expiration' = 0
    /\ UNCHANGED <<threadVars, queueVars, cpuVars, mode, i, delayVars,
                   envVars>>

(* schedule_delayed is entered only when delay_queue is not empty.         *)
DelayedStart ==
    /\ pc = "delayed"
    /\ IF delayq # <<>>
       THEN /\ pc' = "delayed_loop"
            /\ expiration' = now
            /\ new_delay_dq' = SchedDelayMax
       ELSE /\ pc' = "set_period"
            /\ UNCHANGED <<expiration, new_delay_dq>>
    /\ UNCHANGED <<threadVars, queueVars, cpuVars, mode, i, new_delay_wq,
                   period, envVars>>

(* The head of delay_queue has expired.  When scheduler_resume_thread      *)
(* refuses it, it has left the queue all the same.                         *)
SleepFlagsOfWait == THREAD_MASK_EVENTS
SleepFlags == {"TIMEOUT"}

DelayedExpired ==
    LET t == Head(delayq)
    IN  /\ pc = "delayed_loop"
        /\ delayq # <<>> /\ Expired(t)
        /\ delayq' = Tail(delayq)
        /\ ResumeAll(SleepFlags, {t})
        /\ ready' = IF CanResume(SleepFlags, t)
                    THEN [ready EXCEPT ![prio[t]] = Append(@, t)] ELSE ready
        /\ UNCHANGED <<slotVars, waitq, deadq, cpuVars, pc, mode, loopVars,
                       delayVars, envVars>>

DelayedEnd ==
    /\ pc = "delayed_loop"
    /\ delayq # <<>> => ~Expired(Head(delayq))
    /\ new_delay_dq' = IF delayq = <<>> THEN new_delay_dq
                       ELSE NewDelay(Head(delayq), new_delay_dq)
    /\ pc' = "set_period"
    /\ expiration' = 0
    /\ UNCHANGED <<threadVars, queueVars, cpuVars, mode, i, new_delay_wq,
                   period, envVars>>

(* The end of update_schedule.                                             *)
SetPeriod ==
    /\ pc = "set_period"
    /\ period' = IF new_delay_dq < new_delay_wq THEN new_delay_dq
                                                ELSE new_delay_wq
    /\ pc' = IF mode = "schedule" THEN "runner" ELSE "may_check"
    /\ UNCHANGED <<threadVars, queueVars, cpuVars, mode, loopVars,
                   new_delay_wq, new_delay_dq, envVars>>

(* thread_may_suspend after its update_schedule: scheduler_ready_threads   *)
(* counts the ready queues above the caller's priority.                    *)
HigherReady(t) == \E q \in Prio : q < prio[t] /\ ready[q] # <<>>

MayStay ==
    /\ pc = "may_check"
    /\ ~HigherReady(running)
    /\ pc' = "user"
    /\ mode' = "schedule"
    /\ UNCHANGED <<threadVars, queueVars, cpuVars, loopVars, delayVars,
                   envVars>>

MaySuspend == pc = "may_check" /\ HigherReady(running) /\ SuspendRunning

(***************************************************************************)
(* schedule_thread after update_schedule.                                  *)
(***************************************************************************)
ReadyPrios == {q \in Prio : ready[q] # <<>>}

(* schedule_thread serves the first queue that is not empty; nothing       *)
(* refills a queue above it while new_runner empties one.                  *)
LastReady(q)  == q \in ReadyPrios /\ \A r \in ReadyPrios : r <= q
FirstReady(q) == q \in ReadyPrios /\ \A r \in ReadyPrios : q <= r

DoomedUnseen(t) == FALSE
Doomed(t) == "TERMINATE" \in flags[t]

(* One iteration of new_runner.  With every queue empty schedule_thread    *)
(* would return to the caller it has just queued: IdleSchedulable is why   *)
(* that is not a step.                                                     *)
NewRunner ==
    /\ pc = "runner"
    /\ \E q \in Prio :
        /\ FirstReady(q)
        /\ LET t == Head(ready[q])
           IN  /\ ready' = [ready EXCEPT ![q] = Tail(@)]
               /\ IF Doomed(t)
                  THEN /\ deadq' = Append(deadq, t)
                       /\ state' = [state EXCEPT ![t] = "DEAD"]
                       /\ UNCHANGED <<running, pc>>
                  ELSE /\ running' = t
                       /\ state' = [state EXCEPT ![t] = "RUNNING"]
                       /\ pc' = "house"
                       /\ UNCHANGED deadq
    /\ UNCHANGED <<slotVars, flags, delay, waitq, delayq, cpu, mode, loopVars,
                   delayVars, envVars>>

(* should_do_house_keeping *)
HouseStart ==
    /\ pc = "house"
    /\ IF deadq = <<>> \/ deadq = <<running>>
       THEN pc' = "switch" /\ i' = i
       ELSE pc' = "house_loop" /\ i' = Len(deadq)
    /\ UNCHANGED <<threadVars, queueVars, cpuVars, mode, expiration,
                   delayVars, envVars>>

(* done_thread zeroes the slot and marks it unused.                        *)
SlotsUncounted == thread_num
SlotsLeft == thread_num - 1

done_thread(t) ==
    /\ alive' = alive \ {t}
    /\ thread_num' = SlotsLeft
    /\ prio' = [prio EXCEPT ![t] = 0]
    /\ state' = [state EXCEPT ![t] = "RUNNING"]
    /\ flags' = [flags EXCEPT ![t] = {}]
    /\ delay' = [delay EXCEPT ![t] = 0]

HouseIteration ==
    LET t == Head(deadq)
    IN  /\ pc = "house_loop"
        /\ i > 0 /\ deadq # <<>>
        /\ i' = i - 1
        /\ IF t # running
           THEN /\ deadq' = Tail(deadq)
                /\ IF t \in alive THEN done_thread(t) ELSE UNCHANGED threadVars
           ELSE /\ deadq' = queue_roll(deadq)
                /\ UNCHANGED threadVars
        /\ UNCHANGED <<ready, waitq, delayq, cpuVars, pc, mode, expiration,
                       delayVars, envVars>>

HouseEnd ==
    /\ pc = "house_loop"
    /\ i = 0 \/ deadq = <<>>
    /\ i' = 0
    /\ pc' = "switch"
    /\ UNCHANGED <<threadVars, queueVars, cpuVars, mode, expiration,
                   delayVars, envVars>>

(* switch_context and load_context: the processor changes stack and the    *)
(* running thread goes on from where it called the kernel.                 *)
SwitchContext ==
    /\ pc = "switch"
    /\ cpu' = running
    /\ pc' = "user"
    /\ UNCHANGED <<threadVars, queueVars, running, mode, loopVars, delayVars,
                   envVars>>

(***************************************************************************)
(* Interrupts.                                                             *)
(***************************************************************************)

(* clock_int_handler: the clock advances by its period, which another      *)
(* client of the clock may have made shorter than the scheduler's.         *)
ClockTick ==
    /\ \E d \in 1 .. period :
        /\ now + d <= MaxTime
        /\ now' = now + d
    /\ UNCHANGED <<threadVars, queueVars, cpuVars, pc, mode, loopVars,
                   delayVars, signalled>>

(* A device or a clock callback marks a thread for resumption.             *)
Signal(s, t) ==
    /\ signalled' = [signalled EXCEPT ![s] = @ \cup {t}]
    /\ UNCHANGED <<threadVars, queueVars, cpuVars, pc, mode, loopVars,
                   delayVars, now>>

(***************************************************************************)
(* The system.  Idle suspends for ever, Timers waits for its barrier,      *)
(* every other thread makes the calls of the instance in any order.        *)
(***************************************************************************)
Panicked == pc = "panic" /\ UNCHANGED vars

IdleThread == running = THREAD_TID_IDLE /\ thread_suspend

TimersThread == running = THREAD_TID_TMRS /\ Wait("BARRIER", 0)

AppYields ==
    /\ running \in Tid \ SystemTids
    /\ \/ "suspend" \in Calls /\ thread_suspend
       \/ "may_suspend" \in Calls /\ thread_may_suspend
       \/ /\ "delay" \in Calls
          /\ \E d \in Delays : now + d <= MaxTime /\ thread_delay(d)
       \/ /\ "wait" \in Calls
          /\ \E k \in WaitKinds, d \in Timeouts : now + d <= MaxTime /\ Wait(k, d)
       \/ "terminate" \in Calls /\ thread_terminate

AppCreates == \E p \in CreatePrios :
    \/ pc = "boot" /\ thread_create(p)
    \/ /\ pc = "user" /\ running \in Tid \ SystemTids
       /\ "create" \in Calls /\ thread_create(p)

AppKills ==
    /\ running \in Tid \ SystemTids /\ "kill" \in Calls
    /\ \E t \in Tid :
        /\ state[t] = "WAITING" => flags[t] \cap THREAD_MASK_WAIT \in KillTargets
        /\ thread_kill(t)

AppUnlocks ==
    /\ running \in Tid \ SystemTids /\ "unlock" \in Calls
    /\ \E t \in Tid : UnlockResume(t)

UpdateSchedule ==
    \/ \E s \in Source : ResumePass(s)
    \/ WaitingStart \/ WaitingTerminated \/ WaitingExpired \/ WaitingStays
    \/ WaitingReady \/ WaitingEnd
    \/ DelayedStart \/ DelayedExpired \/ DelayedEnd
    \/ SetPeriod \/ MayStay \/ MaySuspend

ScheduleThread ==
    \/ NewRunner \/ HouseStart \/ HouseIteration \/ HouseEnd \/ SwitchContext

Interrupt == ClockTick \/ \E s \in Sources, t \in alive : Signal(s, t)

Next ==
    \/ KernelRun \/ IdleThread \/ TimersThread
    \/ AppYields \/ AppCreates \/ AppKills \/ AppUnlocks
    \/ UpdateSchedule \/ ScheduleThread
    \/ Interrupt \/ Panicked

Spec == Init /\ [][Next]_vars

(***************************************************************************)
(* Properties.                                                             *)
(***************************************************************************)
QueueName == 0 .. THREAD_PRIORITIES + 2
QueueAt(n) == IF n < THREAD_PRIORITIES THEN ready[n]
              ELSE IF n = THREAD_PRIORITIES THEN waitq
              ELSE IF n = THREAD_PRIORITIES + 1 THEN delayq ELSE deadq
LinksOf(t) == UNION {{<<n, j>> : j \in {k \in DOMAIN QueueAt(n) : QueueAt(n)[k] = t}}
                        : n \in QueueName}

(* A thread has one link field, so it can be in one queue at a time: every *)
(* live thread is in exactly one queue, except the one that is RUNNING,    *)
(* which is in none, and a destroyed thread is in none.  It is what        *)
(* queue_enqueue and queue_dequeue silently rely on at every call.         *)
LinkedOnce ==
    \A t \in Tid :
        Cardinality(LinksOf(t)) = IF t \in alive /\ state[t] # "RUNNING" THEN 1 ELSE 0

(* The queue a thread is in agrees with its state: READY threads are in    *)
(* the ready queue of their priority, or still in wait_queue when their    *)
(* primitive has resumed them; WAITING threads are in wait_queue or        *)
(* delay_queue; DEAD threads in dead_queue; only running is RUNNING.       *)
QueueMatchesState ==
    /\ \A p \in Prio : \A t \in ToSet(ready[p]) : prio[t] = p /\ state[t] = "READY"
    /\ \A t \in ToSet(waitq)  : state[t] \in {"WAITING", "READY"}
    /\ \A t \in ToSet(delayq) : state[t] = "WAITING"
    /\ \A t \in ToSet(deadq)  : state[t] = "DEAD"
    /\ \A t \in alive : state[t] = "RUNNING" => t = running

(* schedule_thread always finds a thread to run, whatever waits, sleeps or *)
(* has been killed: Idle is never destroyed, and it is in the ready queue  *)
(* of the lowest priority each time new_runner looks for a thread.         *)
IdleSchedulable ==
    /\ THREAD_TID_IDLE \in alive
    /\ pc = "runner" => Contains(ready[THREAD_PRIORITIES - 1], THREAD_TID_IDLE)

(* schedule_waiting reads queue_head once per count taken at its start and *)
(* dereferences it without a test: the queue never runs out before i.      *)
WaitLoopHasHead == pc = "waiting_loop" => i <= Len(waitq)

(* schedule_delayed stops at the first thread that has not expired: that   *)
(* is right only because delay_queue is sorted by expiration.              *)
DelaySorted ==
    \A a, b \in DOMAIN delayq : a < b => delay[delayq[a]] <= delay[delayq[b]]

(* The slot count init_thread relies on to find a free slot.               *)
SlotsCounted == thread_num = Cardinality(alive)

(* A killed thread never gets the processor again, whatever wakes it.      *)
KilledNeverRuns ==
    pc \in {"house", "house_loop", "switch", "user"} =>
        /\ running \in alive
        /\ "TERMINATE" \notin flags[running]

(* The thread chosen to run has the highest priority of the ready queues.  *)
RunnerIsHighest ==
    pc \in {"house", "house_loop", "switch"} =>
        \A q \in Prio : q < prio[running] => ready[q] = <<>>

(* A timed sleep or wait never ends early: a WAITING thread becomes READY  *)
(* only when its delay has expired, or when its primitive resumed it.      *)
NotEarly ==
    [][\A t \in alive : state[t] = "WAITING" /\ state'[t] = "READY" =>
            \/ "TIMEOUT" \in flags[t] /\ delay[t] <= now
            \/ \E s \in Source : t \in signalled[s] /\ SourceFlag[s] \in flags[t]
            \/ "MUTEX" \in flags[t]]_vars

(* scheduler.c, on schedule_waiting: "Check the wait queue for threads     *)
(* whose delay has expired and are still waiting and resume them.  Check   *)
(* also for threads that became ready and move the to the ready qeues."    *)
WaitPassComplete ==
    pc = "waiting_loop" /\ i = 0 =>
        \A t \in ToSet(waitq) :
            /\ state[t] # "READY"
            /\ "TIMEOUT" \in flags[t] => delay[t] > expiration

(* scheduler.h, on scheduler_remove_thread: "The thread will be moved to   *)
(* the dead queue and its resources will be freed by the scheduler."  A    *)
(* removed thread that is still in the table is therefore in some queue.   *)
RemovedIsQueued ==
    \A t \in alive : "TERMINATE" \in flags[t] => LinksOf(t) # {}

(* scheduler.c, on threads that wait on mutexes: "when cancelled are       *)
(* orphaned so we need to put them directly in the dead queue": the victim *)
(* is in no other queue by then.                                           *)
DeadIsOrphaned ==
    \A t \in ToSet(deadq) : Cardinality(LinksOf(t)) = 1

(* scheduler.c, on house_keeping: "the running thread CANNOT kill itself   *)
(* in its own context, the thread might have malloc'd the stack memory and *)
(* freeing it would crash the system."  The processor never executes on    *)
(* the stack of a destroyed thread.                                        *)
StackInUse == cpu # THREAD_TID_INVALID => cpu \in alive

(* diegos.txi: "in the latter case the running thread will suspend if and  *)
(* only if there is a ready thread with a priority greater than or equal   *)
(* to."  The latter case is thread_may_suspend.                            *)
MaySuspendYields ==
    [][pc = "may_check" /\ pc' = "user" =>
            \A q \in Prio : q <= prio[running] => ready[q] = <<>>]_vars

(***************************************************************************)
(* Fairness: the processor executes kernel code, the clock ticks, and      *)
(* every thread calls the kernel again, as a cooperative system requires.  *)
(***************************************************************************)
Fairness ==
    /\ WF_vars(KernelRun \/ UpdateSchedule \/ ScheduleThread)
    /\ WF_vars(ClockTick)
    /\ WF_vars(IdleThread \/ TimersThread \/ AppYields)

FairSpec == Spec /\ Fairness

(***************************************************************************)
(* The scheduler implements Threads.  A thread has the processor from the  *)
(* moment new_runner chose it to its next call that gives it up, and all   *)
(* through the update_schedule of thread_may_suspend.                      *)
(***************************************************************************)
Promise == INSTANCE Threads WITH
    Thread   <- Tid,
    NoThread <- THREAD_TID_INVALID,
    Eternal  <- SystemTids,
    current  <- IF \/ pc \in {"house", "house_loop", "switch", "user", "panic"}
                   \/ mode = "may"
                THEN running ELSE THREAD_TID_INVALID,
    status   <- [t \in Tid |-> IF t \in alive THEN state[t] ELSE "NONE"],
    waits    <- [t \in Tid |-> flags[t] \cap THREAD_MASK_WAIT],
    wake     <- delay,
    doomed   <- {t \in Tid : "TERMINATE" \in flags[t]}

(* Every step of the queues, passes and loops of the scheduler is a step   *)
(* of Threads or changes nothing a primitive can see: waits end as they    *)
(* promise to, killed threads only die, dead slots are freed once, and     *)
(* nobody gets the processor while another thread has it.                  *)
ImplementsThreads == Promise!ThreadsSpec

(* A thread its primitive has resumed does not stay in wait_queue for      *)
(* ever, although schedule_waiting skips the entry behind each one it      *)
(* takes out.                                                              *)
ResumedLeaves ==
    \A t \in Tid \ SystemTids : (t \in ToSet(waitq) /\ state[t] = "READY") ~> t \notin ToSet(waitq)

(* Every timed sleep and every timed wait ends.                            *)
TimeoutEnds ==
    \A t \in Tid \ SystemTids : (state[t] = "WAITING" /\ "TIMEOUT" \in flags[t]) ~> state[t] # "WAITING"

(* The queues the passes of scheduler.c take apart and put together again, *)
(* with interrupts in between: each thread is in the queue of its state,   *)
(* delay_queue is in the order schedule_delayed stops by, and what         *)
(* schedule_thread chooses is of the highest class that is ready.          *)
QueuesSound ==
    /\ QueueMatchesState
    /\ DelaySorted
    /\ RunnerIsHighest

(* Creation, termination, kills and house keeping in any order: no thread  *)
(* is linked twice or lost, thread_num counts the slots in use, and a      *)
(* killed thread never gets the processor again.                           *)
ThreadsKept ==
    /\ LinkedOnce
    /\ SlotsCounted
    /\ KilledNeverRuns

=============================================================================
