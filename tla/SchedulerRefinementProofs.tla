---------------------- MODULE SchedulerRefinementProofs ----------------------
(***************************************************************************)
(* Proof that Scheduler implements Threads: the initial state is one of    *)
(* Threads, and every step of the scheduler is a step of Threads or        *)
(* changes nothing Threads has.  The invariants come from the proofs about *)
(* the queues.                                                             *)
(***************************************************************************)
EXTENDS SchedulerQueueProofs

(* init_thread finds the delay of a slot it takes at zero.                 *)
FreeSlotsClean == \A t \in Tid \ alive : delay[t] = 0

(* done_thread zeroes the slot and nobody writes to a free one.            *)
LEMMA NextFreeSlotsClean ==
    SparesMutexWaiters /\ TypeInv /\ PlaceInv /\ FreeSlotsClean /\ [Next]_vars => FreeSlotsClean'
<1> SUFFICES ASSUME SparesMutexWaiters, TypeInv, PlaceInv, FreeSlotsClean, [Next]_vars
             PROVE  FreeSlotsClean'
  OBVIOUS
<1> USE DEF FreeSlotsClean, threadVars, slotVars, fieldVars
<1>a. ThreadTypes
  BY DEF TypeInv, TypeOK
<1>r. pc = "user" => running \in alive
  BY DEF PlaceInv, RunnerInv, Holding, HoldPoints
<1>1. CASE UNCHANGED <<alive, delay>>
  BY <1>1
<1>2. ASSUME NEW p, thread_create(p) PROVE FreeSlotsClean'
  <2>1. PICK t \in Tid \ alive : alive' = alive \cup {t} /\ delay' = [delay EXCEPT ![t] = 0]
    BY <1>2 DEF thread_create
  <2> QED
    BY <1>a, <2>1 DEF ThreadTypes
<1>3. ASSUME NEW d, thread_delay(d) PROVE FreeSlotsClean'
  BY <1>a, <1>r, <1>3 DEF thread_delay, ThreadTypes
<1>4. ASSUME NEW k, NEW d, Wait(k, d) PROVE FreeSlotsClean'
  BY <1>a, <1>r, <1>4 DEF Wait, WaitRunning, ThreadTypes
<1>5. ASSUME NEW fl, NEW S, ResumeAll(fl, S), alive' = alive PROVE FreeSlotsClean'
  BY <1>a, <1>5, Resumed
<1>6. CASE HouseIteration
  <2>1. CASE UNCHANGED threadVars
    BY <1>1, <2>1
  <2>2. ASSUME NEW t, done_thread(t) PROVE FreeSlotsClean'
    BY <1>a, <2>2 DEF done_thread, ThreadTypes
  <2> QED
    BY <1>6, <2>1, <2>2 DEF HouseIteration
<1>7. CASE AppCreates
  BY <1>2, <1>7 DEF AppCreates
<1>8. CASE KernelRun \/ IdleThread \/ TimersThread \/ AppYields \/ AppKills
  BY <1>1, <1>3, <1>4, <1>8 DEF KernelRun, IdleThread, thread_suspend, SuspendRunning,
     TimersThread, AppYields, thread_may_suspend, thread_terminate, AppKills, thread_kill,
     RemoveThread, PanicKill
<1>9. CASE AppUnlocks \/ \E s \in Source : ResumePass(s)
  BY <1>5, <1>9 DEF AppUnlocks, UnlockResume, ResumePass
<1>10. CASE WaitingExpired \/ DelayedExpired
  BY <1>5, <1>10 DEF WaitingExpired, WaitingIteration, DelayedExpired
<1>11. CASE \/ WaitingStart \/ WaitingTerminated \/ WaitingStays \/ WaitingReady \/ WaitingEnd
            \/ DelayedStart \/ DelayedEnd \/ SetPeriod \/ MayStay \/ MaySuspend
  BY <1>1, <1>11 DEF WaitingStart, WaitingTerminated, WaitingStays, WaitingReady, WaitingIteration,
     WaitingEnd, DelayedStart, DelayedEnd, SetPeriod, MayStay, MaySuspend, SuspendRunning
<1>12. CASE NewRunner \/ HouseStart \/ HouseEnd \/ SwitchContext \/ Interrupt \/ UNCHANGED vars
  BY <1>1, <1>12 DEF NewRunner, HouseStart, HouseEnd, SwitchContext, Interrupt, ClockTick, Signal, vars
<1> QED
  BY <1>6, <1>7, <1>8, <1>9, <1>10, <1>11, <1>12 DEF Next, UpdateSchedule, ScheduleThread, Panicked

(***************************************************************************)
(* The mapping.                                                            *)
(***************************************************************************)
current == IF \/ pc \in {"house", "house_loop", "switch", "user", "panic"}
              \/ mode = "may"
           THEN running ELSE THREAD_TID_INVALID
status  == [t \in Tid |-> IF t \in alive THEN state[t] ELSE "NONE"]
waits   == [t \in Tid |-> flags[t] \cap THREAD_MASK_WAIT]
doomed  == {t \in Tid : "TERMINATE" \in flags[t]}

(* Who has the processor, in terms of the control points.                  *)
LEMMA CurrentHolds == (Holding => current = running) /\ (~Holding => current = THREAD_TID_INVALID)
BY DEF current, Holding, HoldPoints

(* What kernel_threads_init leaves is a state Threads starts from.         *)
LEMMA InitImplements == Init => Promise!ThreadsInit
<1> SUFFICES ASSUME Init PROVE Promise!ThreadsInit
  OBVIOUS
<1>1. /\ pc = "boot" /\ mode = "schedule" /\ flags = [t \in Tid |-> {}] /\ delay = [t \in Tid |-> 0]
      /\ now = 0 /\ \A t \in alive : t \in Tid => state[t] = "READY"
  BY DEF Init
<1>2. current = THREAD_TID_INVALID
  BY <1>1 DEF current
<1>3. status \in [Tid -> {"NONE", "READY"}]
  BY <1>1 DEF status
<1>4. waits = [t \in Tid |-> {}]
  BY <1>1 DEF waits
<1>5. doomed = {}
  BY <1>1 DEF doomed
<1> QED
  BY <1>1, <1>2, <1>3, <1>4, <1>5 DEF Promise!ThreadsInit, current, status, waits, doomed

(* The thread that has the processor gives it up (thread_suspend).         *)
LEMMA SuspendImplements ==
    ASSUME TypeInv, PlaceInv, Holding, SuspendRunning
    PROVE  Promise!Yield
<1>1. ThreadTypes /\ running \in alive /\ running \in Tid
  BY DEF TypeInv, TypeOK, PlaceInv, RunnerInv, ThreadTypes
<1>2. /\ state' = [state EXCEPT ![running] = "READY"]
      /\ pc' = "events" /\ mode' = "schedule"
      /\ UNCHANGED <<alive, flags, delay, now>>
  BY DEF SuspendRunning, EnterSchedule, slotVars, envVars
<1>3. current = running /\ current # THREAD_TID_INVALID /\ current' = THREAD_TID_INVALID
  <2>1. running # THREAD_TID_INVALID
    BY <1>1, ThreadsAssumption DEF Tid, THREAD_TID_INVALID
  <2> QED
    BY <1>2, <2>1, CurrentHolds DEF current
<1>4. status' = [status EXCEPT ![running] = "READY"]
  BY <1>1, <1>2 DEF status, ThreadTypes
<1>5. waits' = waits /\ doomed' = doomed
  BY <1>2 DEF waits, doomed
<1> QED
  BY <1>2, <1>3, <1>4, <1>5 DEF Promise!Yield, current, status, waits, doomed

(* The flags of a wait, as the mapping sees them.                          *)
LEMMA WaitFlags ==
    /\ "TERMINATE" \notin THREAD_MASK_WAIT /\ "TIMEOUT" \in THREAD_MASK_WAIT
    /\ "TIMEOUT" \notin THREAD_MASK_EVENTS /\ "MUTEX" \in THREAD_MASK_EVENTS
    /\ THREAD_MASK_EVENTS \subseteq THREAD_MASK_WAIT
    /\ Promise!WaitFlag = THREAD_MASK_WAIT
    /\ \A s \in Source : SourceFlag[s] \in THREAD_MASK_EVENTS
BY DEF THREAD_MASK_WAIT, THREAD_MASK_EVENTS, Promise!WaitFlag, Source, SourceFlag

(* The thread that has the processor waits or sleeps: scheduler_wait_      *)
(* thread and scheduler_delay_thread, for the flags fl of the primitive.   *)
LEMMA BlockImplements ==
    ASSUME TypeInv, PlaceInv, pc = "user", NEW fl \in SUBSET THREAD_MASK_EVENTS, NEW d \in Nat,
           flags' = [flags EXCEPT ![running] = (@ \ THREAD_MASK_WAIT) \cup fl
                                \cup (IF d = 0 THEN {} ELSE {"TIMEOUT"})],
           state' = [state EXCEPT ![running] = "WAITING"],
           delay' = [delay EXCEPT ![running] = IF d = 0 THEN 0 ELSE now + d],
           EnterSchedule("schedule"), UNCHANGED <<alive, now>>
    PROVE  Promise!Block(fl, d)
<1>0. Holding
  BY DEF Holding, HoldPoints
<1>1. ThreadTypes /\ running \in alive /\ running \in Tid
  BY <1>0 DEF TypeInv, TypeOK, PlaceInv, RunnerInv, ThreadTypes
<1>3. current = running /\ current # THREAD_TID_INVALID /\ current' = THREAD_TID_INVALID
  <2>1. running # THREAD_TID_INVALID
    BY <1>1, ThreadsAssumption DEF Tid, THREAD_TID_INVALID
  <2>2. current' = THREAD_TID_INVALID
    BY DEF current, EnterSchedule
  <2> QED
    BY <1>0, <2>1, <2>2, CurrentHolds
<1>4. status' = [status EXCEPT ![running] = "WAITING"]
  BY <1>1 DEF status, ThreadTypes
<1>5. waits' = [waits EXCEPT ![running] = fl \cup (IF d = 0 THEN {} ELSE {"TIMEOUT"})]
  <2> DEFINE w == fl \cup (IF d = 0 THEN {} ELSE {"TIMEOUT"})
  <2>1. w \subseteq THREAD_MASK_WAIT
    BY WaitFlags
  <2>2. flags' = [flags EXCEPT ![running] = (flags[running] \ THREAD_MASK_WAIT) \cup w]
    BY <1>1 DEF ThreadTypes
  <2> HIDE DEF w
  <2>3. ((flags[running] \ THREAD_MASK_WAIT) \cup w) \cap THREAD_MASK_WAIT = w
    BY <2>1
  <2>4. waits' = [waits EXCEPT ![running] = w]
    BY <1>1, <2>2, <2>3 DEF waits, ThreadTypes
  <2> QED
    BY <2>4 DEF w
<1>6. doomed' = doomed
  <2>1. \A t \in Tid : "TERMINATE" \in flags'[t] <=> "TERMINATE" \in flags[t]
    BY <1>1, WaitFlags DEF ThreadTypes
  <2> QED
    BY <2>1 DEF doomed
<1> QED
  BY <1>3, <1>4, <1>5, <1>6 DEF Promise!Block, current, status, waits, doomed

(* thread_terminate *)
LEMMA ExitImplements ==
    ASSUME TypeInv, PlaceInv, thread_terminate
    PROVE  Promise!Exit
<1>0. Holding /\ running \notin SystemTids
  BY DEF Holding, HoldPoints, thread_terminate
<1>1. ThreadTypes /\ running \in alive /\ running \in Tid
  BY <1>0 DEF TypeInv, TypeOK, PlaceInv, RunnerInv, ThreadTypes
<1>2. /\ state' = [state EXCEPT ![running] = "DEAD"]
      /\ pc' = "events" /\ mode' = "schedule"
      /\ UNCHANGED <<alive, flags, delay, now>>
  BY DEF thread_terminate, EnterSchedule, slotVars, envVars
<1>3. current = running /\ current' = THREAD_TID_INVALID
  BY <1>0, <1>2, CurrentHolds DEF current
<1>4. status' = [status EXCEPT ![running] = "DEAD"]
  BY <1>1, <1>2 DEF status, ThreadTypes
<1>5. waits' = waits /\ doomed' = doomed
  BY <1>2 DEF waits, doomed
<1> QED
  BY <1>0, <1>1, <1>2, <1>3, <1>4, <1>5 DEF Promise!Exit, current, status, waits, doomed

(* thread_create *)
LEMMA CreateImplements ==
    ASSUME TypeInv, FreeSlotsClean, NEW p, thread_create(p)
    PROVE  \E t \in Tid : Promise!Create(t)
<1>1. PICK t \in Tid \ alive :
        /\ alive' = alive \cup {t}
        /\ state' = [state EXCEPT ![t] = "READY"]
        /\ delay' = [delay EXCEPT ![t] = 0]
  BY DEF thread_create
<1>2. UNCHANGED <<flags, running, pc, mode, now>>
  BY DEF thread_create, cpuVars, envVars
<1>a. ThreadTypes
  BY DEF TypeInv, TypeOK
<1>3. delay' = delay
  BY <1>a, <1>1 DEF FreeSlotsClean, ThreadTypes
<1>4. status[t] = "NONE" /\ status' = [status EXCEPT ![t] = "READY"]
  BY <1>a, <1>1 DEF status, ThreadTypes
<1>5. current' = current /\ waits' = waits /\ doomed' = doomed
  BY <1>2 DEF current, waits, doomed
<1>6. Promise!Create(t)
  BY <1>2, <1>3, <1>4, <1>5 DEF Promise!Create, current, status, waits, doomed
<1> QED
  BY <1>6

(* scheduler_remove_thread of a thread that does not run.                  *)
LEMMA KillImplements ==
    ASSUME SparesMutexWaiters, TypeInv, PlaceInv, pc = "user", NEW t \in Tid, t # running,
           state[t] = "WAITING" => flags[t] \cap THREAD_MASK_WAIT \in KillTargets,
           RemoveThread(t)
    PROVE  Promise!Kill(t)
<1>0. Holding
  BY DEF Holding, HoldPoints
<1>1. ThreadTypes /\ t \in alive \ SystemTids /\ state[t] # "DEAD"
  BY DEF TypeInv, TypeOK, RemoveThread, Removable
<1>2. state[t] \in {"READY", "WAITING"}
  BY <1>1 DEF PlaceInv, RunnerInv, ThreadTypes, ThreadState
<1>3. UNCHANGED <<alive, state, delay, running, pc, mode, now>>
  BY DEF RemoveThread, SparesMutexWaiters, slotVars, cpuVars
<1>4. flags' = [flags EXCEPT ![t] =
                  (IF state[t] = "WAITING" THEN @ \ THREAD_MASK_WAIT ELSE @) \cup {"TERMINATE"}]
  BY DEF RemoveThread
<1>5. current' = current /\ current = running
  BY <1>0, <1>3, CurrentHolds DEF current
<1>6. doomed' = doomed \cup {t}
  <2>1. \A u \in Tid : "TERMINATE" \in flags'[u] <=> "TERMINATE" \in flags[u] \/ u = t
    BY <1>1, <1>4 DEF ThreadTypes
  <2> QED
    BY <2>1 DEF doomed
<1>7. ~(state[t] = "WAITING" /\ waits[t] = {"MUTEX"})
  BY DEF waits, SparesMutexWaiters
<1>8. status[t] = state[t] /\ status' = status
  BY <1>1, <1>3 DEF status
<1>9. waits' = [waits EXCEPT ![t] = IF status[t] = "WAITING" THEN {} ELSE @]
  <2>1. \A u \in Tid : u # t => flags'[u] = flags[u]
    BY <1>1, <1>4 DEF ThreadTypes
  <2>2. flags'[t] \cap THREAD_MASK_WAIT = IF state[t] = "WAITING" THEN {} ELSE waits[t]
    BY <1>1, <1>4, WaitFlags DEF ThreadTypes, waits
  <2> QED
    BY <1>8, <2>1, <2>2 DEF waits
<1>10. status' = [status EXCEPT ![t] = IF @ = "WAITING" /\ waits[t] = {"MUTEX"} THEN "DEAD" ELSE @]
  BY <1>7, <1>8 DEF status
<1> QED
  BY <1>1, <1>2, <1>3, <1>5, <1>6, <1>8, <1>9, <1>10
     DEF Promise!Kill, current, status, waits, doomed

(* scheduler_resume_thread for all the threads a primitive has marked.     *)
LEMMA WakeImplements ==
    ASSUME TypeInv, NEW f \in THREAD_MASK_EVENTS, NEW S, ResumeAll({f}, S),
           UNCHANGED <<alive, now>>, current' = current
    PROVE  Promise!Wake(f, {t \in Tid : status'[t] # status[t]})
<1>a. ThreadTypes /\ f \in THREAD_MASK_WAIT
  BY WaitFlags DEF TypeInv, TypeOK
<1> DEFINE R == {t \in Tid : t \in S /\ CanResume({f}, t)}
<1>1. \A t \in Tid :
        IF t \in R
        THEN /\ t \in alive /\ state[t] = "WAITING" /\ f \in flags[t]
             /\ state'[t] = "READY" /\ delay'[t] = 0 /\ flags'[t] = flags[t] \ THREAD_MASK_WAIT
        ELSE state'[t] = state[t] /\ delay'[t] = delay[t] /\ flags'[t] = flags[t]
  BY <1>a, Resumed DEF CanResume
<1> HIDE DEF R
<1>2. \A t \in Tid : /\ t \in R => status[t] = "WAITING" /\ f \in waits[t] /\ status'[t] = "READY"
                     /\ t \notin R => status'[t] = status[t] /\ waits'[t] = waits[t]
  BY <1>a, <1>1 DEF status, waits
<1>3. R \subseteq Tid
  BY DEF R
<1> DEFINE C == {t \in Tid : status'[t] # status[t]}
           Q == {t \in C : status[t] = "WAITING" /\ f \in waits[t]}
<1>4. Q = R
  BY <1>2, <1>3
<1>5. \A t \in Tid : t \in R => waits'[t] = {}
  BY <1>1 DEF waits
<1>6. doomed' = doomed
  <2>1. \A t \in Tid : "TERMINATE" \in flags'[t] <=> "TERMINATE" \in flags[t]
    BY <1>1, WaitFlags
  <2> QED
    BY <2>1 DEF doomed
<1> HIDE DEF Q, C
<1>7. status' = [t \in Tid |-> IF t \in R THEN "READY" ELSE status[t]]
  <2>1. status' = [t \in Tid |-> status'[t]]
    BY DEF status
  <2> QED
    BY <1>2, <2>1
<1>8. waits' = [t \in Tid |-> IF t \in R THEN {} ELSE waits[t]]
  <2>1. waits' = [t \in Tid |-> waits'[t]]
    BY DEF waits
  <2> QED
    BY <1>2, <1>5, <2>1
<1>9. delay' = [t \in Tid |-> IF t \in R THEN 0 ELSE delay[t]]
  <2>1. delay' = [t \in Tid |-> delay'[t]]
    BY DEF ResumeAll
  <2> QED
    BY <1>1, <2>1
<1>10. Promise!Resumable(f, C) = R
  BY <1>4 DEF Promise!Resumable, Q, status, waits
<1>11. Promise!Wake(f, C)
  BY <1>6, <1>7, <1>8, <1>9, <1>10 DEF Promise!Wake, current, status, waits, doomed
<1> QED
  BY <1>11 DEF C

(* The time of a waiting or sleeping thread has come.                      *)
LEMMA TimeoutImplements ==
    ASSUME TypeInv, NEW fl, NEW t \in Tid, ResumeAll(fl, {t}), CanResume(fl, t),
           "TIMEOUT" \in flags[t], delay[t] <= now,
           UNCHANGED <<alive, now>>, current' = current
    PROVE  Promise!Timeout(t)
<1>a. ThreadTypes
  BY DEF TypeInv, TypeOK
<1>1. /\ t \in alive /\ state[t] = "WAITING"
      /\ state' = [state EXCEPT ![t] = "READY"]
      /\ flags' = [flags EXCEPT ![t] = flags[t] \ THREAD_MASK_WAIT]
      /\ delay' = [delay EXCEPT ![t] = 0]
  BY <1>a DEF ResumeAll, ResumedState, CanResume, ThreadTypes
<1>2. status[t] = "WAITING" /\ "TIMEOUT" \in waits[t]
  BY <1>1, WaitFlags DEF status, waits
<1>3. status' = [status EXCEPT ![t] = "READY"]
  BY <1>a, <1>1 DEF status, ThreadTypes
<1>4. waits' = [waits EXCEPT ![t] = {}]
  BY <1>a, <1>1 DEF waits, ThreadTypes
<1>5. doomed' = doomed
  <2>1. \A u \in Tid : "TERMINATE" \in flags'[u] <=> "TERMINATE" \in flags[u]
    BY <1>a, <1>1, WaitFlags DEF ThreadTypes
  <2> QED
    BY <2>1 DEF doomed
<1> QED
  BY <1>1, <1>2, <1>3, <1>4, <1>5 DEF Promise!Timeout, current, status, waits, doomed

(* A thread scheduler_resume_thread refuses is the same afterwards.        *)
LEMMA RefusedStutters ==
    ASSUME TypeInv, NEW fl, NEW t \in Tid, ResumeAll(fl, {t}), ~CanResume(fl, t)
    PROVE  UNCHANGED <<state, flags, delay>>
<1>1. ThreadTypes
  BY DEF TypeInv, TypeOK
<1> QED
  BY <1>1 DEF ResumeAll, ThreadTypes

(* A killed thread is moved to dead_queue.                                 *)
LEMMA BuryImplements ==
    ASSUME TypeInv, NEW t \in Tid, t \in alive, "TERMINATE" \in flags[t],
           state[t] \in {"READY", "WAITING"}, state' = [state EXCEPT ![t] = "DEAD"],
           UNCHANGED <<alive, flags, delay, now>>, current' = current
    PROVE  Promise!Bury(t)
<1>a. ThreadTypes
  BY DEF TypeInv, TypeOK
<1>1. status[t] = state[t] /\ t \in doomed
  BY DEF status, doomed
<1>2. status' = [status EXCEPT ![t] = "DEAD"]
  BY <1>a DEF status, ThreadTypes
<1>3. waits' = waits /\ doomed' = doomed
  BY DEF waits, doomed
<1> QED
  BY <1>1, <1>2, <1>3 DEF Promise!Bury, current, status, waits, doomed

(* new_runner chooses a thread.                                            *)
LEMMA DispatchImplements ==
    ASSUME TypeInv, ~Holding, NEW t \in Tid, t \in alive, "TERMINATE" \notin flags[t],
           state[t] = "READY", state' = [state EXCEPT ![t] = "RUNNING"],
           UNCHANGED <<alive, flags, delay, now>>, pc' = "house", running' = t
    PROVE  Promise!Dispatch(t)
<1>a. ThreadTypes
  BY DEF TypeInv, TypeOK
<1>1. status[t] = state[t] /\ t \notin doomed
  BY DEF status, doomed
<1>2. status' = [status EXCEPT ![t] = "RUNNING"]
  BY <1>a DEF status, ThreadTypes
<1>3. waits' = waits /\ doomed' = doomed
  BY DEF waits, doomed
<1>4. current = THREAD_TID_INVALID /\ current' = t
  BY CurrentHolds DEF current
<1> QED
  BY <1>1, <1>2, <1>3, <1>4 DEF Promise!Dispatch, current, status, waits, doomed

(* house_keeping frees a slot.                                             *)
LEMMA ReapImplements ==
    ASSUME TypeInv, NEW t \in Tid, t \in alive, state[t] = "DEAD", done_thread(t),
           now' = now, current' = current
    PROVE  Promise!Reap(t)
<1>a. ThreadTypes
  BY DEF TypeInv, TypeOK
<1>1. /\ alive' = alive \ {t} /\ delay' = [delay EXCEPT ![t] = 0]
      /\ flags' = [flags EXCEPT ![t] = {}] /\ state' = [state EXCEPT ![t] = "RUNNING"]
  BY DEF done_thread
<1>2. status[t] = "DEAD" /\ status' = [status EXCEPT ![t] = "NONE"]
  BY <1>a, <1>1 DEF status, ThreadTypes
<1>3. waits' = [waits EXCEPT ![t] = {}]
  BY <1>a, <1>1 DEF waits, ThreadTypes
<1>4. doomed' = doomed \ {t}
  <2>1. \A u \in Tid : "TERMINATE" \in flags'[u] <=> "TERMINATE" \in flags[u] /\ u # t
    BY <1>a, <1>1 DEF ThreadTypes
  <2> QED
    BY <2>1 DEF doomed
<1> QED
  BY <1>1, <1>2, <1>3, <1>4 DEF Promise!Reap, current, status, waits, doomed

(* Steps that leave alone all that Threads has.                            *)
LEMMA StutterImplements ==
    ASSUME UNCHANGED <<alive, state, flags, delay, now>>, current' = current
    PROVE  UNCHANGED Promise!threadsVars
<1>1. status' = status /\ waits' = waits /\ doomed' = doomed
  BY DEF status, waits, doomed
<1> QED
  BY <1>1 DEF Promise!threadsVars, current, status, waits, doomed

RefinementInv == TypeInv /\ PlaceInv /\ FreeSlotsClean /\ ClockRead

Implements == Promise!ThreadsNext \/ UNCHANGED Promise!threadsVars

(* Every step of the scheduler is a step of Threads or a stutter.          *)
LEMMA NextImplements ==
    SparesMutexWaiters /\ RefinementInv /\ [Next]_vars
        => [Promise!ThreadsNext]_(Promise!threadsVars)
<1> SUFFICES ASSUME SparesMutexWaiters, RefinementInv, [Next]_vars
             PROVE  Implements
  BY DEF Implements
<1> USE DEF RefinementInv, threadVars, slotVars, fieldVars, queueVars, cpuVars, envVars
<1>a. ThreadTypes /\ QueueTypes /\ ControlTypes /\ ClockTypes
  BY DEF TypeInv, TypeOK
<1>b. MaxTime \in Nat /\ now \in Nat
  BY <1>a, TimeAssumption DEF ClockTypes
<1>t. ASSUME NEW t \in Tid,
             \/ Promise!Create(t) \/ Promise!Kill(t) \/ Promise!Timeout(t)
             \/ Promise!Bury(t) \/ Promise!Reap(t) \/ Promise!Dispatch(t)
      PROVE  Implements
  BY <1>t DEF Implements, Promise!ThreadsNext, Promise!Background
<1>s. ASSUME UNCHANGED <<alive, state, flags, delay, now>>, current' = current PROVE Implements
  BY <1>s, StutterImplements DEF Implements
<1>k. ASSUME NEW fl \in SUBSET THREAD_MASK_EVENTS, NEW d \in 0 .. MaxTime, Promise!Block(fl, d)
      PROVE  Implements
  <2>1. fl \in SUBSET (Promise!WaitFlag \ {"TIMEOUT"})
    BY WaitFlags
  <2> QED
    BY <1>k, <2>1 DEF Implements, Promise!ThreadsNext
<1>v. ASSUME NEW f \in THREAD_MASK_EVENTS, NEW S, ResumeAll({f}, S),
             UNCHANGED <<alive, now>>, current' = current
      PROVE  Implements
  <2>1. Promise!Wake(f, {t \in Tid : status'[t] # status[t]})
    BY <1>v, WakeImplements
  <2>2. f \in Promise!WaitFlag \ {"TIMEOUT"}
    BY WaitFlags
  <2>3. \E g \in Promise!WaitFlag \ {"TIMEOUT"} : Promise!Wake(g, {t \in Tid : status'[t] # status[t]})
    BY <2>1, <2>2
  <2> QED
    BY <2>3 DEF Implements, Promise!ThreadsNext, status
<1>h. ASSUME UNCHANGED <<running, mode>>, pc \in HoldPoints <=> pc' \in HoldPoints
      PROVE  current' = current
  BY <1>h DEF current, HoldPoints
<1>1. CASE KernelRun
  BY <1>1, <1>s DEF KernelRun, EnterSchedule, current, PlaceInv, RunnerInv, HoldPoints
<1>2. ASSUME NEW p, thread_create(p) PROVE Implements
  BY <1>2, <1>t, CreateImplements
<1>3. ASSUME Holding, SuspendRunning PROVE Implements
  BY <1>3, SuspendImplements DEF Implements, Promise!ThreadsNext
<1>4. CASE thread_may_suspend
  BY <1>4, <1>s DEF thread_may_suspend, EnterSchedule, current
<1>5. ASSUME NEW d \in Nat \ {0}, now + d <= MaxTime, thread_delay(d) PROVE Implements
  <2>1. Promise!Block({}, d)
    <3>1. flags' = [flags EXCEPT ![running] = (@ \ THREAD_MASK_WAIT) \cup {}
                                \cup (IF d = 0 THEN {} ELSE {"TIMEOUT"})]
      BY <1>5 DEF thread_delay
    <3>2. delay' = [delay EXCEPT ![running] = IF d = 0 THEN 0 ELSE now + d]
      <4>1. d # 0 /\ d + now = now + d /\ delay' = [delay EXCEPT ![running] = d + now]
        BY <1>5, <1>b DEF thread_delay
      <4> QED
        BY <4>1
    <3>3. /\ {} \in SUBSET THREAD_MASK_EVENTS /\ d \in Nat /\ pc = "user" /\ EnterSchedule("schedule")
          /\ UNCHANGED <<alive, now>> /\ state' = [state EXCEPT ![running] = "WAITING"]
      BY <1>5 DEF thread_delay
    <3> QED
      BY <3>1, <3>2, <3>3, BlockImplements
  <2>2. {} \in SUBSET THREAD_MASK_EVENTS /\ d \in 0 .. MaxTime
    BY <1>5, <1>b
  <2> QED
    BY <1>k, <2>1, <2>2
<1>6. ASSUME NEW k \in THREAD_MASK_EVENTS, NEW d \in 0 .. MaxTime, Wait(k, d) PROVE Implements
  <2>1. {k} \in SUBSET THREAD_MASK_EVENTS /\ d \in Nat
    BY <1>b
  <2>2. Promise!Block({k}, d)
    BY <1>6, <2>1, BlockImplements DEF Wait, WaitRunning
  <2> QED
    BY <1>k, <2>1, <2>2
<1>7. CASE thread_terminate
  BY <1>7, ExitImplements DEF Implements, Promise!ThreadsNext
<1>8. ASSUME NEW t \in Tid, thread_kill(t),
             state[t] = "WAITING" => flags[t] \cap THREAD_MASK_WAIT \in KillTargets
      PROVE  Implements
  <2>1. CASE RemoveThread(t)
    <3>1. Promise!Kill(t)
      BY <1>8, <2>1, KillImplements DEF thread_kill
    <3> QED
      BY <1>t, <3>1
  <2>2. CASE PanicKill(t)
    BY <1>8, <2>2, <1>s DEF thread_kill, PanicKill, current
  <2> QED
    BY <1>8, <2>1, <2>2 DEF thread_kill
<1>9. ASSUME NEW t \in Tid, UnlockResume(t) PROVE Implements
  BY <1>9, <1>h, <1>v, WaitFlags DEF UnlockResume
<1>10. ASSUME NEW s \in Source, ResumePass(s) PROVE Implements
  <2>1. SourceFlag[s] \in THREAD_MASK_EVENTS
    BY WaitFlags
  <2>2. pc \notin HoldPoints /\ pc' \notin HoldPoints
    BY <1>10 DEF ResumePass, AfterPass, Source, HoldPoints
  <2> QED
    BY <1>10, <1>h, <1>v, <2>1, <2>2 DEF ResumePass
<1>w. ASSUME WaitingIteration
      PROVE  /\ Head(waitq) \in Tid /\ Head(waitq) \in alive
             /\ UNCHANGED <<alive, now>> /\ current' = current
             /\ Expired(Head(waitq)) => delay[Head(waitq)] <= now
  <2>1. waitq \in Seq(Tid) /\ waitq # <<>>
    BY <1>w, <1>a DEF WaitingIteration, IterationLeft, QueueTypes, TypeInv,
                      WaitLoopHasHead, ControlTypes
  <2>2. Head(waitq) \in ToSet(waitq) /\ Head(waitq) \in Tid
    BY <2>1, DequeueSet DEF PlaceInv, NoRepeats
  <2>3. Expired(Head(waitq)) => delay[Head(waitq)] <= now
    BY <1>a, <2>2 DEF Expired, ClockRead, ThreadTypes, ControlTypes, ClockTypes
  <2> QED
    BY <1>w, <1>h, <2>2, <2>3 DEF WaitingIteration, PlaceInv, Placed, WaitPlaced
<1>12. CASE WaitingTerminated
  <2> DEFINE t == Head(waitq)
  <2>1. /\ WaitingIteration /\ state[t] = "WAITING" /\ "TERMINATE" \in flags[t]
        /\ state' = [state EXCEPT ![t] = "DEAD"] /\ UNCHANGED <<flags, delay>>
    BY <1>12 DEF WaitingTerminated
  <2>2. t \in Tid /\ t \in alive /\ UNCHANGED <<alive, now>> /\ current' = current
    BY <1>w, <2>1
  <2> HIDE DEF t
  <2> QED
    BY <1>t, <2>1, <2>2, BuryImplements
<1>13. CASE WaitingExpired
  <2> DEFINE t  == Head(waitq)
             fl == flags[t] \cap THREAD_MASK_EVENTS
  <2>1. WaitingIteration /\ "TIMEOUT" \in flags[t] /\ Expired(t) /\ ResumeAll(fl, {t})
    BY <1>13 DEF WaitingExpired
  <2>2. t \in Tid /\ UNCHANGED <<alive, now>> /\ current' = current /\ delay[t] <= now
    BY <1>w, <2>1
  <2> HIDE DEF t, fl
  <2>3. CASE CanResume(fl, t)
    BY <1>t, <2>1, <2>2, <2>3, TimeoutImplements
  <2>4. CASE ~CanResume(fl, t)
    BY <1>s, <2>1, <2>2, <2>4, RefusedStutters
  <2> QED
    BY <2>3, <2>4
<1>14. CASE WaitingStays \/ WaitingReady
  BY <1>14, <1>s, <1>w DEF WaitingStays, WaitingReady
<1>18. CASE DelayedExpired
  <2> DEFINE t == Head(delayq)
  <2>1. /\ delayq # <<>> /\ Expired(t) /\ ResumeAll(SleepFlags, {t})
        /\ UNCHANGED <<alive, running, pc, mode, now>>
    BY <1>18 DEF DelayedExpired
  <2>2. t \in Tid
    BY <1>a, <2>1 DEF QueueTypes
  <2>3. delay[t] <= now /\ current' = current
    BY <1>a, <1>h, <2>1, <2>2 DEF Expired, ClockRead, ThreadTypes, ControlTypes, ClockTypes
  <2> HIDE DEF t
  <2>4. CASE CanResume(SleepFlags, t)
    <3>1. "TIMEOUT" \in flags[t]
      BY <2>4 DEF CanResume, SleepFlags
    <3> QED
      BY <1>t, <2>1, <2>2, <2>3, <2>4, <3>1, TimeoutImplements
  <2>5. CASE ~CanResume(SleepFlags, t)
    BY <1>s, <2>1, <2>2, <2>3, <2>5, RefusedStutters
  <2> QED
    BY <2>4, <2>5
<1>19. CASE WaitingStart \/ WaitingEnd \/ DelayedStart \/ DelayedEnd \/ SetPeriod
  <2>1. pc \notin HoldPoints /\ pc' \notin HoldPoints
    BY <1>19 DEF WaitingStart, WaitingEnd, DelayedStart, DelayedEnd, SetPeriod, HoldPoints
  <2>2. UNCHANGED <<alive, state, flags, delay, now, running, mode>>
    BY <1>19 DEF WaitingStart, WaitingEnd, DelayedStart, DelayedEnd, SetPeriod
  <2> QED
    BY <1>h, <1>s, <2>1, <2>2
<1>21. CASE MayStay
  BY <1>21, <1>s DEF MayStay, current, TypeInv, CallerKnown
<1>22. CASE MaySuspend
  BY <1>3, <1>22 DEF MaySuspend, TypeInv, CallerKnown, Holding
<1>23. CASE NewRunner
  <2>1. PICK q \in Prio :
          /\ FirstReady(q)
          /\ LET t == Head(ready[q])
             IN  IF Doomed(t)
                 THEN /\ state' = [state EXCEPT ![t] = "DEAD"]
                      /\ UNCHANGED <<running, pc>>
                 ELSE /\ running' = t
                      /\ state' = [state EXCEPT ![t] = "RUNNING"]
                      /\ pc' = "house"
    BY <1>23 DEF NewRunner
  <2> DEFINE t == Head(ready[q])
  <2>2. pc = "runner" /\ UNCHANGED <<alive, flags, delay, mode, now>>
    BY <1>23 DEF NewRunner
  <2>3. ready[q] \in Seq(Tid) /\ ready[q] # <<>>
    BY <1>a, <2>1 DEF QueueTypes, FirstReady, ReadyPrios
  <2>4. t \in ToSet(ready[q]) /\ t \in Tid
    BY <2>3, DequeueSet DEF PlaceInv, NoRepeats
  <2>5. t \in alive /\ state[t] = "READY" /\ ~Holding
    BY <2>2, <2>4 DEF PlaceInv, Placed, ReadyPlaced, RunnerInv, Holding, HoldPoints
  <2>6. /\ Doomed(t) => state' = [state EXCEPT ![t] = "DEAD"] /\ UNCHANGED <<running, pc>>
        /\ ~Doomed(t) => running' = t /\ state' = [state EXCEPT ![t] = "RUNNING"] /\ pc' = "house"
    BY <2>1
  <2> HIDE DEF t
  <2>7. CASE Doomed(t)
    <3>1. current' = current
      BY <1>h, <2>2, <2>6, <2>7
    <3> QED
      BY <1>t, <2>2, <2>4, <2>5, <2>6, <2>7, <3>1, BuryImplements DEF Doomed
  <2>8. CASE ~Doomed(t)
    BY <1>t, <2>2, <2>4, <2>5, <2>6, <2>8, DispatchImplements DEF Doomed
  <2> QED
    BY <2>7, <2>8
<1>24. CASE HouseStart \/ HouseEnd \/ SwitchContext
  <2>1. pc \in HoldPoints /\ pc' \in HoldPoints
    BY <1>24 DEF HouseStart, HouseEnd, SwitchContext, HoldPoints
  <2>2. UNCHANGED <<alive, state, flags, delay, now, running, mode>>
    BY <1>24 DEF HouseStart, HouseEnd, SwitchContext
  <2> QED
    BY <1>h, <1>s, <2>1, <2>2
<1>25. CASE HouseIteration
  <2> DEFINE t == Head(deadq)
  <2>1. pc = "house_loop" /\ deadq # <<>> /\ UNCHANGED <<running, pc, mode, now>>
    BY <1>25 DEF HouseIteration
  <2>2. t \in ToSet(deadq) /\ t \in Tid
    BY <1>a, <2>1, DequeueSet DEF QueueTypes, PlaceInv, NoRepeats
  <2>3. t # running /\ t \in alive /\ state[t] = "DEAD"
    BY <2>1, <2>2 DEF PlaceInv, Placed, DeadPlaced, RunnerInv, Holding, HoldPoints
  <2>4. done_thread(t)
    BY <1>25, <2>3 DEF HouseIteration
  <2> HIDE DEF t
  <2>5. current' = current
    BY <1>h, <2>1
  <2> QED
    BY <1>t, <2>1, <2>2, <2>3, <2>4, <2>5, ReapImplements
<1>28. CASE ClockTick
  <2>1. /\ UNCHANGED <<alive, state, flags, delay, running, pc, mode>>
        /\ now' \in now + 1 .. MaxTime
    <3>1. PICK d \in 1 .. period : now + d <= MaxTime /\ now' = now + d
      BY <1>28 DEF ClockTick
    <3>2. period \in Nat
      BY <1>a DEF ClockTypes
    <3> QED
      BY <1>28, <1>b, <3>1, <3>2 DEF ClockTick
  <2>2. current' = current
    BY <1>h, <2>1
  <2>3. Promise!Tick
    BY <2>1, <2>2 DEF Promise!Tick, current
  <2> QED
    BY <2>3 DEF Implements, Promise!ThreadsNext
<1>29. ASSUME NEW s, NEW t, Signal(s, t) PROVE Implements
  BY <1>29, <1>h, <1>s DEF Signal
<1>30. CASE UNCHANGED vars
  BY <1>30, <1>h, <1>s DEF vars
<1>u. pc = "user" => Holding
  BY DEF Holding, HoldPoints
<1>31. CASE IdleThread
  BY <1>3, <1>31, <1>u DEF IdleThread, thread_suspend
<1>32. CASE TimersThread
  BY <1>6, <1>32, <1>b, Constants DEF TimersThread
<1>33. CASE AppYields
  <2>1. CASE thread_suspend \/ thread_may_suspend \/ thread_terminate
    BY <1>3, <1>4, <1>7, <1>u, <2>1 DEF thread_suspend
  <2>2. ASSUME NEW d \in Delays, now + d <= MaxTime, thread_delay(d) PROVE Implements
    BY <1>5, <2>2, TimeAssumption
  <2>3. ASSUME NEW k \in WaitKinds, NEW d \in Timeouts, now + d <= MaxTime, Wait(k, d) PROVE Implements
    BY <1>6, <1>b, <2>3, Constants, TimeAssumption
  <2> QED
    BY <1>33, <2>1, <2>2, <2>3 DEF AppYields
<1>34. CASE AppCreates
  BY <1>2, <1>34 DEF AppCreates
<1>35. CASE AppKills
  BY <1>8, <1>35 DEF AppKills
<1>36. CASE AppUnlocks
  BY <1>9, <1>36 DEF AppUnlocks
<1>37. CASE Interrupt
  BY <1>28, <1>29, <1>37 DEF Interrupt
<1> QED
  BY <1>1, <1>10, <1>12, <1>13, <1>14, <1>18, <1>19, <1>21, <1>22, <1>23, <1>24, <1>25, <1>30,
     <1>31, <1>32, <1>33, <1>34, <1>35, <1>36, <1>37
     DEF Next, UpdateSchedule, ScheduleThread, Panicked

(* In every instance whose threads kill no thread that waits for a mutex   *)
(* alone, the scheduler implements Threads: waits end as they promise to,  *)
(* killed threads only die, dead slots are freed once, and nobody gets the *)
(* processor while another thread has it.                                  *)
THEOREM SchedulerImplementsThreads ==
    ASSUME SparesMutexWaiters
    PROVE  Spec => ImplementsThreads
<1>1. Init => RefinementInv
  <2>1. Init => FreeSlotsClean /\ ClockRead
    BY DEF Init, FreeSlotsClean, ClockRead
  <2> QED
    BY <2>1, InitTypeInv, InitPlaceInv DEF RefinementInv
<1>2. RefinementInv /\ [Next]_vars => RefinementInv'
  BY NextTypeInv, NextPlaceInv, NextFreeSlotsClean, NextClockRead DEF RefinementInv
<1>3. RefinementInv /\ [Next]_vars => [Promise!ThreadsNext]_(Promise!threadsVars)
  BY NextImplements
<1>4. Init => Promise!ThreadsInit
  BY InitImplements
<1> QED
  BY <1>1, <1>2, <1>3, <1>4, PTL DEF Spec, ImplementsThreads, Promise!ThreadsSpec

=============================================================================
