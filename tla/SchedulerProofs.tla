--------------------------- MODULE SchedulerProofs ---------------------------
(***************************************************************************)
(* Proofs about Scheduler for every number of threads, every choice of     *)
(* priorities, delays and timeouts, and every set of calls and sources.    *)
(***************************************************************************)
EXTENDS Scheduler, SequenceTheorems, TLAPS

(* What schedule_waiting's queue_roll leaves is a queue of the same things. *)
LEMMA RollType ==
    ASSUME NEW S, NEW q \in Seq(S)
    PROVE  queue_roll(q) \in Seq(S)
BY DEF queue_roll

(* Rolling a queue neither drops nor adds an entry.                        *)
LEMMA RollLen ==
    ASSUME NEW S, NEW q \in Seq(S)
    PROVE  Len(queue_roll(q)) = Len(q)
BY DEF queue_roll

(* The insertion of scheduler_delay_thread keeps a queue of threads.       *)
LEMMA InsertType ==
    ASSUME NEW S, NEW q \in Seq(S), NEW e \in S, NEW p \in 1 .. Len(q) + 1
    PROVE  InsertAt(q, p, e) \in Seq(S)
BY DEF InsertAt

(* thread_may_suspend is called by a thread: its caller is known when it   *)
(* comes back from update_schedule.                                        *)
CallerKnown ==
    /\ pc = "may_check" => mode = "may"
    /\ mode = "may" => running \in Tid

(* Types are inductive only together with the bound on the loop of         *)
(* schedule_waiting, which reads the head of the queue without a test.     *)
TypeInv == TypeOK /\ CallerKnown /\ WaitLoopHasHead

(* The members of the constant sets the actions name. *)
LEMMA Constants ==
    /\ THREAD_TID_IDLE \in Tid /\ THREAD_TID_TMRS \in Tid
    /\ 0 \in Prio /\ CreatePrios \subseteq Prio
    /\ "RUNNING" \in ThreadState /\ "WAITING" \in ThreadState
    /\ "READY" \in ThreadState /\ "DEAD" \in ThreadState
    /\ THREAD_MASK_WAIT \subseteq Flag /\ THREAD_MASK_EVENTS \subseteq THREAD_MASK_WAIT
    /\ "TIMEOUT" \in THREAD_MASK_WAIT /\ "TERMINATE" \in Flag
    /\ "BARRIER" \in THREAD_MASK_EVENTS
    /\ Source \subseteq PC /\ Sources \subseteq Source
    /\ WaitKinds \subseteq THREAD_MASK_EVENTS
    /\ SchedDelayMax \in Nat /\ Delays \subseteq Nat /\ Timeouts \subseteq Nat
BY ThreadsAssumption, PrioAssumption, TimeAssumption, EnvironmentAssumption
   DEF Tid, Prio, THREAD_TID_IDLE, THREAD_TID_TMRS, THREAD_PRIORITIES,
       ThreadState, Flag, THREAD_MASK_WAIT, THREAD_MASK_EVENTS, PC, Source

(* What kernel_threads_init leaves is well typed.                          *)
LEMMA InitTypeInv == Init => TypeInv
BY ThreadsAssumption, TimeAssumption
   DEF Init, TypeInv, CallerKnown, WaitLoopHasHead, TypeOK, ThreadTypes, QueueTypes,
       ControlTypes, ClockTypes, Tid, Prio, SystemTids, THREAD_TID_IDLE,
       THREAD_TID_TMRS, THREAD_TID_INVALID, THREAD_PRIORITIES, ThreadState, Flag,
       PC, Source

(* The control points an action can move to.                               *)
LEMMA ControlPoints ==
    /\ {"events", "user", "waiting_loop", "delayed", "delayed_loop", "set_period",
        "may_check", "runner", "house", "house_loop", "switch", "panic"} \subseteq PC
    /\ \A s \in Source : AfterPass[s] \in PC \ {"may_check", "waiting_loop"}
    /\ "events" \notin {"may_check", "waiting_loop"}
BY DEF PC, Source, AfterPass

(* ResumeAll, whatever it resumes, keeps the fields it writes typed.       *)
LEMMA ResumeTypes ==
    ASSUME NEW fl, NEW S, ThreadTypes, ResumeAll(fl, S)
    PROVE  /\ state' \in [Tid -> ThreadState]
           /\ flags' \in [Tid -> SUBSET Flag]
           /\ delay' \in [Tid -> Nat]
BY Constants DEF ResumeAll, ResumedState, ThreadTypes

(* Every step keeps the types; one step of the proof per action, split     *)
(* where an action disturbs several parts of the invariant.                *)
LEMMA NextTypeInv == TypeInv /\ [Next]_vars => TypeInv'
<1> SUFFICES ASSUME TypeInv, [Next]_vars PROVE TypeInv'
  OBVIOUS
<1> USE Constants, ControlPoints DEF TypeInv, TypeOK, CallerKnown, WaitLoopHasHead
<1> USE DEF threadVars, slotVars, fieldVars, queueVars, cpuVars, loopVars,
            delayVars, envVars
<1>a. ThreadTypes /\ QueueTypes /\ ControlTypes /\ ClockTypes
  OBVIOUS
<1>1. CASE KernelRun
  BY <1>1 DEF KernelRun, EnterSchedule, ThreadTypes, QueueTypes, ControlTypes, ClockTypes
<1>2. ASSUME NEW p \in Prio, thread_create(p) PROVE TypeInv'
  <2>1. PICK t \in Tid \ alive :
          /\ alive' = alive \cup {t}
          /\ prio' = [prio EXCEPT ![t] = p]
          /\ state' = [state EXCEPT ![t] = "READY"]
          /\ delay' = [delay EXCEPT ![t] = 0]
          /\ ready' = [ready EXCEPT ![p] = Append(@, t)]
    BY <1>2 DEF thread_create
  <2>2. ThreadTypes'
    BY <1>2, <2>1 DEF thread_create, ThreadTypes
  <2>3. QueueTypes'
    BY <1>2, <2>1 DEF thread_create, QueueTypes
  <2> QED
    BY <1>2, <2>2, <2>3 DEF thread_create, ControlTypes, ClockTypes
<1>3. ASSUME running \in Tid, SuspendRunning PROVE TypeInv'
  <2>1. ThreadTypes'
    BY <1>3 DEF SuspendRunning, ThreadTypes
  <2>2. QueueTypes'
    BY <1>3 DEF SuspendRunning, QueueTypes, ThreadTypes
  <2> QED
    BY <1>3, <2>1, <2>2 DEF SuspendRunning, EnterSchedule, ControlTypes, ClockTypes
<1>4. ASSUME running \in Tid, thread_may_suspend PROVE TypeInv'
  BY <1>4 DEF thread_may_suspend, EnterSchedule, ThreadTypes, QueueTypes, ControlTypes, ClockTypes
<1>5. ASSUME running \in Tid, NEW d \in Nat, thread_delay(d) PROVE TypeInv'
  <2>1. ThreadTypes'
    BY <1>5 DEF thread_delay, ThreadTypes, ClockTypes
  <2>2. PICK p \in 1 .. Len(delayq) + 1 : delayq' = InsertAt(delayq, p, running)
    BY <1>5 DEF thread_delay
  <2>3. QueueTypes'
    BY <1>5, <2>2, InsertType DEF thread_delay, QueueTypes
  <2> QED
    BY <1>5, <2>1, <2>3 DEF thread_delay, EnterSchedule, ControlTypes, ClockTypes
<1>6. ASSUME running \in Tid, NEW k \in THREAD_MASK_EVENTS, NEW d \in Nat, Wait(k, d)
      PROVE TypeInv'
  <2> USE <1>6 DEF Wait, WaitRunning
  <2>1. ThreadTypes'
    <3>1. flags' \in [Tid -> SUBSET Flag]
      BY DEF ThreadTypes
    <3>2. delay' \in [Tid -> Nat]
      BY DEF ThreadTypes, ClockTypes
    <3> QED
      BY <3>1, <3>2 DEF ThreadTypes
  <2>2. QueueTypes'
    BY DEF QueueTypes
  <2> QED
    BY <2>1, <2>2 DEF EnterSchedule, ControlTypes, ClockTypes
<1>7. ASSUME running \in Tid, thread_terminate PROVE TypeInv'
  <2>1. ThreadTypes' /\ QueueTypes'
    BY <1>7 DEF thread_terminate, ThreadTypes, QueueTypes
  <2> QED
    BY <1>7, <2>1 DEF thread_terminate, EnterSchedule, ControlTypes, ClockTypes
<1>8. ASSUME NEW t \in Tid, thread_kill(t) PROVE TypeInv'
  <2>1. CASE RemoveThread(t)
    <3>1. flags' \in [Tid -> SUBSET Flag]
      BY <2>1 DEF RemoveThread, ThreadTypes
    <3>2. state' \in [Tid -> ThreadState] /\ deadq' \in Seq(Tid)
      <4>1. CASE state[t] = "WAITING" /\ flags[t] \cap THREAD_MASK_WAIT = {"MUTEX"}
        <5>1. state' = [state EXCEPT ![t] = "DEAD"] /\ deadq' = Append(deadq, t)
          BY <2>1, <4>1 DEF RemoveThread
        <5> QED
          BY <5>1 DEF ThreadTypes, QueueTypes
      <4>2. CASE ~(state[t] = "WAITING" /\ flags[t] \cap THREAD_MASK_WAIT = {"MUTEX"})
        BY <2>1, <4>2 DEF RemoveThread, ThreadTypes, QueueTypes
      <4> QED
        BY <4>1, <4>2
    <3>3. signalled' \in [Source -> SUBSET Tid]
      BY <2>1 DEF RemoveThread, ClockTypes
    <3> QED
      BY <2>1, <3>1, <3>2, <3>3 DEF RemoveThread, ThreadTypes, QueueTypes, ControlTypes, ClockTypes
  <2>2. CASE PanicKill(t)
    BY <2>2 DEF PanicKill, ThreadTypes, QueueTypes, ControlTypes, ClockTypes
  <2> QED
    BY <1>8, <2>1, <2>2 DEF thread_kill
<1>9. ASSUME NEW t \in Tid, UnlockResume(t) PROVE TypeInv'
  BY <1>9, ResumeTypes DEF UnlockResume, ThreadTypes, QueueTypes, ControlTypes, ClockTypes
<1>10. ASSUME NEW s \in Source, ResumePass(s) PROVE TypeInv'
  <2>1. ThreadTypes'
    BY <1>10, ResumeTypes DEF ResumePass, ThreadTypes
  <2> QED
    BY <1>10, <2>1 DEF ResumePass, QueueTypes, ControlTypes, ClockTypes
<1>11. CASE WaitingStart
  <2>1. Len(waitq) \in Nat
    BY DEF QueueTypes
  <2>2. ThreadTypes' /\ QueueTypes'
    BY <1>11 DEF WaitingStart, ThreadTypes, QueueTypes
  <2>3. CASE waitq # <<>>
    BY <1>11, <2>1, <2>2, <2>3 DEF WaitingStart, WaitCount, ControlTypes, ClockTypes
  <2>4. CASE waitq = <<>>
    BY <1>11, <2>2, <2>4 DEF WaitingStart, ControlTypes, ClockTypes
  <2> QED
    BY <2>3, <2>4
<1>w. ASSUME WaitingIteration
      PROVE  /\ Head(waitq) \in Tid
             /\ i \in Nat /\ i' \in Nat /\ i' = i - 1 /\ i <= Len(waitq)
             /\ Tail(waitq) \in Seq(Tid) /\ Len(Tail(waitq)) = Len(waitq) - 1
             /\ HeadTaken \in Seq(Tid) /\ Len(HeadTaken) = Len(waitq) - 1
             /\ queue_roll(waitq) \in Seq(Tid) /\ Len(queue_roll(waitq)) = Len(waitq)
  <2>1. /\ i \in Nat /\ i > 0 /\ i <= Len(waitq) /\ waitq \in Seq(Tid) /\ i' = i - 1
    BY <1>w DEF WaitingIteration, IterationLeft, ControlTypes, QueueTypes
  <2>2. Head(waitq) \in Tid /\ Tail(waitq) \in Seq(Tid) /\ Len(Tail(waitq)) = Len(waitq) - 1
    BY <2>1
  <2> QED
    <3>1. /\ queue_roll(waitq) \in Seq(Tid) /\ Len(queue_roll(waitq)) = Len(waitq)
      BY <2>1, RollType, RollLen
    <3>2. HeadTaken \in Seq(Tid) /\ Len(HeadTaken) = Len(Tail(waitq))
      BY <2>2, RollType, RollLen DEF HeadTaken
    <3> QED
      BY <2>1, <2>2, <3>1, <3>2
<1>12. CASE WaitingTerminated
  <2>1. WaitingIteration
    BY <1>12 DEF WaitingTerminated
  <2>2. ThreadTypes' /\ QueueTypes'
    <3>1. Head(waitq) \in Tid /\ HeadTaken \in Seq(Tid)
      BY <2>1, <1>w
    <3>2. ThreadTypes'
      BY <1>12, <3>1 DEF WaitingTerminated, WaitingIteration, ThreadTypes
    <3> QED
      BY <1>12, <3>1, <3>2 DEF WaitingTerminated, WaitingIteration, QueueTypes
  <2> QED
    BY <1>12, <2>1, <2>2, <1>w DEF WaitingTerminated, WaitingIteration, ControlTypes, ClockTypes
<1>13. CASE WaitingExpired
  <2>1. WaitingIteration
    BY <1>13 DEF WaitingExpired
  <2>2. ThreadTypes'
    BY <1>13, <2>1, ResumeTypes DEF WaitingExpired, WaitingIteration, ThreadTypes
  <2>3. QueueTypes'
    <3>1. Head(waitq) \in Tid /\ HeadTaken \in Seq(Tid)
      BY <2>1, <1>w
    <3>2. ready' \in [Prio -> Seq(Tid)]
      BY <1>13, <3>1 DEF WaitingExpired, ThreadTypes, QueueTypes
    <3> QED
      BY <1>13, <3>1, <3>2 DEF WaitingExpired, WaitingIteration, QueueTypes
  <2> QED
    BY <1>13, <2>1, <2>2, <2>3, <1>w DEF WaitingExpired, WaitingIteration, ControlTypes, ClockTypes
<1>14. CASE WaitingStays
  <2>1. WaitingIteration
    BY <1>14 DEF WaitingStays
  <2>2. ThreadTypes' /\ QueueTypes'
    BY <1>14, <2>1, <1>w DEF WaitingStays, WaitingIteration, ThreadTypes, QueueTypes
  <2>3. new_delay_wq' \in Nat
    <3>1. new_delay_wq' \in {new_delay_wq, NewDelay(Head(waitq), new_delay_wq)}
      BY <1>14 DEF WaitingStays
    <3>2. delay[Head(waitq)] \in Nat /\ expiration \in Nat /\ new_delay_wq \in Nat
      BY <2>1, <1>w DEF ThreadTypes, ClockTypes, ControlTypes
    <3> QED
      BY <3>1, <3>2 DEF NewDelay
  <2> QED
    BY <1>14, <2>1, <2>2, <2>3, <1>w DEF WaitingStays, WaitingIteration, ControlTypes, ClockTypes
<1>15. CASE WaitingReady
  <2>1. WaitingIteration
    BY <1>15 DEF WaitingReady
  <2>2. ThreadTypes' /\ QueueTypes'
    <3>1. Head(waitq) \in Tid /\ HeadTaken \in Seq(Tid)
      BY <2>1, <1>w
    <3>2. ready' \in [Prio -> Seq(Tid)]
      BY <1>15, <3>1 DEF WaitingReady, ThreadTypes, QueueTypes
    <3> QED
      BY <1>15, <3>1, <3>2 DEF WaitingReady, WaitingIteration, ThreadTypes, QueueTypes
  <2> QED
    BY <1>15, <2>1, <2>2, <1>w DEF WaitingReady, WaitingIteration, ControlTypes, ClockTypes
<1>16. CASE WaitingEnd
  BY <1>16 DEF WaitingEnd, ThreadTypes, QueueTypes, ControlTypes, ClockTypes
<1>17. CASE DelayedStart
  BY <1>17 DEF DelayedStart, ThreadTypes, QueueTypes, ControlTypes, ClockTypes
<1>18. CASE DelayedExpired
  <2>1. Head(delayq) \in Tid /\ Tail(delayq) \in Seq(Tid)
    BY <1>18 DEF DelayedExpired, QueueTypes
  <2>2. ThreadTypes'
    BY <1>18, ResumeTypes DEF DelayedExpired, ThreadTypes
  <2>3. QueueTypes'
    BY <1>18, <2>1 DEF DelayedExpired, ThreadTypes, QueueTypes
  <2> QED
    BY <1>18, <2>2, <2>3 DEF DelayedExpired, ControlTypes, ClockTypes
<1>19. CASE DelayedEnd
  <2>1. delayq # <<>> => Head(delayq) \in Tid
    BY DEF QueueTypes
  <2>2. new_delay_dq' \in Nat
    BY <1>19, <2>1 DEF DelayedEnd, NewDelay, ThreadTypes, ControlTypes, ClockTypes
  <2> QED
    BY <1>19, <2>2 DEF DelayedEnd, ThreadTypes, QueueTypes, ControlTypes, ClockTypes
<1>20. CASE SetPeriod
  BY <1>20 DEF SetPeriod, ThreadTypes, QueueTypes, ControlTypes, ClockTypes
<1>21. CASE MayStay
  BY <1>21 DEF MayStay, ThreadTypes, QueueTypes, ControlTypes, ClockTypes
<1>22. CASE MaySuspend
  BY <1>3, <1>22 DEF MaySuspend
<1>23. CASE NewRunner
  <2>1. PICK q \in Prio :
          /\ FirstReady(q)
          /\ LET t == Head(ready[q])
             IN  /\ ready' = [ready EXCEPT ![q] = Tail(@)]
                 /\ IF Doomed(t)
                    THEN /\ deadq' = Append(deadq, t)
                         /\ state' = [state EXCEPT ![t] = "DEAD"]
                         /\ UNCHANGED <<running, pc>>
                    ELSE /\ running' = t
                         /\ state' = [state EXCEPT ![t] = "RUNNING"]
                         /\ pc' = "house"
                         /\ UNCHANGED deadq
    BY <1>23 DEF NewRunner
  <2>2. Head(ready[q]) \in Tid /\ Tail(ready[q]) \in Seq(Tid)
    BY <2>1 DEF FirstReady, ReadyPrios, QueueTypes
  <2>u. UNCHANGED <<slotVars, flags, delay, waitq, delayq, cpu, mode, loopVars,
                    delayVars, envVars>>
    BY <1>23 DEF NewRunner
  <2>3. ThreadTypes' /\ QueueTypes'
    <3>1. ready' \in [Prio -> Seq(Tid)]
      BY <2>1, <2>2 DEF QueueTypes
    <3>2. CASE Doomed(Head(ready[q]))
      <4>1. PICK t \in Tid : deadq' = Append(deadq, t) /\ state' = [state EXCEPT ![t] = "DEAD"]
        BY <2>1, <2>2, <3>2
      <4>2. state' \in [Tid -> ThreadState] /\ deadq' \in Seq(Tid)
        BY <4>1 DEF ThreadTypes, QueueTypes, ThreadState
      <4> QED
        BY <2>1, <2>u, <3>1, <4>2 DEF ThreadTypes, QueueTypes
    <3>3. CASE ~Doomed(Head(ready[q]))
      BY <2>1, <2>2, <2>u, <3>1, <3>3 DEF ThreadTypes, QueueTypes
    <3> QED
      BY <3>2, <3>3
  <2>4. ControlTypes' /\ CallerKnown'
    BY <2>1, <2>2, <2>u, <1>23 DEF NewRunner, ControlTypes
  <2> QED
    BY <2>1, <2>3, <2>4, <2>u, <1>23 DEF NewRunner, ClockTypes
<1>24. CASE HouseStart
  <2>1. Len(deadq) \in Nat
    BY DEF QueueTypes
  <2>2. ControlTypes' /\ CallerKnown' /\ WaitLoopHasHead'
    BY <1>24, <2>1 DEF HouseStart, ControlTypes
  <2> QED
    BY <1>24, <2>2 DEF HouseStart, ThreadTypes, QueueTypes, ClockTypes
<1>25. CASE HouseIteration
  <2>1. Head(deadq) \in Tid /\ Tail(deadq) \in Seq(Tid) /\ queue_roll(deadq) \in Seq(Tid)
    BY <1>25, RollType DEF HouseIteration, QueueTypes
  <2>2. ThreadTypes'
    <3>1. CASE UNCHANGED threadVars
      BY <3>1 DEF ThreadTypes
    <3>2. CASE done_thread(Head(deadq))
      BY <2>1, <3>2 DEF done_thread, SlotsLeft, ThreadTypes
    <3> QED
      BY <1>25, <3>1, <3>2 DEF HouseIteration
  <2>3. QueueTypes'
    BY <1>25, <2>1 DEF HouseIteration, QueueTypes
  <2> QED
    BY <1>25, <2>2, <2>3 DEF HouseIteration, ControlTypes, ClockTypes
<1>26. CASE HouseEnd
  BY <1>26 DEF HouseEnd, ThreadTypes, QueueTypes, ControlTypes, ClockTypes
<1>27. CASE SwitchContext
  BY <1>27 DEF SwitchContext, ThreadTypes, QueueTypes, ControlTypes, ClockTypes
<1>28. CASE ClockTick
  BY <1>28 DEF ClockTick, ThreadTypes, QueueTypes, ControlTypes, ClockTypes
<1>29. ASSUME NEW s \in Source, NEW t \in Tid, Signal(s, t) PROVE TypeInv'
  BY <1>29 DEF Signal, ThreadTypes, QueueTypes, ControlTypes, ClockTypes
<1>30. CASE UNCHANGED vars
  BY <1>30 DEF vars, ThreadTypes, QueueTypes, ControlTypes, ClockTypes
<1>31. CASE IdleThread
  BY <1>3, <1>31 DEF IdleThread, thread_suspend
<1>32. CASE TimersThread
  BY <1>6, <1>32 DEF TimersThread
<1>33. CASE AppYields
  BY <1>3, <1>4, <1>5, <1>6, <1>7, <1>33 DEF AppYields, thread_suspend
<1>34. CASE AppCreates
  BY <1>2, <1>34 DEF AppCreates
<1>35. CASE AppKills
  BY <1>8, <1>35 DEF AppKills
<1>36. CASE AppUnlocks
  BY <1>9, <1>36 DEF AppUnlocks
<1>37. CASE Interrupt
  BY <1>28, <1>29, <1>37 DEF Interrupt, ThreadTypes
<1> QED
  BY <1>1, <1>10, <1>11, <1>12, <1>13, <1>14, <1>15, <1>16, <1>17, <1>18, <1>19,
     <1>20, <1>21, <1>22, <1>23, <1>24, <1>25, <1>26, <1>27, <1>30, <1>31, <1>32,
     <1>33, <1>34, <1>35, <1>36, <1>37
     DEF Next, UpdateSchedule, ScheduleThread, Panicked

(* Every variable of the kernel keeps its type, and schedule_waiting never *)
(* dereferences the head of an empty wait_queue.                           *)
THEOREM TypeCorrect == Spec => [](TypeOK /\ WaitLoopHasHead)
<1>1. Init => TypeInv
  BY InitTypeInv
<1>2. TypeInv /\ [Next]_vars => TypeInv'
  BY NextTypeInv
<1>3. TypeInv => TypeOK /\ WaitLoopHasHead
  BY DEF TypeInv
<1> QED
  BY <1>1, <1>2, <1>3, PTL DEF Spec

(* schedule_waiting never dereferences the head of an empty queue: what    *)
(* its loop still counts is never more than what wait_queue holds.         *)
THEOREM WaitLoopsHaveHeads == Spec => []WaitLoopHasHead
<1>1. TypeOK /\ WaitLoopHasHead => WaitLoopHasHead
  OBVIOUS
<1> QED
  BY <1>1, TypeCorrect, PTL

(***************************************************************************)
(* Idle is always there to be run.                                         *)
(***************************************************************************)
NotIdle == Tid \ {THREAD_TID_IDLE}
Lowest  == THREAD_PRIORITIES - 1

(* Idle is never marked for termination and never waits.                   *)
IdleThreadInv ==
    /\ THREAD_TID_IDLE \in alive
    /\ "TERMINATE" \notin flags[THREAD_TID_IDLE]
    /\ prio[THREAD_TID_IDLE] = Lowest
    /\ state[THREAD_TID_IDLE] \in {"READY", "RUNNING"}

(* The only queue it is ever in is its ready queue.                        *)
IdleQueueInv ==
    /\ waitq \in Seq(NotIdle) /\ delayq \in Seq(NotIdle) /\ deadq \in Seq(NotIdle)
    /\ state[THREAD_TID_IDLE] = "READY" => Contains(ready[Lowest], THREAD_TID_IDLE)

(* It is RUNNING only between new_runner and its next call of the kernel.  *)
IdleControlInv ==
    state[THREAD_TID_IDLE] = "RUNNING" =>
        /\ running = THREAD_TID_IDLE
        /\ pc \in {"house", "house_loop", "switch", "user", "panic"}

IdleInv == IdleThreadInv /\ IdleQueueInv /\ IdleControlInv

(* What queue_enqueue and queue_dequeue do to the membership of a thread.  *)
LEMMA ContainsAppend ==
    ASSUME NEW S, NEW q \in Seq(S), NEW e \in S, NEW x, Contains(q, x)
    PROVE  Contains(Append(q, e), x)
BY DEF Contains

(* The thread queue_enqueue adds is in the queue.                          *)
LEMMA ContainsAppended ==
    ASSUME NEW S, NEW q \in Seq(S), NEW e \in S
    PROVE  Contains(Append(q, e), e)
<1>1. Append(q, e)[Len(q) + 1] = e /\ Len(q) + 1 \in 1 .. Len(Append(q, e))
  OBVIOUS
<1> QED
  BY <1>1 DEF Contains

(* queue_dequeue takes no thread out of the queue but its head.            *)
LEMMA ContainsTail ==
    ASSUME NEW S, NEW q \in Seq(S), NEW x, Contains(q, x), Head(q) # x
    PROVE  Contains(Tail(q), x)
<1>1. PICK j \in 1 .. Len(q) : q[j] = x
  BY DEF Contains
<1>2. j # 1 /\ j \in Nat /\ Len(q) \in Nat
  BY <1>1
<1>3. j - 1 \in 1 .. Len(Tail(q)) /\ Tail(q)[j - 1] = x
  BY <1>1, <1>2
<1> QED
  BY <1>3 DEF Contains

(* Appending a thread to any ready queue leaves Idle where it is.          *)
LEMMA ReadyKeepsIdle ==
    ASSUME QueueTypes, NEW p \in Prio, NEW t \in Tid,
           ready' = [ready EXCEPT ![p] = Append(@, t)],
           Contains(ready[Lowest], THREAD_TID_IDLE)
    PROVE  Contains(ready'[Lowest], THREAD_TID_IDLE)
<1>1. Lowest \in Prio
  BY DEF Lowest, Prio, THREAD_PRIORITIES
<1>2. ready[Lowest] \in Seq(Tid)
  BY <1>1 DEF QueueTypes
<1>3. CASE p = Lowest
  <2>1. ready'[Lowest] = Append(ready[Lowest], t)
    BY <1>1, <1>3 DEF QueueTypes
  <2> QED
    BY <1>2, <2>1, ContainsAppend
<1>4. CASE p # Lowest
  BY <1>1, <1>4 DEF QueueTypes
<1> QED
  BY <1>3, <1>4

(* kernel_threads_init puts Idle in the queue of the lowest priority.      *)
LEMMA InitIdleInv == Init => IdleInv
<1> SUFFICES ASSUME Init PROVE IdleInv
  OBVIOUS
<1>1. ready[Lowest] = <<THREAD_TID_IDLE>>
  BY DEF Init, Prio, Lowest, THREAD_PRIORITIES
<1>2. Contains(ready[Lowest], THREAD_TID_IDLE)
  BY <1>1 DEF Contains
<1>3. THREAD_TID_IDLE \in Tid
  BY Constants
<1>4. IdleThreadInv /\ IdleControlInv
  BY <1>3 DEF Init, SystemTids, IdleThreadInv, IdleControlInv, Lowest, THREAD_PRIORITIES
<1> QED
  BY <1>2, <1>4 DEF Init, IdleInv, IdleQueueInv


(* Every step keeps it, one step of the proof per action; steps that touch *)
(* neither Idle nor a queue are dealt with together, in <1>q.              *)
LEMMA NextIdleInv == TypeInv /\ IdleInv /\ [Next]_vars => IdleInv'
<1> SUFFICES ASSUME TypeInv, IdleInv, [Next]_vars PROVE IdleInv'
  OBVIOUS
<1> USE DEF IdleInv, threadVars, slotVars, fieldVars, queueVars, cpuVars
<1>a. ThreadTypes /\ QueueTypes /\ ControlTypes /\ ClockTypes
  BY DEF TypeInv, TypeOK
<1>b. THREAD_TID_IDLE \in Tid /\ NotIdle \subseteq Tid /\ Lowest \in Prio
  BY Constants DEF NotIdle, Lowest, Prio, THREAD_PRIORITIES
<1>c. ASSUME running \in NotIdle PROVE state[THREAD_TID_IDLE] = "READY"
  BY <1>c DEF IdleThreadInv, IdleControlInv, NotIdle
<1>n. ASSUME NEW t \in NotIdle, NEW S, NEW f \in [Tid -> S], NEW e
      PROVE  [f EXCEPT ![t] = e][THREAD_TID_IDLE] = f[THREAD_TID_IDLE]
  BY <1>b DEF NotIdle
<1>q. ASSUME UNCHANGED <<alive, prio, flags, state, queueVars, running>>,
             state[THREAD_TID_IDLE] = "READY"
             \/ pc' \in {"house", "house_loop", "switch", "user", "panic"}
      PROVE  IdleInv'
  BY <1>q DEF IdleThreadInv, IdleQueueInv, IdleControlInv
<1>r. ASSUME NEW fl, NEW S, ResumeAll(fl, S)
      PROVE  /\ state'[THREAD_TID_IDLE] = state[THREAD_TID_IDLE]
             /\ "TERMINATE" \notin flags'[THREAD_TID_IDLE]
  BY <1>b, <1>r DEF ResumeAll, CanResume, IdleThreadInv
<1>1. CASE KernelRun
  BY <1>1, <1>q DEF KernelRun, IdleControlInv, IdleThreadInv
<1>2. ASSUME NEW p \in Prio, thread_create(p) PROVE IdleInv'
  <2>1. PICK t \in Tid \ alive :
          /\ alive' = alive \cup {t}
          /\ prio' = [prio EXCEPT ![t] = p]
          /\ state' = [state EXCEPT ![t] = "READY"]
          /\ ready' = [ready EXCEPT ![p] = Append(@, t)]
    BY <1>2 DEF thread_create
  <2>2. t \in NotIdle
    BY <2>1 DEF NotIdle, IdleThreadInv
  <2>3. /\ prio'[THREAD_TID_IDLE] = prio[THREAD_TID_IDLE]
        /\ state'[THREAD_TID_IDLE] = state[THREAD_TID_IDLE]
    BY <1>a, <2>1, <2>2, <1>n DEF ThreadTypes
  <2>4. IdleThreadInv'
    BY <1>2, <2>1, <2>3 DEF thread_create, IdleThreadInv
  <2>5. IdleQueueInv'
    BY <1>2, <1>a, <2>1, <2>3, ReadyKeepsIdle DEF thread_create, IdleQueueInv
  <2> QED
    BY <1>2, <2>3, <2>4, <2>5 DEF thread_create, IdleControlInv
<1>3. ASSUME running \in Tid, SuspendRunning PROVE IdleInv'
  <2>1. prio[running] \in Prio
    BY <1>a, <1>3 DEF ThreadTypes
  <2>2. state'[THREAD_TID_IDLE] = "READY"
    <3>1. CASE running = THREAD_TID_IDLE
      BY <1>3, <1>a, <1>b, <3>1 DEF SuspendRunning, ThreadTypes
    <3>2. CASE running # THREAD_TID_IDLE
      BY <1>3, <1>a, <1>b, <1>c, <1>n, <3>2 DEF SuspendRunning, ThreadTypes, NotIdle
    <3> QED
      BY <3>1, <3>2
  <2>3. Contains(ready'[Lowest], THREAD_TID_IDLE)
    <3>1. CASE running = THREAD_TID_IDLE
      <4>1. ready'[Lowest] = Append(ready[Lowest], THREAD_TID_IDLE) /\ ready[Lowest] \in Seq(Tid)
        BY <1>3, <1>a, <1>b, <3>1 DEF SuspendRunning, QueueTypes, IdleThreadInv
      <4> QED
        BY <4>1, <1>b, ContainsAppended
    <3>2. CASE running # THREAD_TID_IDLE
      <4>1. Contains(ready[Lowest], THREAD_TID_IDLE)
        BY <1>3, <1>c, <3>2 DEF IdleQueueInv, NotIdle
      <4> QED
        BY <1>3, <1>a, <2>1, <4>1, ReadyKeepsIdle DEF SuspendRunning
    <3> QED
      BY <3>1, <3>2
  <2> QED
    BY <1>3, <2>2, <2>3 DEF SuspendRunning, IdleThreadInv, IdleQueueInv, IdleControlInv
<1>4. ASSUME running \in NotIdle, thread_may_suspend PROVE IdleInv'
  BY <1>4, <1>c, <1>q DEF thread_may_suspend
<1>5. ASSUME running \in NotIdle, NEW d \in Nat, thread_delay(d) PROVE IdleInv'
  <2>1. /\ state'[THREAD_TID_IDLE] = "READY"
        /\ flags'[THREAD_TID_IDLE] = flags[THREAD_TID_IDLE]
    BY <1>5, <1>a, <1>c, <1>n DEF thread_delay, ThreadTypes
  <2>2. PICK p \in 1 .. Len(delayq) + 1 : delayq' = InsertAt(delayq, p, running)
    BY <1>5 DEF thread_delay
  <2>3. delayq' \in Seq(NotIdle)
    BY <1>5, <2>2, InsertType DEF IdleQueueInv
  <2> QED
    BY <1>5, <1>c, <2>1, <2>3 DEF thread_delay, IdleThreadInv, IdleQueueInv, IdleControlInv
<1>6. ASSUME running \in Tid, NEW k, NEW d, Wait(k, d) PROVE IdleInv'
  <2>1. running \in NotIdle
    BY <1>6 DEF Wait, WaitRunning, NotIdle
  <2>2. /\ state'[THREAD_TID_IDLE] = "READY"
        /\ flags'[THREAD_TID_IDLE] = flags[THREAD_TID_IDLE]
    BY <1>6, <1>a, <1>c, <1>n, <2>1 DEF Wait, WaitRunning, ThreadTypes
  <2>3. waitq' \in Seq(NotIdle)
    BY <1>6, <2>1 DEF Wait, WaitRunning, IdleQueueInv
  <2> QED
    BY <1>6, <1>c, <2>1, <2>2, <2>3
       DEF Wait, WaitRunning, IdleThreadInv, IdleQueueInv, IdleControlInv
<1>7. ASSUME running \in NotIdle, thread_terminate PROVE IdleInv'
  <2>1. state'[THREAD_TID_IDLE] = "READY"
    BY <1>7, <1>a, <1>c, <1>n DEF thread_terminate, ThreadTypes
  <2>2. deadq' \in Seq(NotIdle)
    BY <1>7 DEF thread_terminate, IdleQueueInv
  <2> QED
    BY <1>7, <1>c, <2>1, <2>2 DEF thread_terminate, IdleThreadInv, IdleQueueInv, IdleControlInv
<1>8. ASSUME NEW t \in Tid, thread_kill(t) PROVE IdleInv'
  <2>1. CASE RemoveThread(t)
    <3>1. t \in NotIdle
      BY <2>1 DEF RemoveThread, Removable, SystemTids, NotIdle
    <3>2. flags'[THREAD_TID_IDLE] = flags[THREAD_TID_IDLE]
      BY <2>1, <3>1, <1>a, <1>b DEF RemoveThread, ThreadTypes, NotIdle
    <3>3. state'[THREAD_TID_IDLE] = state[THREAD_TID_IDLE] /\ deadq' \in Seq(NotIdle)
      <4>1. CASE UNCHANGED <<state, deadq>>
        BY <4>1 DEF IdleQueueInv
      <4>2. CASE state' = [state EXCEPT ![t] = "DEAD"] /\ deadq' = Append(deadq, t)
        <5>1. state'[THREAD_TID_IDLE] = state[THREAD_TID_IDLE]
          BY <4>2, <3>1, <1>a, <1>b DEF ThreadTypes, NotIdle
        <5>2. deadq' \in Seq(NotIdle)
          BY <4>2, <3>1 DEF IdleQueueInv
        <5> QED
          BY <5>1, <5>2
      <4> QED
        BY <2>1, <4>1, <4>2 DEF RemoveThread
    <3> QED
      BY <2>1, <3>2, <3>3 DEF RemoveThread, IdleThreadInv, IdleQueueInv, IdleControlInv
  <2>2. CASE PanicKill(t)
    BY <2>2, <1>q DEF PanicKill
  <2> QED
    BY <1>8, <2>1, <2>2 DEF thread_kill
<1>9. ASSUME NEW t \in Tid, UnlockResume(t) PROVE IdleInv'
  BY <1>9, <1>r DEF UnlockResume, IdleThreadInv, IdleQueueInv, IdleControlInv
<1>10. ASSUME NEW s \in Source, ResumePass(s) PROVE IdleInv'
  <2>1. state[THREAD_TID_IDLE] = "READY"
    BY <1>10 DEF ResumePass, Source, IdleThreadInv, IdleControlInv
  <2> QED
    BY <1>10, <1>r, <2>1 DEF ResumePass, IdleThreadInv, IdleQueueInv, IdleControlInv
<1>11. ASSUME pc \in {"waiting", "delayed", "set_period", "delayed_loop", "waiting_loop"}
       PROVE state[THREAD_TID_IDLE] = "READY"
  BY <1>11 DEF IdleThreadInv, IdleControlInv
<1>12. CASE WaitingStart
  BY <1>12, <1>11, <1>q DEF WaitingStart
<1>w. ASSUME WaitingIteration
      PROVE  /\ Head(waitq) \in NotIdle
             /\ HeadTaken \in Seq(NotIdle) /\ queue_roll(waitq) \in Seq(NotIdle)
             /\ state[THREAD_TID_IDLE] = "READY"
             /\ Contains(ready[Lowest], THREAD_TID_IDLE)
             /\ UNCHANGED <<alive, prio, delayq, running, pc>>
  <2>1. waitq \in Seq(NotIdle) /\ waitq # <<>>
    BY <1>w, <1>a DEF WaitingIteration, IterationLeft, IdleQueueInv, TypeInv,
                      WaitLoopHasHead, ControlTypes
  <2>2. Head(waitq) \in NotIdle /\ Tail(waitq) \in Seq(NotIdle)
    BY <2>1
  <2>3. HeadTaken \in Seq(NotIdle) /\ queue_roll(waitq) \in Seq(NotIdle)
    BY <2>1, <2>2, RollType DEF HeadTaken
  <2> QED
    BY <1>w, <1>11, <2>2, <2>3 DEF WaitingIteration, IdleQueueInv
<1>13. CASE WaitingTerminated
  <2> DEFINE t == Head(waitq)
  <2>1. WaitingIteration
    BY <1>13 DEF WaitingTerminated
  <2>2. /\ waitq' = HeadTaken /\ deadq' = Append(deadq, t)
        /\ state' = [state EXCEPT ![t] = "DEAD"] /\ UNCHANGED <<flags, ready>>
    BY <1>13 DEF WaitingTerminated
  <2>t. t \in NotIdle
    BY <2>1, <1>w
  <2> HIDE DEF t
  <2>3. state'[THREAD_TID_IDLE] = "READY" /\ deadq' \in Seq(NotIdle)
    <3>1. state'[THREAD_TID_IDLE] = "READY"
      BY <2>1, <2>2, <2>t, <1>a, <1>b, <1>w DEF ThreadTypes, NotIdle
    <3>2. deadq' \in Seq(NotIdle)
      BY <2>2, <2>t DEF IdleQueueInv
    <3> QED
      BY <3>1, <3>2
  <2> QED
    BY <2>1, <2>2, <2>3, <1>w DEF IdleThreadInv, IdleQueueInv, IdleControlInv
<1>14. CASE WaitingExpired
  <2> DEFINE t  == Head(waitq)
             fl == flags[t] \cap THREAD_MASK_EVENTS
  <2>1. WaitingIteration
    BY <1>14 DEF WaitingExpired
  <2>2. /\ waitq' = HeadTaken /\ ResumeAll(fl, {t}) /\ deadq' = deadq
        /\ ready' = ready \/ ready' = [ready EXCEPT ![prio[t]] = Append(@, t)]
    BY <1>14 DEF WaitingExpired
  <2>3. t \in Tid /\ prio[t] \in Prio
    BY <2>1, <1>a, <1>b, <1>w DEF ThreadTypes
  <2>4. Contains(ready'[Lowest], THREAD_TID_IDLE)
    BY <2>1, <2>2, <2>3, <1>a, <1>w, ReadyKeepsIdle
  <2> QED
    BY <2>1, <2>2, <2>4, <1>r, <1>w DEF IdleThreadInv, IdleQueueInv, IdleControlInv
<1>15. CASE WaitingStays
  <2>1. WaitingIteration
    BY <1>15 DEF WaitingStays
  <2> QED
    BY <1>15, <2>1, <1>w DEF WaitingStays, IdleThreadInv, IdleQueueInv, IdleControlInv
<1>16. CASE WaitingReady
  <2> DEFINE t == Head(waitq)
  <2>1. WaitingIteration
    BY <1>16 DEF WaitingReady
  <2>2. /\ waitq' = HeadTaken /\ UNCHANGED <<state, flags, deadq>>
        /\ ready' = [ready EXCEPT ![prio[t]] = Append(@, t)]
    BY <1>16 DEF WaitingReady
  <2>3. t \in Tid /\ prio[t] \in Prio
    BY <2>1, <1>a, <1>b, <1>w DEF ThreadTypes
  <2>4. Contains(ready'[Lowest], THREAD_TID_IDLE)
    BY <2>1, <2>2, <2>3, <1>a, <1>w, ReadyKeepsIdle
  <2> QED
    BY <2>1, <2>2, <2>4, <1>w DEF IdleThreadInv, IdleQueueInv, IdleControlInv
<1>17. CASE WaitingEnd
  BY <1>17, <1>11, <1>q DEF WaitingEnd
<1>18. CASE DelayedStart
  BY <1>18, <1>11, <1>q DEF DelayedStart
<1>19. CASE DelayedExpired
  <2> DEFINE t == Head(delayq)
  <2>1. /\ delayq # <<>> /\ delayq' = Tail(delayq) /\ ResumeAll(SleepFlags, {t})
        /\ ready' = ready \/ ready' = [ready EXCEPT ![prio[t]] = Append(@, t)]
        /\ UNCHANGED <<alive, prio, waitq, deadq, running, pc>> /\ pc = "delayed_loop"
    BY <1>19 DEF DelayedExpired
  <2>2. t \in NotIdle /\ delayq' \in Seq(NotIdle)
    BY <2>1 DEF IdleQueueInv
  <2>3. t \in Tid /\ prio[t] \in Prio
    BY <2>2, <1>a, <1>b DEF ThreadTypes
  <2>4. Contains(ready[Lowest], THREAD_TID_IDLE)
    BY <2>1, <1>11 DEF IdleQueueInv
  <2>5. Contains(ready'[Lowest], THREAD_TID_IDLE)
    BY <2>1, <2>3, <2>4, <1>a, ReadyKeepsIdle
  <2> QED
    BY <2>1, <2>2, <2>5, <1>11, <1>r DEF IdleThreadInv, IdleQueueInv, IdleControlInv
<1>20. CASE DelayedEnd
  BY <1>20, <1>11, <1>q DEF DelayedEnd
<1>21. CASE SetPeriod
  BY <1>21, <1>11, <1>q DEF SetPeriod
<1>22. CASE MayStay
  BY <1>22, <1>q DEF MayStay
<1>23. CASE MaySuspend
  <2>1. running \in Tid
    BY <1>23 DEF MaySuspend, TypeInv, CallerKnown
  <2> QED
    BY <2>1, <1>3, <1>23 DEF MaySuspend
<1>24. CASE NewRunner
  <2>1. PICK q \in Prio :
          /\ FirstReady(q)
          /\ ready' = [ready EXCEPT ![q] = Tail(@)]
          /\ LET t == Head(ready[q])
             IN  IF Doomed(t)
                 THEN /\ deadq' = Append(deadq, t)
                      /\ state' = [state EXCEPT ![t] = "DEAD"]
                      /\ UNCHANGED <<running, pc>>
                 ELSE /\ running' = t
                      /\ state' = [state EXCEPT ![t] = "RUNNING"]
                      /\ pc' = "house"
                      /\ UNCHANGED deadq
    BY <1>24 DEF NewRunner
  <2> DEFINE t == Head(ready[q])
  <2>2. t \in Tid /\ ready[q] \in Seq(Tid) /\ ready[Lowest] \in Seq(Tid)
    BY <1>a, <1>b, <2>1 DEF FirstReady, ReadyPrios, QueueTypes
  <2>3. state[THREAD_TID_IDLE] = "READY" /\ Contains(ready[Lowest], THREAD_TID_IDLE)
    BY <1>24 DEF NewRunner, IdleThreadInv, IdleControlInv, IdleQueueInv
  <2>4. UNCHANGED <<alive, prio, flags, waitq, delayq>>
    BY <1>24 DEF NewRunner
  <2>5. CASE t = THREAD_TID_IDLE
    <3>1. ~Doomed(t)
      BY <2>5 DEF Doomed, IdleThreadInv
    <3>2. /\ running' = THREAD_TID_IDLE /\ state'[THREAD_TID_IDLE] = "RUNNING"
          /\ pc' = "house" /\ deadq' = deadq
      BY <1>a, <1>b, <2>1, <2>5, <3>1 DEF ThreadTypes
    <3> QED
      BY <2>4, <3>2 DEF IdleThreadInv, IdleQueueInv, IdleControlInv
  <2>6. CASE t # THREAD_TID_IDLE
    <3>1. t \in NotIdle
      BY <2>2, <2>6 DEF NotIdle
    <3>2. \E e \in {"DEAD", "RUNNING"} : state' = [state EXCEPT ![t] = e]
      BY <2>1
    <3>3. state'[THREAD_TID_IDLE] = "READY"
      BY <1>a, <1>b, <2>3, <3>1, <3>2 DEF ThreadTypes, NotIdle
    <3>6. deadq' \in Seq(NotIdle)
      <4>1. deadq' = deadq \/ deadq' = Append(deadq, t)
        BY <2>1
      <4> HIDE DEF t
      <4> QED
        BY <3>1, <4>1 DEF IdleQueueInv
    <3>4. ready'[Lowest] = IF q = Lowest THEN Tail(ready[Lowest]) ELSE ready[Lowest]
      BY <1>a, <1>b, <2>1 DEF QueueTypes
    <3>5. Contains(ready'[Lowest], THREAD_TID_IDLE)
      BY <2>2, <2>3, <2>6, <3>4, ContainsTail
    <3> QED
      BY <2>4, <3>3, <3>6, <3>5 DEF IdleThreadInv, IdleQueueInv, IdleControlInv
  <2> QED
    BY <2>5, <2>6
<1>25. CASE HouseStart
  BY <1>25, <1>q DEF HouseStart
<1>26. CASE HouseIteration
  <2> DEFINE t == Head(deadq)
  <2>1. t \in NotIdle /\ Tail(deadq) \in Seq(NotIdle) /\ queue_roll(deadq) \in Seq(NotIdle)
    BY <1>26, RollType DEF HouseIteration, IdleQueueInv
  <2>2. deadq' \in Seq(NotIdle) /\ UNCHANGED <<ready, waitq, delayq, running, pc>>
    BY <1>26, <2>1 DEF HouseIteration
  <2>3. CASE UNCHANGED threadVars
    BY <2>2, <2>3 DEF IdleThreadInv, IdleQueueInv, IdleControlInv
  <2>4. CASE done_thread(t)
    <3>1. /\ state'[THREAD_TID_IDLE] = state[THREAD_TID_IDLE]
          /\ flags'[THREAD_TID_IDLE] = flags[THREAD_TID_IDLE]
          /\ prio'[THREAD_TID_IDLE] = prio[THREAD_TID_IDLE]
          /\ THREAD_TID_IDLE \in alive'
      BY <1>a, <1>n, <2>1, <2>4 DEF done_thread, ThreadTypes, NotIdle, IdleThreadInv
    <3> QED
      BY <2>2, <3>1 DEF IdleThreadInv, IdleQueueInv, IdleControlInv
  <2> QED
    BY <1>26, <2>3, <2>4 DEF HouseIteration
<1>27. CASE HouseEnd
  BY <1>27, <1>q DEF HouseEnd
<1>28. CASE SwitchContext
  BY <1>28, <1>q DEF SwitchContext
<1>29. CASE Interrupt
  BY <1>29 DEF Interrupt, ClockTick, Signal, IdleThreadInv, IdleQueueInv, IdleControlInv
<1>30. CASE UNCHANGED vars
  BY <1>30 DEF vars, IdleThreadInv, IdleQueueInv, IdleControlInv
<1>31. CASE IdleThread
  BY <1>3, <1>b, <1>31 DEF IdleThread, thread_suspend
<1>32. CASE TimersThread
  BY <1>6, <1>32, Constants DEF TimersThread
<1>33. ASSUME running \in Tid \ SystemTids PROVE running \in NotIdle
  BY <1>33 DEF SystemTids, NotIdle
<1>34. CASE AppYields
  BY <1>3, <1>4, <1>5, <1>6, <1>7, <1>33, <1>34, Constants DEF AppYields, thread_suspend
<1>35. CASE AppCreates
  BY <1>2, <1>35, Constants DEF AppCreates
<1>36. CASE AppKills
  BY <1>8, <1>36 DEF AppKills
<1>37. CASE AppUnlocks
  BY <1>9, <1>37 DEF AppUnlocks
<1> QED
  BY <1>1, <1>10, <1>12, <1>13, <1>14, <1>15, <1>16, <1>17, <1>18, <1>19,
     <1>20, <1>21, <1>22, <1>23, <1>24, <1>25, <1>26, <1>27, <1>28, <1>29, <1>30,
     <1>31, <1>32, <1>34, <1>35, <1>36, <1>37
     DEF Next, UpdateSchedule, ScheduleThread, Panicked

(* Whatever threads wait, sleep, are created or killed, and in whatever    *)
(* order, schedule_thread finds Idle in its ready queue: new_runner never  *)
(* comes back empty-handed and Idle is never destroyed.                    *)
THEOREM IdleAlwaysSchedulable == Spec => []IdleSchedulable
<1>1. Init => TypeInv /\ IdleInv
  BY InitTypeInv, InitIdleInv
<1>2. TypeInv /\ IdleInv /\ [Next]_vars => TypeInv' /\ IdleInv'
  BY NextTypeInv, NextIdleInv
<1>3. IdleInv => IdleSchedulable
  BY DEF IdleInv, IdleThreadInv, IdleControlInv, IdleQueueInv, IdleSchedulable, Lowest
<1> QED
  BY <1>1, <1>2, <1>3, PTL DEF Spec

(***************************************************************************)
(* No sleep and no timed wait ends early.                                  *)
(***************************************************************************)

(* The time schedule_waiting and schedule_delayed compare with was read    *)
(* from a clock that only moves forward.                                   *)
ClockRead == expiration <= now

(* What a step may do to a WAITING thread, stated of one thread.           *)
WakesInTime(t) ==
    state[t] = "WAITING" /\ state'[t] = "READY" =>
        \/ "TIMEOUT" \in flags[t] /\ delay[t] <= now
        \/ \E s \in Source : t \in signalled[s] /\ SourceFlag[s] \in flags[t]
        \/ "MUTEX" \in flags[t]

(* The thread that calls the kernel is not itself WAITING.                 *)
RunnerAwake ==
    pc \in {"house", "house_loop", "switch", "user"} \/ mode = "may" =>
        running \in Tid /\ state[running] # "WAITING"

(* From its choice by new_runner to its next wait, the running thread is   *)
(* not WAITING.                                                            *)
LEMMA NextRunnerAwake == TypeInv /\ RunnerAwake /\ [Next]_vars => RunnerAwake'
<1> SUFFICES ASSUME TypeInv, RunnerAwake, [Next]_vars PROVE RunnerAwake'
  OBVIOUS
<1> USE DEF RunnerAwake, threadVars, fieldVars, cpuVars
<1>a. state \in [Tid -> ThreadState] /\ ready \in [Prio -> Seq(Tid)]
  BY DEF TypeInv, TypeOK, ThreadTypes, QueueTypes
<1>1. CASE EnterSchedule("schedule")
  BY <1>1 DEF EnterSchedule
<1>2. ASSUME UNCHANGED <<running, mode, pc>>, NEW u, NEW e \in {"DEAD", "READY", "RUNNING"},
             state' = [state EXCEPT ![u] = e]
      PROVE  RunnerAwake'
  BY <1>a, <1>2
<1>3. ASSUME UNCHANGED <<running, mode>>, NEW fl, NEW S, ResumeAll(fl, S),
             pc' \in {"house", "house_loop", "switch", "user"}
               => pc \in {"house", "house_loop", "switch", "user"}
      PROVE  RunnerAwake'
  BY <1>a, <1>3 DEF ResumeAll, ResumedState
<1>4. ASSUME UNCHANGED <<running, mode, state>>,
             pc' \in {"house", "house_loop", "switch", "user"}
               => pc \in {"house", "house_loop", "switch", "user"}
      PROVE  RunnerAwake'
  BY <1>4
<1>5. CASE KernelRun
  BY <1>1, <1>5 DEF KernelRun
<1>6. CASE IdleThread \/ TimersThread \/ AppYields
  <2>1. CASE thread_may_suspend
    BY <2>1 DEF thread_may_suspend, EnterSchedule
  <2> QED
    BY <1>1, <1>6, <2>1 DEF IdleThread, TimersThread, AppYields, thread_suspend,
       SuspendRunning, thread_delay, Wait, WaitRunning, thread_terminate
<1>7. CASE AppCreates
  <2>1. PICK p \in CreatePrios : thread_create(p)
    BY <1>7 DEF AppCreates
  <2>2. PICK t : state' = [state EXCEPT ![t] = "READY"]
    BY <2>1 DEF thread_create
  <2> QED
    BY <1>2, <2>1, <2>2 DEF thread_create
<1>8. CASE AppKills
  <2>1. PICK t \in Tid : thread_kill(t)
    BY <1>8 DEF AppKills
  <2>2. CASE RemoveThread(t)
    <3>1. UNCHANGED <<running, mode, pc>>
      BY <2>2 DEF RemoveThread
    <3>2. state' = state \/ state' = [state EXCEPT ![t] = "DEAD"]
      BY <2>2 DEF RemoveThread
    <3> QED
      BY <1>2, <1>4, <3>1, <3>2
  <2>3. CASE PanicKill(t)
    BY <1>4, <2>3 DEF PanicKill
  <2> QED
    BY <2>1, <2>2, <2>3 DEF thread_kill
<1>9. CASE AppUnlocks
  BY <1>3, <1>9 DEF AppUnlocks, UnlockResume
<1>10. ASSUME NEW s \in Source, ResumePass(s) PROVE RunnerAwake'
  BY <1>3, <1>10 DEF ResumePass, AfterPass, Source
<1>11. CASE WaitingTerminated
  BY <1>2, <1>11 DEF WaitingTerminated, WaitingIteration
<1>12. CASE WaitingExpired
  BY <1>3, <1>12 DEF WaitingExpired, WaitingIteration
<1>13. CASE DelayedExpired
  BY <1>3, <1>13 DEF DelayedExpired
<1>14. CASE WaitingStart \/ WaitingStays \/ WaitingReady \/ WaitingEnd
  BY <1>4, <1>14 DEF WaitingStart, WaitingIteration, WaitingStays, WaitingReady, WaitingEnd
<1>15. CASE DelayedStart \/ DelayedEnd \/ SetPeriod
  BY <1>4, <1>15 DEF DelayedStart, DelayedEnd, SetPeriod
<1>16. CASE MayStay
  BY <1>16 DEF MayStay, TypeInv, CallerKnown
<1>17. CASE MaySuspend
  BY <1>1, <1>17 DEF MaySuspend, SuspendRunning
<1>18. CASE NewRunner
  <2>1. PICK q \in Prio :
          /\ FirstReady(q)
          /\ Doomed(Head(ready[q])) =>
                /\ state' = [state EXCEPT ![Head(ready[q])] = "DEAD"]
                /\ UNCHANGED <<running, pc>>
          /\ ~Doomed(Head(ready[q])) =>
                /\ running' = Head(ready[q])
                /\ state' = [state EXCEPT ![Head(ready[q])] = "RUNNING"]
    BY <1>18 DEF NewRunner
  <2>2. Head(ready[q]) \in Tid
    <3>1. ready[q] \in Seq(Tid) /\ ready[q] # <<>>
      BY <1>a, <2>1 DEF FirstReady, ReadyPrios
    <3> QED
      BY <3>1
  <2>3. mode' = mode
    BY <1>18 DEF NewRunner
  <2>4. CASE Doomed(Head(ready[q]))
    BY <1>2, <2>1, <2>3, <2>4
  <2>5. CASE ~Doomed(Head(ready[q]))
    <3>1. running' \in Tid /\ state' = [state EXCEPT ![running'] = "RUNNING"]
      BY <2>1, <2>2, <2>5
    <3> QED
      BY <1>a, <3>1
  <2> QED
    BY <2>4, <2>5
<1>19. CASE HouseStart \/ HouseEnd \/ SwitchContext
  BY <1>4, <1>19 DEF HouseStart, HouseEnd, SwitchContext
<1>20. CASE HouseIteration
  <2>1. UNCHANGED <<running, mode, pc>>
    BY <1>20 DEF HouseIteration
  <2>2. state' = state \/ \E t : state' = [state EXCEPT ![t] = "RUNNING"]
    BY <1>20 DEF HouseIteration, done_thread
  <2> QED
    BY <1>2, <1>4, <2>1, <2>2
<1>21. CASE Interrupt \/ UNCHANGED vars
  BY <1>4, <1>21 DEF Interrupt, ClockTick, Signal, vars
<1> QED
  BY <1>5, <1>6, <1>7, <1>8, <1>9, <1>10, <1>11, <1>12, <1>13, <1>14, <1>15, <1>16,
     <1>17, <1>18, <1>19, <1>20, <1>21
     DEF Next, UpdateSchedule, ScheduleThread, Panicked

(* What schedule_waiting and schedule_delayed read from the clock is never *)
(* ahead of it.                                                            *)
LEMMA NextClockRead == TypeInv /\ ClockRead /\ [Next]_vars => ClockRead'
<1> SUFFICES ASSUME TypeInv, ClockRead, [Next]_vars PROVE ClockRead'
  OBVIOUS
<1> USE DEF ClockRead, loopVars, envVars
<1>1. now \in Nat /\ expiration \in Nat /\ now <= now
  BY DEF TypeInv, TypeOK, ClockTypes, ControlTypes
<1>2. now' \in Nat /\ now <= now'
  <2>1. CASE ClockTick
    BY <1>1, <2>1 DEF ClockTick, TypeInv, TypeOK, ClockTypes
  <2>2. CASE now' = now
    BY <1>1, <2>2
  <2> QED
    BY <2>1, <2>2 DEF Next, UpdateSchedule, ScheduleThread, Interrupt, Panicked, vars,
       KernelRun, IdleThread, TimersThread, AppYields, AppCreates, AppKills, AppUnlocks,
       thread_suspend, SuspendRunning, thread_may_suspend, thread_delay, Wait,
       thread_terminate, thread_create, thread_kill, RemoveThread, PanicKill,
       UnlockResume, ResumePass, WaitingStart, WaitingIteration, WaitingTerminated,
       WaitingExpired, WaitingStays, WaitingReady, WaitingEnd, DelayedStart,
       DelayedExpired, DelayedEnd, SetPeriod, MayStay, MaySuspend, NewRunner,
       HouseStart, HouseIteration, HouseEnd, SwitchContext, Signal
<1>3. expiration' \in {expiration, now, 0}
  BY DEF Next, UpdateSchedule, ScheduleThread, Interrupt, Panicked, vars,
     KernelRun, IdleThread, TimersThread, AppYields, AppCreates, AppKills, AppUnlocks,
     thread_suspend, SuspendRunning, thread_may_suspend, thread_delay, Wait, WaitRunning,
     thread_terminate, thread_create, thread_kill, RemoveThread, PanicKill,
     UnlockResume, ResumePass, WaitingStart, WaitingIteration, WaitingTerminated,
     WaitingExpired, WaitingStays, WaitingReady, WaitingEnd, DelayedStart,
     DelayedExpired, DelayedEnd, SetPeriod, MayStay, MaySuspend, NewRunner,
     HouseStart, HouseIteration, HouseEnd, SwitchContext, ClockTick, Signal
<1> QED
  BY <1>1, <1>2, <1>3

(* A thread ResumeAll moves out of WAITING carried one of the flags fl and *)
(* belongs to S.                                                           *)
LEMMA ResumedBy ==
    ASSUME NEW fl, NEW S, ResumeAll(fl, S), NEW t \in Tid,
           state[t] = "WAITING", state'[t] = "READY"
    PROVE  t \in S /\ fl \cap flags[t] # {}
BY DEF ResumeAll, CanResume

(* A step that makes a WAITING thread READY is the expiry of its delay or  *)
(* the work of its primitive: one case per action.                         *)
LEMMA StepNotEarly ==
    ASSUME TypeInv, ClockRead, RunnerAwake, [Next]_vars, NEW t \in alive
    PROVE  WakesInTime(t)
<1> SUFFICES ASSUME state[t] = "WAITING", state'[t] = "READY"
             PROVE  \/ "TIMEOUT" \in flags[t] /\ delay[t] <= now
                    \/ \E s \in Source : t \in signalled[s] /\ SourceFlag[s] \in flags[t]
                    \/ "MUTEX" \in flags[t]
  BY DEF WakesInTime
<1> USE DEF threadVars, fieldVars
<1>a. /\ t \in Tid /\ state \in [Tid -> ThreadState] /\ delay \in [Tid -> Nat]
      /\ now \in Nat /\ expiration \in Nat /\ waitq \in Seq(Tid) /\ delayq \in Seq(Tid)
  BY DEF TypeInv, TypeOK, ThreadTypes, QueueTypes, ClockTypes, ControlTypes
<1>b. delay[t] <= expiration => delay[t] <= now
  BY <1>a DEF ClockRead
<1>1. CASE \E s \in Source : ResumePass(s)
  <2>1. PICK s \in Source : ResumePass(s)
    BY <1>1
  <2>2. t \in signalled[s] /\ {SourceFlag[s]} \cap flags[t] # {}
    BY <1>a, <2>1, ResumedBy DEF ResumePass
  <2> QED
    BY <2>2
<1>2. CASE WaitingExpired
  <2>1. t = Head(waitq)
    BY <1>a, <1>2, ResumedBy DEF WaitingExpired
  <2> QED
    BY <1>b, <1>2, <2>1 DEF WaitingExpired, Expired
<1>3. CASE DelayedExpired
  <2>1. t = Head(delayq) /\ {"TIMEOUT"} \cap flags[t] # {}
    BY <1>a, <1>3, ResumedBy DEF DelayedExpired, SleepFlags
  <2> QED
    BY <1>b, <1>3, <2>1 DEF DelayedExpired, Expired
<1>4. CASE \E u \in Tid : UnlockResume(u)
  <2>1. {"MUTEX"} \cap flags[t] # {}
    BY <1>a, <1>4, ResumedBy DEF UnlockResume
  <2> QED
    BY <2>1
<1>5. ASSUME NEW u, NEW e \in {"DEAD", "RUNNING", "WAITING"}, state' = [state EXCEPT ![u] = e]
      PROVE  FALSE
  BY <1>a, <1>5
<1>6. CASE SuspendRunning /\ pc \in {"user", "may_check"}
  BY <1>a, <1>6 DEF SuspendRunning, RunnerAwake, TypeInv, CallerKnown
<1>7. CASE AppCreates
  <2>1. PICK p \in CreatePrios : thread_create(p)
    BY <1>7 DEF AppCreates
  <2> QED
    BY <1>a, <2>1 DEF thread_create
<1>8. CASE AppKills
  <2>1. PICK u \in Tid : thread_kill(u)
    BY <1>8 DEF AppKills
  <2> QED
    BY <1>5, <2>1 DEF thread_kill, RemoveThread, PanicKill
<1>9. CASE IdleThread \/ TimersThread \/ AppYields
  BY <1>5, <1>6, <1>9 DEF IdleThread, TimersThread, AppYields, thread_suspend, thread_delay,
     thread_may_suspend, Wait, WaitRunning, thread_terminate
<1>10. CASE NewRunner
  BY <1>5, <1>10 DEF NewRunner
<1>11. CASE HouseIteration
  BY <1>5, <1>11 DEF HouseIteration, done_thread
<1>12. CASE WaitingTerminated
  BY <1>5, <1>12 DEF WaitingTerminated
<1>13. CASE state' = state
  BY <1>13
<1> QED
  BY <1>1, <1>2, <1>3, <1>4, <1>6, <1>7, <1>8, <1>9, <1>10, <1>11, <1>12, <1>13
     DEF Next, UpdateSchedule, ScheduleThread, Interrupt, Panicked, vars, KernelRun,
         AppUnlocks, WaitingStart, WaitingStays, WaitingReady, WaitingEnd, DelayedStart,
         DelayedEnd, SetPeriod, MayStay, MaySuspend, HouseStart, HouseEnd, SwitchContext,
         ClockTick, Signal

(* A sleeping or timed waiting thread is made READY only when its time has *)
(* come, or by the primitive it waits for: whatever interrupts arrive      *)
(* inside schedule_waiting and schedule_delayed, and whoever is killed.    *)
THEOREM NeverEarly == Spec => NotEarly
<1>1. Init => TypeInv /\ ClockRead /\ RunnerAwake
  <2>1. Init => ClockRead /\ RunnerAwake
    BY DEF Init, ClockRead, RunnerAwake
  <2> QED
    BY <2>1, InitTypeInv
<1>2. TypeInv /\ ClockRead /\ RunnerAwake /\ [Next]_vars
        => TypeInv' /\ ClockRead' /\ RunnerAwake'
  BY NextTypeInv, NextClockRead, NextRunnerAwake
<1>3. TypeInv /\ ClockRead /\ RunnerAwake /\ [Next]_vars
        => [\A t \in alive : state[t] = "WAITING" /\ state'[t] = "READY" =>
                \/ "TIMEOUT" \in flags[t] /\ delay[t] <= now
                \/ \E s \in Source : t \in signalled[s] /\ SourceFlag[s] \in flags[t]
                \/ "MUTEX" \in flags[t]]_vars
  BY StepNotEarly DEF WakesInTime
<1> QED
  BY <1>1, <1>2, <1>3, PTL DEF Spec, NotEarly

=============================================================================
