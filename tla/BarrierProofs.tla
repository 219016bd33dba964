---------------------------- MODULE BarrierProofs ----------------------------
(***************************************************************************)
(* Proofs about Barriers and Timers, for every number of threads, barriers *)
(* and timers, in both scenarios of MCBarriers.                            *)
(*                                                                         *)
(* Two hypotheses are about what callers do: a barrier is not destroyed    *)
(* while threads wait for it (barrier_done forgets them), and timer_update *)
(* does not change the recursiveness of a timer (one that becomes one-shot *)
(* between its expiration and its callback is called twice).               *)
(***************************************************************************)
EXTENDS MCBarriers, TLAPS

(***************************************************************************)
(* The barriers: the inductive invariant.                                  *)
(***************************************************************************)

(* One thread runs, and it was not killed; a thread sleeps for a barrier,  *)
(* and one that was killed for nothing until it is buried.                 *)
RunnerKnown ==
    /\ \A t \in Thread : status[t] = "RUNNING" <=> current = t
    /\ current \notin doomed
    /\ \A t \in Thread : status[t] = "WAITING" =>
            waits[t] = IF t \in doomed THEN {} ELSE {"BARRIER"}

(* Between the test of the flag and the sleep, the caller has the          *)
(* processor, and the barrier it has found closed exists.                  *)
CheckedRuns ==
    \A t \in Thread : checked[t] # NoBarrier => current = t /\ checked[t] \in barriers_list

(* A barrier that does not exist names nobody.                             *)
GoneEmpty == \A b \in Barrier \ barriers_list : thread_ids[b] = {}

BarrierInv ==
    BarriersTypeOK /\ RunnerKnown /\ CheckedRuns /\ GoneEmpty /\ BitsOfWaiters /\ WaitersListed

LEMMA InitBarrierInv == ASSUME TimersInit PROVE BarrierInv
BY NoThreadAssumption, BarrierAssumption
   DEF TimersInit, BarriersInit, ThreadsInit, BarrierInv, BarriersTypeOK, ThreadsTypeOK, Status,
       WaitFlag, RunnerKnown, CheckedRuns, GoneEmpty, BitsOfWaiters, WaitersListed

(* Steps that change neither threads nor bitmaps.                          *)
LEMMA FlagsKept ==
    ASSUME BarrierInv, UNCHANGED <<threadsVars, barriers_list, thread_ids, checked>>,
           open' \subseteq Barrier, todo' \subseteq Barrier, closing' \in Barrier \cup {NoBarrier}
    PROVE  BarrierInv'
BY DEF BarrierInv, BarriersTypeOK, ThreadsTypeOK, threadsVars, RunnerKnown, CheckedRuns,
       GoneEmpty, BitsOfWaiters, WaitersListed

LEMMA CreateKept ==
    ASSUME BarrierInv, NEW b \in Barrier, barrier_create(b)
    PROVE  BarrierInv'
BY DEF barrier_create, BarrierInv, BarriersTypeOK, ThreadsTypeOK, threadsVars, RunnerKnown,
       CheckedRuns, GoneEmpty, BitsOfWaiters, WaitersListed

LEMMA OpenCloseKept ==
    ASSUME BarrierInv, NEW b \in Barrier, barrier_open(b) \/ barrier_close(b)
    PROVE  BarrierInv'
BY FlagsKept DEF barrier_open, barrier_close, BarrierInv, BarriersTypeOK

LEMMA WaitKept ==
    ASSUME BarrierInv, NEW t \in Thread, NEW b \in Barrier,
           WaitPasses(t, b) \/ WaitChecks(t, b)
    PROVE  BarrierInv'
<1>1. CASE WaitPasses(t, b)
  BY <1>1, FlagsKept DEF WaitPasses, barrierVars, BarrierInv, BarriersTypeOK
<1>2. CASE WaitChecks(t, b)
  BY <1>2, BarrierAssumption
     DEF WaitChecks, InApp, BarrierInv, BarriersTypeOK, ThreadsTypeOK, threadsVars, RunnerKnown,
         CheckedRuns, GoneEmpty, BitsOfWaiters, WaitersListed
<1> QED
  BY <1>1, <1>2

(* The thread goes to sleep with its bit set.                              *)
LEMMA SleepKept ==
    ASSUME BarrierInv, NEW t \in Thread, WaitSleeps(t)
    PROVE  BarrierInv'
<1> DEFINE b == checked[t]
<1>1. /\ current = t /\ b \in barriers_list /\ b \in Barrier /\ status[t] = "RUNNING"
      /\ t \notin doomed /\ \A u \in Thread \ {t} : checked[u] = NoBarrier
  BY NoThreadAssumption
     DEF WaitSleeps, BarrierInv, BarriersTypeOK, CheckedRuns, RunnerKnown
<1>2. /\ thread_ids' = [thread_ids EXCEPT ![b] = @ \cup {t}]
      /\ checked' = [checked EXCEPT ![t] = NoBarrier]
      /\ status' = [status EXCEPT ![t] = "WAITING"]
      /\ waits' = [waits EXCEPT ![t] = {"BARRIER"}]
      /\ wake' = [wake EXCEPT ![t] = 0]
      /\ current' = NoThread /\ todo' = barriers_list
      /\ UNCHANGED <<doomed, now, barriers_list, open, closing>>
  BY <1>1 DEF WaitSleeps, BitSet, Block
<1>3. \A c \in Barrier : t \notin thread_ids[c]
  BY <1>1 DEF BarrierInv, BitsOfWaiters
<1> HIDE DEF b
<1>4. BarriersTypeOK'
  BY <1>1, <1>2 DEF BarrierInv, BarriersTypeOK, ThreadsTypeOK, Status, WaitFlag
<1>5. RunnerKnown' /\ CheckedRuns'
  BY <1>1, <1>2, NoThreadAssumption
     DEF BarrierInv, BarriersTypeOK, ThreadsTypeOK, RunnerKnown, CheckedRuns
<1>6. GoneEmpty' /\ BitsOfWaiters'
  BY <1>1, <1>2, <1>3
     DEF BarrierInv, BarriersTypeOK, ThreadsTypeOK, GoneEmpty, BitsOfWaiters
<1>7. WaitersListed'
  BY <1>1, <1>2 DEF BarrierInv, BarriersTypeOK, ThreadsTypeOK, WaitersListed
<1> QED
  BY <1>4, <1>5, <1>6, <1>7 DEF BarrierInv

(* The threads of the barriers of O are woken, their bitmaps and that of   *)
(* barriers nobody waits for are emptied.                                  *)
LEMMA WakeKept ==
    ASSUME BarrierInv, NEW O \in SUBSET Barrier, NEW P \in SUBSET Barrier,
           O \subseteq P, \A b \in P \ O : thread_ids[b] = {},
           Wake("BARRIER", UNION {thread_ids[b] : b \in O}),
           thread_ids' = [b \in Barrier |-> IF b \in P THEN {} ELSE thread_ids[b]],
           barriers_list' \subseteq barriers_list, barriers_list \ P \subseteq barriers_list',
           \A t \in Thread : checked[t] # NoBarrier => checked[t] \in barriers_list',
           open' \subseteq Barrier, todo' \subseteq Barrier, closing' \in Barrier \cup {NoBarrier},
           checked' = checked
    PROVE  BarrierInv'
<1> DEFINE W == UNION {thread_ids[b] : b \in O}
<1>1. \A t \in Thread : t \in W <=> \E b \in O : t \in thread_ids[b]
  OBVIOUS
<1>2. \A t \in Thread : t \in W => status[t] = "WAITING" /\ "BARRIER" \in waits[t]
  BY <1>1 DEF BarrierInv, BitsOfWaiters
<1>3. /\ status' = [t \in Thread |-> IF t \in W THEN "READY" ELSE status[t]]
      /\ waits' = [t \in Thread |-> IF t \in W THEN {} ELSE waits[t]]
      /\ wake' = [t \in Thread |-> IF t \in W THEN 0 ELSE wake[t]]
      /\ UNCHANGED <<current, doomed, now>>
  BY <1>2 DEF Wake, Resumable
<1> HIDE DEF W
<1>4. BarriersTypeOK'
  BY <1>3 DEF BarrierInv, BarriersTypeOK, ThreadsTypeOK, Status, WaitFlag
<1>5. RunnerKnown' /\ CheckedRuns'
  BY <1>2, <1>3 DEF BarrierInv, BarriersTypeOK, ThreadsTypeOK, RunnerKnown, CheckedRuns
<1>6. GoneEmpty'
  BY DEF BarrierInv, GoneEmpty
<1>7. BitsOfWaiters'
  <2> SUFFICES ASSUME NEW b \in Barrier, NEW t \in thread_ids'[b]
               PROVE  /\ status'[t] = "WAITING" /\ "BARRIER" \in waits'[t]
                      /\ \A c \in Barrier \ {b} : t \notin thread_ids'[c]
    BY DEF BitsOfWaiters
  <2>1. b \notin P /\ t \in thread_ids[b] /\ t \in Thread
    BY DEF BarrierInv, BarriersTypeOK
  <2>2. t \notin W
    BY <1>1, <2>1 DEF BarrierInv, BitsOfWaiters
  <2> QED
    BY <1>3, <2>1, <2>2 DEF BarrierInv, BitsOfWaiters
<1>8. WaitersListed'
  <2> SUFFICES ASSUME NEW t \in Thread, status'[t] = "WAITING", t \notin doomed'
               PROVE  \E b \in barriers_list' : t \in thread_ids'[b]
    BY DEF WaitersListed
  <2>1. t \notin W /\ status[t] = "WAITING" /\ t \notin doomed
    BY <1>3
  <2>2. PICK b \in barriers_list : t \in thread_ids[b]
    BY <2>1 DEF BarrierInv, WaitersListed
  <2>3. b \in Barrier /\ b \notin P
    BY <1>1, <2>1, <2>2 DEF BarrierInv, BarriersTypeOK
  <2> QED
    BY <2>2, <2>3
<1> QED
  BY <1>4, <1>5, <1>6, <1>7, <1>8 DEF BarrierInv

LEMMA ResumeKept ==
    ASSUME BarrierInv, NEW b \in Barrier, ResumeWaiters(b)
    PROVE  BarrierInv'
<1>1. /\ todo' \subseteq Barrier /\ UNCHANGED <<barriers_list, open, checked>>
      /\ open' \subseteq Barrier
  BY DEF ResumeWaiters, StillToVisit, BarrierInv, BarriersTypeOK
<1>2. CASE b \in open
  <2>1. thread_ids[b] = UNION {thread_ids[c] : c \in {b}}
    OBVIOUS
  <2>2. /\ Wake("BARRIER", UNION {thread_ids[c] : c \in {b}})
        /\ closing' \in Barrier \cup {NoBarrier}
        /\ thread_ids' = [c \in Barrier |-> IF c \in {b} THEN {} ELSE thread_ids[c]]
    BY <1>2, <2>1 DEF ResumeWaiters, BarrierInv, BarriersTypeOK
  <2>3. \A t \in Thread : checked[t] # NoBarrier => checked[t] \in barriers_list
    BY DEF BarrierInv, CheckedRuns
  <2> DEFINE O == {b}
  <2>4. O \in SUBSET Barrier
    OBVIOUS
  <2> QED
    BY <1>1, <2>2, <2>3, <2>4, WakeKept
<1>3. CASE b \notin open
  BY <1>1, <1>3, FlagsKept DEF ResumeWaiters, BarrierInv, BarriersTypeOK
<1> QED
  BY <1>2, <1>3

LEMMA DoneKept ==
    ASSUME BarrierInv, NEW b \in Barrier, thread_ids[b] = {},
           \A t \in Thread : checked[t] = NoBarrier, barrier_done(b)
    PROVE  BarrierInv'
<1> DEFINE O == barriers_list \cap open
           P == O \cup {b}
<1>1. O \in SUBSET Barrier /\ P \in SUBSET Barrier /\ O \subseteq P
      /\ \A c \in P \ O : thread_ids[c] = {}
  BY DEF BarrierInv, BarriersTypeOK
<1>2. /\ Wake("BARRIER", UNION {thread_ids[c] : c \in O})
      /\ thread_ids' = [c \in Barrier |-> IF c \in P THEN {} ELSE thread_ids[c]]
      /\ barriers_list' = barriers_list \ {b} /\ checked' = checked
  BY DEF barrier_done
<1>3. open' \subseteq Barrier /\ todo' \subseteq Barrier /\ closing' \in Barrier \cup {NoBarrier}
  BY DEF barrier_done, BarrierInv, BarriersTypeOK
<1>4. barriers_list' \subseteq barriers_list /\ barriers_list \ P \subseteq barriers_list'
  BY <1>2
<1> HIDE DEF O, P
<1> QED
  BY <1>1, <1>2, <1>3, <1>4, WakeKept

(* A killed thread loses its bit; it keeps no other.                       *)
LEMMA KillKept ==
    ASSUME BarrierInv, NEW t \in Thread, KillWaiter(t)
    PROVE  BarrierInv'
<1>1. /\ t # current /\ status[t] \in {"READY", "WAITING"}
      /\ doomed' = doomed \cup {t} /\ current' = current
      /\ \A u \in Thread : status'[u] = status[u] \/ (u = t /\ status'[u] = "DEAD"
                                                         /\ waits[t] = {"MUTEX"})
      /\ waits' = [waits EXCEPT ![t] = IF status[t] = "WAITING" THEN {} ELSE @]
      /\ UNCHANGED <<wake, now, barriers_list, open, checked, todo, closing>>
      /\ status' \in [Thread -> Status]
  BY DEF KillWaiter, Kill, BarrierInv, BarriersTypeOK, ThreadsTypeOK, Status
<1>2. /\ thread_ids' \in [Barrier -> SUBSET Thread]
      /\ \A b \in Barrier : thread_ids'[b] \subseteq thread_ids[b]
      /\ \A b \in Barrier, u \in Thread \ {t} : u \in thread_ids[b] => u \in thread_ids'[b]
  BY DEF KillWaiter, cancel_wait_for_barrier, BarrierInv, BarriersTypeOK
<1>3. \A b \in Barrier : t \notin thread_ids'[b]
  <2>1. CASE status[t] = "WAITING" /\ waits[t] = {"BARRIER"}
    <3>1. PICK b \in barriers_list :
            t \in thread_ids[b] /\ thread_ids' = [thread_ids EXCEPT ![b] = @ \ {t}]
      BY <2>1 DEF KillWaiter, cancel_wait_for_barrier
    <3> QED
      BY <3>1 DEF BarrierInv, BarriersTypeOK, BitsOfWaiters
  <2>2. CASE ~(status[t] = "WAITING" /\ waits[t] = {"BARRIER"})
    BY <1>2, <2>2 DEF BarrierInv, BitsOfWaiters, RunnerKnown
  <2> QED
    BY <2>1, <2>2
<1>4. BarriersTypeOK'
  BY <1>1, <1>2 DEF BarrierInv, BarriersTypeOK, ThreadsTypeOK, WaitFlag
<1>5. RunnerKnown' /\ CheckedRuns'
  BY <1>1 DEF BarrierInv, BarriersTypeOK, ThreadsTypeOK, RunnerKnown, CheckedRuns
<1>6. GoneEmpty'
  BY <1>1, <1>2 DEF BarrierInv, GoneEmpty
<1>7. BitsOfWaiters'
  BY <1>1, <1>2, <1>3 DEF BarrierInv, BarriersTypeOK, ThreadsTypeOK, BitsOfWaiters
<1>8. WaitersListed'
  BY <1>1, <1>2 DEF BarrierInv, BarriersTypeOK, ThreadsTypeOK, WaitersListed
<1> QED
  BY <1>4, <1>5, <1>6, <1>7, <1>8 DEF BarrierInv

(* The scheduler takes the processor from a thread, gives it to another,   *)
(* closes a barrier whose threads it has resumed, or buries a thread.      *)
LEMMA ScheduleKept ==
    ASSUME BarrierInv, NEW t \in Thread,
           \/ current \in Thread /\ checked[current] = NoBarrier /\ (Suspends \/ Terminates)
           \/ Runs(t) \/ IdleSuspends \/ CloseResumed \/ Dies(t)
    PROVE  BarrierInv'
<1> USE NoThreadAssumption
<1>1. ASSUME current \in Thread, checked[current] = NoBarrier, Suspends \/ Terminates
      PROVE  BarrierInv'
  <2>1. /\ current' = NoThread /\ todo' = barriers_list
        /\ status'[current] \in {"READY", "DEAD"} /\ status' \in [Thread -> Status]
        /\ \A u \in Thread \ {current} : status'[u] = status[u]
        /\ UNCHANGED <<waits, wake, doomed, now, barriers_list, open, thread_ids, checked, closing>>
    BY <1>1 DEF Suspends, Terminates, Yield, Exit, BarrierInv, BarriersTypeOK, ThreadsTypeOK, Status
  <2>2. BarriersTypeOK'
    BY <2>1 DEF BarrierInv, BarriersTypeOK, ThreadsTypeOK
  <2>3. RunnerKnown' /\ CheckedRuns'
    BY <1>1, <2>1 DEF BarrierInv, BarriersTypeOK, ThreadsTypeOK, RunnerKnown, CheckedRuns
  <2>4. GoneEmpty' /\ BitsOfWaiters' /\ WaitersListed'
    BY <1>1, <2>1 DEF BarrierInv, BarriersTypeOK, ThreadsTypeOK, RunnerKnown, GoneEmpty,
                      BitsOfWaiters, WaitersListed
  <2> QED
    BY <2>2, <2>3, <2>4 DEF BarrierInv
<1>2. CASE Runs(t)
  <2>1. /\ current = NoThread /\ current' = t /\ status[t] = "READY" /\ t \notin doomed
        /\ status' = [status EXCEPT ![t] = "RUNNING"]
        /\ UNCHANGED <<waits, wake, doomed, now, barrierVars>>
    BY <1>2 DEF Runs, Dispatch
  <2>2. BarriersTypeOK'
    BY <2>1 DEF BarrierInv, BarriersTypeOK, ThreadsTypeOK, Status, barrierVars
  <2>3. RunnerKnown' /\ CheckedRuns'
    BY <2>1 DEF BarrierInv, BarriersTypeOK, ThreadsTypeOK, RunnerKnown, CheckedRuns, barrierVars
  <2>4. GoneEmpty' /\ BitsOfWaiters' /\ WaitersListed'
    BY <2>1 DEF BarrierInv, BarriersTypeOK, ThreadsTypeOK, RunnerKnown, GoneEmpty,
                BitsOfWaiters, WaitersListed, barrierVars
  <2> QED
    BY <2>2, <2>3, <2>4 DEF BarrierInv
<1>3. CASE IdleSuspends \/ CloseResumed
  BY <1>3, FlagsKept DEF IdleSuspends, CloseResumed, BarrierInv, BarriersTypeOK
<1>4. CASE Dies(t)
  <2>1. /\ current' = current /\ status[t] # "RUNNING"
        /\ status'[t] \in {"DEAD", "NONE"} /\ status' \in [Thread -> Status]
        /\ \A u \in Thread \ {t} : /\ status'[u] = status[u] /\ waits'[u] = waits[u]
                                   /\ u \in doomed' <=> u \in doomed
        /\ status[t] = "WAITING" => t \in doomed
        /\ UNCHANGED <<now, barrierVars>>
    BY <1>4 DEF Dies, Bury, Reap, BarrierInv, BarriersTypeOK, ThreadsTypeOK, Status
  <2>2. BarriersTypeOK'
    BY <1>4, <2>1 DEF Dies, Bury, Reap, BarrierInv, BarriersTypeOK, ThreadsTypeOK, barrierVars
  <2>3. RunnerKnown' /\ CheckedRuns'
    BY <1>4, <2>1 DEF Dies, Bury, Reap, BarrierInv, BarriersTypeOK, ThreadsTypeOK, RunnerKnown,
                      CheckedRuns, barrierVars
  <2>4. \A b \in Barrier : t \notin thread_ids[b]
    BY <2>1 DEF BarrierInv, BitsOfWaiters, RunnerKnown
  <2>5. GoneEmpty' /\ BitsOfWaiters' /\ WaitersListed'
    BY <2>1, <2>4 DEF BarrierInv, BarriersTypeOK, ThreadsTypeOK, GoneEmpty, BitsOfWaiters,
                      WaitersListed, barrierVars
  <2> QED
    BY <2>2, <2>3, <2>5 DEF BarrierInv
<1> QED
  BY <1>1, <1>2, <1>3, <1>4

(* The first scenario.                                                     *)
LEMMA BarrierNextKept ==
    ASSUME Destroys # "any", BarrierInv, BarrierNext
    PROVE  BarrierInv'
<1>1. ASSUME NEW t \in Thread, Calls(t) PROVE BarrierInv'
  <2>1. current = t /\ checked[t] = NoBarrier /\ \A u \in Thread : checked[u] = NoBarrier
    BY <1>1 DEF Calls, InApp, BarrierInv, CheckedRuns
  <2>2. CASE Suspends \/ Terminates
    BY <2>1, <2>2, ScheduleKept
  <2>3. ASSUME NEW b \in Barrier, Destroys = "unused", thread_ids[b] = {}, barrier_done(b)
        PROVE  BarrierInv'
    BY <2>1, <2>3, DoneKept
  <2> QED
    BY <1>1, <2>2, <2>3, KillKept, CreateKept, OpenCloseKept, WaitKept DEF Calls
<1>2. CASE SchedulerPass
  <2>1. CASE CloseResumed \/ IdleSuspends
    BY <2>1, FlagsKept DEF CloseResumed, IdleSuspends, BarrierInv, BarriersTypeOK
  <2> QED
    BY <1>2, <2>1, ResumeKept DEF SchedulerPass
<1>3. CASE Interrupts
  BY <1>3, OpenCloseKept, InstanceAssumption DEF Interrupts
<1> QED
  BY <1>1, <1>2, <1>3, SleepKept, ScheduleKept DEF BarrierNext

(***************************************************************************)
(* The timers: the inductive invariant.                                    *)
(***************************************************************************)

(* The next clock interrupts will look whether the time of x has come.     *)
Armed(x) == "TRIGGERED" \in tflags[x] /\ "EXPIRED" \notin tflags[x]

(* What the flags of a timer say about the callback that was promised:     *)
(* the clock interrupt will flag the timer at that time, or it has flagged *)
(* it and the scan will promise the next one, or none is promised.         *)
Promised(x) ==
    /\ Armed(x) => due[x] = expiration[x] /\ now < expiration[x]
    /\ "EXPIRED" \in tflags[x] =>
          \/ Stops /\ "TRIGGERED" \notin tflags[x] /\ due[x] = Never
          \/ due[x] <= now /\ ("TRIGGERED" \in tflags[x] <=> "RECURSIVE" \in tflags[x])
    /\ "TRIGGERED" \notin tflags[x] /\ "EXPIRED" \notin tflags[x] => due[x] = Never

(* Timers is going to scan the list without sleeping first.                *)
WillScan ==
    tpc = "scan" /\ status[TimersThread] # "WAITING" /\ checked[TimersThread] = NoBarrier

(* The barrier of Timers exists from its first step on.  A pass is over    *)
(* when a thread runs, and a pass that is about to close the barrier has   *)
(* woken Timers.                                                           *)
TimersLoop ==
    /\ doomed = {} /\ todo \subseteq barriers_list
    /\ IF tpc = "start" THEN barriers_list = {} /\ timers_list = {} ELSE barriers_list = {Bar}
    /\ current # NoThread => todo = {} /\ closing = NoBarrier
    /\ \A t \in Thread \ {TimersThread} : checked[t] = NoBarrier
    /\ tpc = "wait" => current = TimersThread /\ checked[TimersThread] = NoBarrier
    /\ closing # NoBarrier => WillScan

(* A timer whose time has come will be seen by Timers.                     *)
DueSeen == \A x \in timers_list : due[x] <= now => Bar \in open \/ WillScan

TimersTyped ==
    /\ timers_list \subseteq Timer
    /\ tflags \in [Timer -> SUBSET TimerFlag]
    /\ expiration \in [Timer -> Nat]
    /\ msecs \in [Timer -> Period]
    /\ tpc \in {"start", "wait", "scan"}
    /\ due \in [Timer -> Nat]

TimerInv ==
    /\ TimersTyped /\ now <= MaxTime /\ scenario \in {"barriers", "timers"}
    /\ scenario = "barriers" => timers_list = {}
    /\ scenario = "timers" => TimersLoop /\ DueSeen /\ \A x \in timers_list : Promised(x)

MCInv == BarrierInv /\ TimerInv

LEMMA InitMCInv == MCInit => MCInv
<1> SUFFICES ASSUME MCInit PROVE MCInv
  OBVIOUS
<1>1. TimersInit
  BY DEF MCInit
<1>2. TimersTyped /\ now <= MaxTime /\ timers_list = {}
  BY <1>1, BoundAssumption
     DEF TimersInit, BarriersInit, ThreadsInit, TimersTyped, TimerFlag, Never
<1>3. TimersLoop
  BY <1>1, TimersAssumption DEF TimersInit, BarriersInit, ThreadsInit, TimersLoop
<1> QED
  BY <1>1, <1>2, <1>3, InitBarrierInv DEF MCInit, MCInv, TimerInv, DueSeen

(* What the invariant says is what the run checks.                         *)
LEMMA InvGivesProperty == ASSUME MCInv PROVE WaitersKnown
<1>1. BarriersTypeOK /\ TimersTypeOK /\ BitsOfWaiters /\ WaitersListed
  BY DEF MCInv, BarrierInv, TimerInv, TimersTyped, TimersTypeOK
<1>2. DueAwake
  <2>1. CASE scenario = "barriers"
    BY <2>1 DEF DueAwake, MCInv, TimerInv
  <2>2. CASE scenario = "timers"
    <3> SUFFICES ASSUME NEW x \in timers_list, due[x] <= now
                 PROVE  /\ "EXPIRED" \in tflags[x]
                        /\ (status[TimersThread] = "WAITING" \/ checked[TimersThread] # NoBarrier)
                              => Bar \in open
      BY DEF DueAwake
    <3>1. Promised(x) /\ DueSeen /\ now <= MaxTime /\ x \in Timer
      BY <2>2 DEF MCInv, TimerInv, TimersTyped
    <3>2. now \in Nat /\ expiration[x] \in Nat /\ due[x] \in Nat /\ MaxTime \in Nat
      BY <3>1, BoundAssumption
         DEF MCInv, BarrierInv, BarriersTypeOK, ThreadsTypeOK, TimerInv, TimersTyped
    <3>3. ~Armed(x) /\ due[x] # Never
      BY <3>1, <3>2 DEF Promised, Never
    <3> QED
      BY <3>1, <3>3 DEF Promised, Armed, DueSeen, WillScan
  <2> QED
    BY <2>1, <2>2 DEF MCInv, TimerInv
<1> QED
  BY <1>1, <1>2 DEF WaitersKnown

(***************************************************************************)
(* The second scenario.                                                    *)
(***************************************************************************)

(* The barriers see calls that BarrierInv already knows, and a clock.      *)
LEMMA TimersKeepBarriers ==
    ASSUME MCInv, scenario = "timers", Next
    PROVE  BarrierInv'
<1> USE DEF MCInv
<1>0. Bar \in Barrier /\ TimersThread \in Thread
  BY TimersAssumption, BarrierAssumption
<1>1. CASE timer_cb
  <2>1. open' \subseteq Barrier /\ now' \in Nat
    BY <1>0, <1>1, BoundAssumption DEF timer_cb, OpenForExpired, Tick, BarrierInv, BarriersTypeOK,
        ThreadsTypeOK
  <2> QED
    BY <1>1, <2>1 DEF timer_cb, Tick, BarrierInv, BarriersTypeOK, ThreadsTypeOK, RunnerKnown,
                      CheckedRuns, GoneEmpty, BitsOfWaiters, WaitersListed
<1>2. CASE Handlers
  <2>1. UNCHANGED <<threadsVars, barrierVars>>
    BY <1>2 DEF Handlers, TimerCalls, timer_set, timer_done, timer_create, timer_update
  <2> QED
    BY <2>1, FlagsKept DEF barrierVars, BarrierInv, BarriersTypeOK
<1>3. CASE OtherSuspends
  <2>1. current \in Thread /\ current # TimersThread
    BY <1>3 DEF OtherSuspends, Suspends, Yield, BarrierInv, BarriersTypeOK, ThreadsTypeOK
  <2>2. CASE checked[current] = NoBarrier
    BY <1>3, <2>1, <2>2, ScheduleKept DEF OtherSuspends
  <2>3. CASE checked[current] # NoBarrier
    BY <2>1, <2>3 DEF TimerInv, TimersLoop
  <2> QED
    BY <2>2, <2>3
<1>4. CASE Schedules
  <2>1. CASE CloseResumed
    BY <1>0, <2>1, ScheduleKept
  <2> QED
    BY <1>0, <1>4, <2>1, ResumeKept, ScheduleKept DEF Schedules
<1>5. CASE EntryCreates
  BY <1>0, <1>5, CreateKept DEF EntryCreates
<1>6. CASE EntryWaits
  BY <1>0, <1>6, WaitKept DEF EntryWaits
<1>7. CASE EntrySleeps
  BY <1>0, <1>7, SleepKept DEF EntrySleeps
<1>8. CASE EntryScans
  BY <1>8, FlagsKept DEF EntryScans, barrierVars, BarrierInv, BarriersTypeOK
<1> QED
  BY <1>1, <1>2, <1>3, <1>4, <1>5, <1>6, <1>7, <1>8 DEF Next

(* The clock interrupt flags the timers whose time has come and opens the  *)
(* barrier.                                                                *)
LEMMA ClockKept ==
    ASSUME MCInv, scenario = "timers", scenario' = scenario, timer_cb
    PROVE  TimerInv'
<1> DEFINE X == Reached(now')
<1>0. /\ now \in Nat /\ now' \in Nat /\ now < now' /\ now' <= MaxTime /\ MaxTime \in Nat
      /\ Never = MaxTime + 1
  BY BoundAssumption DEF timer_cb, Tick, MCInv, BarrierInv, BarriersTypeOK, ThreadsTypeOK, Never
<1>1. /\ UNCHANGED <<current, status, doomed, barriers_list, checked, todo, closing,
                     timers_list, expiration, msecs, tpc, due>>
      /\ open' = OpenForExpired(X)
      /\ \A x \in Timer : tflags'[x] =
            IF x \notin X THEN tflags[x]
            ELSE (tflags[x] \cup {"EXPIRED"}) \
                     (IF "RECURSIVE" \in tflags[x] THEN {} ELSE {"TRIGGERED"})
  BY DEF timer_cb, Tick
<1>2. TimersTyped'
  BY <1>1 DEF timer_cb, MCInv, TimerInv, TimersTyped, TimerFlag
<1>3. TimersLoop'
  BY <1>1 DEF MCInv, TimerInv, TimersLoop, WillScan
<1>4. \A x \in timers_list : /\ x \in X <=> Armed(x) /\ now' >= expiration[x]
                             /\ x \in Timer /\ Promised(x)
                             /\ expiration[x] \in Nat /\ due[x] \in Nat
  BY DEF Reached, Armed, MCInv, TimerInv, TimersTyped
<1>5. X \subseteq timers_list
  BY DEF Reached
<1> HIDE DEF X
<1>6. \A x \in timers_list : Promised(x)'
  <2> SUFFICES ASSUME NEW x \in timers_list PROVE Promised(x)'
    OBVIOUS
  <2>1. CASE x \in X
    <3>1. /\ "EXPIRED" \in tflags'[x]
          /\ "TRIGGERED" \in tflags'[x] <=> "RECURSIVE" \in tflags'[x]
          /\ due'[x] <= now'
      <4>1. "TRIGGERED" \in tflags[x] /\ due[x] = expiration[x] /\ now' >= expiration[x]
        BY <1>4, <2>1 DEF Promised, Armed
      <4>2. tflags'[x] = (tflags[x] \cup {"EXPIRED"}) \
                            (IF "RECURSIVE" \in tflags[x] THEN {} ELSE {"TRIGGERED"})
        BY <1>1, <1>4, <2>1
      <4>3. due'[x] <= now'
        BY <1>0, <1>1, <1>4, <4>1
      <4> QED
        BY <4>1, <4>2, <4>3
    <3> QED
      BY <3>1 DEF Promised, Armed
  <2>2. CASE x \notin X
    <3>1. tflags'[x] = tflags[x] /\ due'[x] = due[x] /\ expiration'[x] = expiration[x]
      BY <1>1, <1>4, <2>2
    <3>2. due[x] <= now => due[x] <= now'
      BY <1>0, <1>4
    <3>3. Armed(x) => now' < expiration[x]
      BY <1>0, <1>4, <2>2
    <3> QED
      BY <1>4, <3>1, <3>2, <3>3 DEF Promised, Armed, Never
  <2> QED
    BY <2>1, <2>2
<1>7. DueSeen'
  <2> SUFFICES ASSUME NEW x \in timers_list, due[x] <= now', ~WillScan PROVE Bar \in open'
    BY <1>1 DEF DueSeen, WillScan
  <2>1. CASE X = {}
    <3>1. due[x] # Never /\ ~Armed(x)
      BY <1>0, <1>4, <2>1 DEF Promised
    <3>2. due[x] <= now
      BY <1>4, <3>1 DEF Promised, Armed
    <3> QED
      BY <1>1, <2>1, <3>2 DEF MCInv, TimerInv, DueSeen, OpenForExpired
  <2>2. CASE X # {}
    BY <1>1, <1>5, <2>2 DEF MCInv, TimerInv, TimersLoop, OpenForExpired
  <2> QED
    BY <2>1, <2>2
<1> QED
  BY <1>0, <1>1, <1>2, <1>3, <1>6, <1>7 DEF MCInv, TimerInv

(* The calls of users, at any time after Timers has made its barrier.      *)
LEMMA HandlersKept ==
    ASSUME ~Toggles, MCInv, scenario = "timers", scenario' = scenario, Handlers
    PROVE  TimerInv'
<1>1. UNCHANGED <<threadsVars, barrierVars, tpc>> /\ tpc # "start"
  BY DEF Handlers, TimerCalls, timer_set, timer_done, timer_create, timer_update
<1>2. PICK x \in Timer :
        \/ timer_set(x, TRUE)
        \/ Stops /\ timer_set(x, FALSE)
        \/ timer_done(x)
        \/ \E m \in Period, r \in BOOLEAN : timer_create(x, m, r)
        \/ \E m \in Period : timer_update(x, m, "RECURSIVE" \in tflags[x])
  BY DEF Handlers, TimerCalls
<1>3. now \in Nat /\ MaxTime \in Nat /\ now <= MaxTime /\ Never \in Nat /\ now < Never
  BY BoundAssumption DEF MCInv, BarrierInv, BarriersTypeOK, ThreadsTypeOK, TimerInv, Never
<1>4. /\ timers_list \subseteq Timer /\ tflags \in [Timer -> SUBSET TimerFlag]
      /\ expiration \in [Timer -> Nat] /\ msecs \in [Timer -> Period] /\ due \in [Timer -> Nat]
      /\ msecs[x] \in Nat /\ msecs[x] > 0
  <2>1. /\ timers_list \subseteq Timer /\ tflags \in [Timer -> SUBSET TimerFlag]
        /\ expiration \in [Timer -> Nat] /\ msecs \in [Timer -> Period] /\ due \in [Timer -> Nat]
    BY DEF MCInv, TimerInv, TimersTyped
  <2>2. msecs[x] \in Nat \ {0}
    BY <2>1, TimersAssumption
  <2> QED
    BY <2>1, <2>2
<1>5. TimersTyped' /\ \A y \in Timer \ {x} :
          /\ y \in timers_list' <=> y \in timers_list
          /\ tflags'[y] = tflags[y] /\ expiration'[y] = expiration[y] /\ due'[y] = due[y]
  <2>1. CASE timer_set(x, TRUE) \/ timer_set(x, FALSE)
    BY <1>1, <1>3, <1>4, <2>1
       DEF timer_set, StartFlags, ExpiryFrom, MCInv, TimerInv, TimersTyped, TimerFlag
  <2>2. CASE timer_done(x)
    BY <1>1, <1>3, <1>4, <2>2 DEF timer_done, MCInv, TimerInv, TimersTyped
  <2>3. ASSUME NEW m \in Period, NEW r \in BOOLEAN, timer_create(x, m, r)
        PROVE  <1>5!1 /\ <1>5!2
    BY <1>1, <1>3, <1>4, <2>3 DEF timer_create, MCInv, TimerInv, TimersTyped, TimerFlag
  <2>4. ASSUME NEW m \in Period, timer_update(x, m, "RECURSIVE" \in tflags[x])
        PROVE  <1>5!1 /\ <1>5!2
    BY <1>1, <1>3, <1>4, <2>4 DEF timer_update, MCInv, TimerInv, TimersTyped, TimerFlag
  <2> QED
    BY <1>2, <2>1, <2>2, <2>3, <2>4
<1>6. x \in timers_list' => Promised(x)' /\ (due'[x] <= now => x \in timers_list /\ due[x] <= now)
  <2>0. x \in timers_list => Promised(x)
    BY DEF MCInv, TimerInv
  <2>1. CASE timer_set(x, TRUE)
    BY <1>1, <1>3, <1>4, <2>1
       DEF timer_set, StartFlags, ExpiryFrom, Promised, Armed, threadsVars
  <2>2. CASE Stops /\ timer_set(x, FALSE)
    BY <1>1, <1>3, <1>4, <2>2 DEF timer_set, Promised, Armed, threadsVars, Never
  <2>3. CASE timer_done(x)
    BY <2>3 DEF timer_done
  <2>4. ASSUME NEW m \in Period, NEW r \in BOOLEAN, timer_create(x, m, r)
        PROVE  Promised(x)' /\ ~(due'[x] <= now)
    BY <1>1, <1>3, <1>4, <2>4 DEF timer_create, Promised, Armed, threadsVars, Never
  <2>5. ASSUME NEW m \in Period, timer_update(x, m, "RECURSIVE" \in tflags[x])
        PROVE  Promised(x)' /\ x \in timers_list /\ due'[x] = due[x]
    <3>1. /\ x \in timers_list /\ UNCHANGED <<expiration, due, now>>
          /\ \A f \in TimerFlag : f \in tflags'[x] <=> f \in tflags[x]
      BY <1>1, <1>4, <2>5 DEF timer_update, TimerFlag, threadsVars
    <3> QED
      BY <2>0, <3>1 DEF Promised, Armed, TimerFlag, Never
  <2> QED
    BY <1>2, <2>1, <2>2, <2>3, <2>4, <2>5
<1>7. \A y \in timers_list' : Promised(y)'
  <2> SUFFICES ASSUME NEW y \in timers_list', y # x PROVE Promised(y)'
    BY <1>6
  <2>1. y \in timers_list /\ y \in Timer /\ Promised(y)
    BY <1>5 DEF TimersTyped, MCInv, TimerInv
  <2>2. tflags'[y] = tflags[y] /\ expiration'[y] = expiration[y] /\ due'[y] = due[y] /\ now' = now
    BY <1>1, <1>5, <2>1 DEF threadsVars
  <2> QED
    BY <2>1, <2>2 DEF Promised, Armed, Never
<1>8. DueSeen'
  <2> SUFFICES ASSUME NEW y \in timers_list', due'[y] <= now
               PROVE  Bar \in open \/ WillScan
    BY <1>1 DEF DueSeen, WillScan, threadsVars, barrierVars
  <2>1. y \in timers_list /\ due[y] <= now
    BY <1>5, <1>6 DEF TimersTyped
  <2> QED
    BY <2>1 DEF MCInv, TimerInv, DueSeen
<1>9. TimersLoop'
  BY <1>1 DEF MCInv, TimerInv, TimersLoop, WillScan, threadsVars, barrierVars
<1> QED
  BY <1>1, <1>5, <1>7, <1>8, <1>9 DEF MCInv, TimerInv, threadsVars

(* A thread other than Timers gives the processor up, and the scheduler    *)
(* makes its pass and chooses.                                             *)
LEMMA PassKept ==
    ASSUME MCInv, scenario = "timers", scenario' = scenario, OtherSuspends \/ Schedules
    PROVE  TimerInv'
<1>1. UNCHANGED timerVars /\ now' = now /\ doomed' = doomed /\ barriers_list' = barriers_list
  BY DEF OtherSuspends, Suspends, Yield, Schedules, ResumeWaiters, Wake, CloseResumed, Runs,
         Dispatch, threadsVars, barrierVars
<1>2. TimersTyped' /\ \A x \in timers_list : Promised(x)'
  BY <1>1 DEF timerVars, MCInv, TimerInv, TimersTyped, Promised, Armed
<1>3. TimersLoop /\ DueSeen /\ BarrierInv /\ TimersThread \in Thread /\ Bar \in Barrier
  BY TimersAssumption, BarrierAssumption DEF MCInv, TimerInv
<1>4. TimersLoop' /\ DueSeen'
  <2>1. CASE OtherSuspends
    <3>1. /\ current # TimersThread /\ current' = NoThread /\ current \in Thread
          /\ status'[TimersThread] = status[TimersThread]
          /\ todo' = barriers_list /\ UNCHANGED <<open, checked, closing>>
      BY <1>3, <2>1 DEF OtherSuspends, Suspends, Yield, BarrierInv, BarriersTypeOK, ThreadsTypeOK
    <3>2. TimersLoop'
      BY <1>1, <1>3, <3>1, NoThreadAssumption DEF TimersLoop, WillScan, timerVars
    <3>3. DueSeen'
      BY <1>1, <1>3, <3>1 DEF DueSeen, WillScan, timerVars
    <3> QED
      BY <3>2, <3>3
  <2>2. CASE ResumeWaiters(Bar)
    <3>1. current = NoThread /\ tpc = "scan" /\ checked[TimersThread] = NoBarrier
      <4>1. Bar \in todo
        BY <2>2 DEF ResumeWaiters
      <4>2. current = NoThread /\ tpc # "start"
        BY <1>3, <4>1 DEF TimersLoop
      <4>3. tpc # "wait"
        BY <1>3, <4>2, NoThreadAssumption DEF TimersLoop
      <4> QED
        BY <1>3, <4>2, <4>3, NoThreadAssumption
           DEF MCInv, TimerInv, TimersTyped, BarrierInv, CheckedRuns
    <3>2. todo' \subseteq todo /\ UNCHANGED <<current, open, checked>>
      BY <2>2 DEF ResumeWaiters, StillToVisit, Wake, threadsVars
    <3>3. status[TimersThread] # "WAITING" => status'[TimersThread] # "WAITING"
      BY <1>3, <2>2 DEF ResumeWaiters, Wake, threadsVars
    <3>4. CASE Bar \in open
      <4>1. status'[TimersThread] # "WAITING"
        <5> SUFFICES ASSUME status[TimersThread] = "WAITING"
                     PROVE  status'[TimersThread] = "READY"
          BY <3>3
        <5>1. TimersThread \in thread_ids[Bar]
          BY <1>3, <3>1 DEF BarrierInv, WaitersListed, TimersLoop
        <5>2. "BARRIER" \in waits[TimersThread]
          BY <1>3, <5>1 DEF BarrierInv, BitsOfWaiters
        <5> QED
          BY <1>3, <2>2, <3>4, <5>1, <5>2 DEF ResumeWaiters, Wake, Resumable
      <4>2. WillScan'
        BY <1>1, <3>1, <3>2, <4>1 DEF WillScan, timerVars
      <4> QED
        BY <1>1, <1>3, <3>1, <3>2, <4>2, NoThreadAssumption
           DEF TimersLoop, DueSeen, timerVars
    <3>5. CASE Bar \notin open
      <4>1. closing' = closing /\ status' = status
        BY <2>2, <3>5 DEF ResumeWaiters, threadsVars
      <4> QED
        BY <1>1, <1>3, <3>1, <3>2, <4>1, NoThreadAssumption
           DEF TimersLoop, DueSeen, WillScan, timerVars
    <3> QED
      BY <3>4, <3>5
  <2>3. CASE CloseResumed
    <3>1. WillScan /\ closing' = NoBarrier /\ UNCHANGED <<current, status, todo, checked>>
      BY <1>3, <2>3 DEF CloseResumed, TimersLoop, threadsVars
    <3> QED
      BY <1>1, <1>3, <3>1 DEF TimersLoop, DueSeen, WillScan, timerVars
  <2>4. ASSUME NEW t \in Thread, tpc = "start" => t = TimersThread, Runs(t)
        PROVE  TimersLoop' /\ DueSeen'
    <3>1. /\ current = NoThread /\ current' = t /\ todo = {} /\ closing = NoBarrier
          /\ status' = [status EXCEPT ![t] = "RUNNING"] /\ status[t] = "READY"
          /\ UNCHANGED barrierVars
      BY <2>4 DEF Runs, PassOver, Dispatch
    <3>2. tpc # "wait"
      BY <1>3, <3>1, NoThreadAssumption DEF TimersLoop
    <3>3. WillScan => WillScan'
      BY <1>1, <1>3, <3>1 DEF WillScan, timerVars, barrierVars, BarrierInv, BarriersTypeOK,
                              ThreadsTypeOK
    <3> QED
      BY <1>1, <1>3, <3>1, <3>2, <3>3 DEF TimersLoop, DueSeen, timerVars, barrierVars
  <2> QED
    BY <2>1, <2>2, <2>3, <2>4 DEF Schedules
<1> QED
  BY <1>1, <1>2, <1>4 DEF MCInv, TimerInv, timerVars

(* The loop of Timers up to the scan: it sleeps only when no timer is due, *)
(* or when the barrier has been opened meanwhile.                          *)
LEMMA LoopKept ==
    ASSUME MCInv, scenario = "timers", scenario' = scenario,
           EntryCreates \/ EntryWaits \/ EntrySleeps
    PROVE  TimerInv'
<1>1. /\ UNCHANGED <<timers_list, tflags, expiration, msecs, due, now, doomed>>
      /\ tpc' \in {"start", "wait", "scan"} /\ current = TimersThread
  BY DEF EntryCreates, barrier_create, EntryWaits, WaitPasses, WaitChecks, EntrySleeps, WaitSleeps,
         Block, timerVars, threadsVars, MCInv, TimerInv, TimersTyped
<1>2. TimersTyped' /\ \A x \in timers_list : Promised(x)'
  BY <1>1 DEF MCInv, TimerInv, TimersTyped, Promised, Armed
<1>3. TimersLoop /\ DueSeen /\ BarrierInv /\ TimersThread \in Thread /\ Bar \in Barrier
  BY TimersAssumption, BarrierAssumption DEF MCInv, TimerInv
<1>4. todo = {} /\ closing = NoBarrier
  BY <1>1, <1>3, NoThreadAssumption DEF TimersLoop
<1>5. TimersLoop' /\ DueSeen'
  <2>1. CASE EntryCreates
    <3>1. checked[TimersThread] = NoBarrier
      BY <1>3, <2>1 DEF EntryCreates, BarrierInv, CheckedRuns, TimersLoop
    <3> QED
      BY <1>1, <1>3, <1>4, <2>1, <3>1
         DEF EntryCreates, barrier_create, TimersLoop, DueSeen, threadsVars
  <2>2. CASE EntryWaits
    <3>1. /\ tpc = "wait" /\ tpc' = "scan"
          /\ UNCHANGED <<threadsVars, barriers_list, todo, closing, open>>
          /\ \A t \in Thread \ {TimersThread} : checked'[t] = checked[t]
      BY <1>3, <2>2
         DEF EntryWaits, WaitPasses, WaitChecks, barrierVars, BarrierInv, BarriersTypeOK
    <3>2. TimersLoop'
      BY <1>1, <1>3, <1>4, <3>1 DEF TimersLoop, threadsVars
    <3>3. DueSeen'
      BY <1>1, <1>3, <3>1 DEF DueSeen, WillScan
    <3> QED
      BY <3>2, <3>3
  <2>3. CASE EntrySleeps
    <3>1. /\ checked[TimersThread] # NoBarrier /\ tpc' = tpc /\ current' = NoThread
          /\ todo' = barriers_list /\ UNCHANGED <<barriers_list, open, closing>>
          /\ checked' = [checked EXCEPT ![TimersThread] = NoBarrier]
      BY <2>3 DEF EntrySleeps, WaitSleeps, Block, timerVars
    <3>2. tpc # "wait" /\ ~WillScan
      BY <1>3, <3>1 DEF TimersLoop, WillScan
    <3>3. TimersLoop'
      BY <1>1, <1>3, <1>4, <3>1, <3>2 DEF TimersLoop, BarrierInv, BarriersTypeOK
    <3> QED
      BY <1>1, <1>3, <3>1, <3>2, <3>3 DEF DueSeen
  <2> QED
    BY <2>1, <2>2, <2>3
<1> QED
  BY <1>1, <1>2, <1>5 DEF MCInv, TimerInv

(* The scan calls back every timer whose time has come.                    *)
LEMMA ScanKept ==
    ASSUME MCInv, scenario = "timers", scenario' = scenario, EntryScans
    PROVE  TimerInv'
<1>1. /\ UNCHANGED <<threadsVars, barrierVars, timers_list, msecs>>
      /\ current = TimersThread /\ checked[TimersThread] = NoBarrier
      /\ tpc = "scan" /\ tpc' = "wait"
  BY DEF EntryScans, InApp
<1>2. /\ now \in Nat /\ now' = now /\ MaxTime \in Nat /\ now <= MaxTime /\ Never = MaxTime + 1
      /\ TimersThread \in Thread
  BY <1>1, BoundAssumption, TimersAssumption
     DEF MCInv, BarrierInv, BarriersTypeOK, ThreadsTypeOK, TimerInv, Never, threadsVars
<1>3. TimersLoop /\ TimersTyped
  BY DEF MCInv, TimerInv
<1>4. ASSUME NEW x \in Timer
      PROVE  msecs[x] \in Nat /\ msecs[x] > 0 /\ due[x] \in Nat
  <2>1. msecs[x] \in Nat \ {0}
    BY <1>3, TimersAssumption DEF TimersTyped
  <2> QED
    BY <1>3, <2>1 DEF TimersTyped
<1>5. \A x \in Timer :
        LET called == x \in timers_list /\ "EXPIRED" \in tflags[x]
            again  == called /\ "RECURSIVE" \in tflags[x]
        IN  /\ tflags'[x] = IF called THEN tflags[x] \ {"EXPIRED"} ELSE tflags[x]
            /\ expiration'[x] = IF again THEN msecs[x] + now ELSE expiration[x]
            /\ due'[x] = IF ~called \/ due[x] = Never THEN due[x]
                         ELSE IF again THEN msecs[x] + now ELSE Never
  BY <1>3 DEF EntryScans, Called, ClearsExpired, ExpiryFrom, TimersTyped
<1>6. TimersTyped'
  <2>1. tflags' \in [Timer -> SUBSET TimerFlag]
    BY <1>3 DEF EntryScans, ClearsExpired, TimersTyped, TimerFlag
  <2>2. expiration' \in [Timer -> Nat] /\ due' \in [Timer -> Nat]
    BY <1>2, <1>3, <1>4 DEF EntryScans, ExpiryFrom, TimersTyped
  <2> QED
    BY <1>1, <1>3, <2>1, <2>2 DEF TimersTyped
<1>7. ASSUME NEW x \in timers_list PROVE Promised(x)' /\ now < due'[x]
  <2>1. x \in Timer /\ Promised(x)
    BY <1>3 DEF TimersTyped, MCInv, TimerInv
  <2>2. msecs[x] \in Nat /\ msecs[x] > 0 /\ due[x] \in Nat
    BY <1>4, <2>1
  <2>3. CASE "EXPIRED" \notin tflags[x]
    <3>1. tflags'[x] = tflags[x] /\ expiration'[x] = expiration[x] /\ due'[x] = due[x]
      BY <1>5, <2>1, <2>3
    <3>2. now < due[x]
      BY <1>2, <2>1, <2>2, <2>3 DEF Promised, Armed
    <3> QED
      BY <1>2, <2>1, <2>3, <3>1, <3>2 DEF Promised, Armed, Never
  <2>4. CASE "EXPIRED" \in tflags[x] /\ due[x] = Never
    <3>1. /\ tflags'[x] = tflags[x] \ {"EXPIRED"} /\ due'[x] = Never
          /\ "TRIGGERED" \notin tflags[x]
      <4>1. ~(due[x] <= now)
        BY <1>2, <2>2, <2>4
      <4>2. tflags'[x] = tflags[x] \ {"EXPIRED"} /\ due'[x] = due[x]
        BY <1>5, <2>1, <2>4
      <4> QED
        BY <2>1, <2>4, <4>1, <4>2 DEF Promised
    <3> QED
      BY <1>2, <3>1 DEF Promised, Armed, Never
  <2>5. CASE "EXPIRED" \in tflags[x] /\ due[x] # Never
    <3>1. "TRIGGERED" \in tflags[x] <=> "RECURSIVE" \in tflags[x]
      BY <2>1, <2>5 DEF Promised
    <3>2. CASE "RECURSIVE" \in tflags[x]
      <4>1. due'[x] = msecs[x] + now /\ expiration'[x] = msecs[x] + now
            /\ tflags'[x] = tflags[x] \ {"EXPIRED"}
        BY <1>5, <2>1, <2>5, <3>2
      <4> QED
        BY <1>2, <2>2, <3>1, <3>2, <4>1 DEF Promised, Armed
    <3>3. CASE "RECURSIVE" \notin tflags[x]
      <4>1. due'[x] = Never /\ tflags'[x] = tflags[x] \ {"EXPIRED"}
        BY <1>5, <2>1, <2>5, <3>3
      <4> QED
        BY <1>2, <3>1, <3>3, <4>1 DEF Promised, Armed, Never
    <3> QED
      BY <3>2, <3>3
  <2> QED
    BY <2>3, <2>4, <2>5
<1>8. TimersLoop'
  BY <1>1, <1>2, <1>3, NoThreadAssumption
     DEF TimersLoop, threadsVars, barrierVars
<1>9. DueSeen'
  <2> SUFFICES ASSUME NEW x \in timers_list, due'[x] <= now PROVE FALSE
    BY <1>1, <1>2 DEF DueSeen
  <2>1. x \in Timer /\ due'[x] \in Nat
    BY <1>3, <1>6 DEF TimersTyped
  <2> QED
    BY <1>2, <1>7, <2>1
<1> QED
  BY <1>1, <1>2, <1>6, <1>7, <1>8, <1>9 DEF MCInv, TimerInv

LEMMA NextMCInv ==
    ASSUME Destroys # "any", ~Toggles, MCInv, [MCNext]_mcVars
    PROVE  MCInv'
<1>1. CASE scenario = "barriers" /\ BarrierNext /\ UNCHANGED timerVars /\ scenario' = scenario
  <2>1. now' = now
    BY <1>1 DEF BarrierNext, Calls, WaitSleeps, Runs, Dies, SchedulerPass, Interrupts, Suspends,
                Terminates, KillWaiter, barrier_create, barrier_open, barrier_close, WaitPasses,
                WaitChecks, barrier_done, ResumeWaiters, CloseResumed, IdleSuspends,
                Yield, Exit, Kill, Block, Dispatch, Bury, Reap, Wake, threadsVars
  <2>2. TimerInv'
    BY <1>1, <2>1 DEF MCInv, TimerInv, TimersTyped, timerVars
  <2> QED
    BY <1>1, <2>2, BarrierNextKept DEF MCInv
<1>2. CASE scenario = "timers" /\ Next /\ scenario' = scenario
  <2>1. TimerInv'
    BY <1>2, ClockKept, HandlersKept, PassKept, LoopKept, ScanKept DEF Next
  <2> QED
    BY <1>2, <2>1, TimersKeepBarriers DEF MCInv
<1>3. CASE UNCHANGED mcVars
  <2>1. BarrierInv'
    BY <1>3, FlagsKept DEF mcVars, vars, barrierVars, MCInv, BarrierInv, BarriersTypeOK
  <2>2. TimerInv'
    BY <1>3 DEF mcVars, vars, threadsVars, barrierVars, timerVars, MCInv, TimerInv, TimersTyped,
                TimersLoop, DueSeen, WillScan, Promised, Armed, Never
  <2> QED
    BY <2>1, <2>2 DEF MCInv
<1> QED
  BY <1>1, <1>2, <1>3 DEF MCNext

(* What interrupts and threads leave for one another in barriers.c and     *)
(* timers.c, for any number of them: a bit stands for a thread that waits  *)
(* there, every waiter has one, and Timers is awake, or its barrier is     *)
(* open, while a timer is due.                                             *)
THEOREM WaitersAreKnown ==
    ASSUME Destroys # "any", ~Toggles
    PROVE  MCSpec => []WaitersKnown
<1>1. MCInit => MCInv
  BY InitMCInv
<1>2. MCInv /\ [MCNext]_mcVars => MCInv'
  BY NextMCInv
<1>3. MCInv => WaitersKnown
  BY InvGivesProperty
<1> QED
  BY <1>1, <1>2, <1>3, PTL DEF MCSpec

(* The thread Timers calls back a timer when the time its user was         *)
(* promised has come, once for each promise, if running timers are not     *)
(* stopped: a stopped timer keeps the flag that has it called.             *)
THEOREM CallbacksInTime ==
    ASSUME Destroys # "any", ~Toggles, ~Stops
    PROVE  MCSpec => CallbackInTime
<1>1. MCInit => MCInv
  BY InitMCInv
<1>2. MCInv /\ [MCNext]_mcVars => MCInv'
  BY NextMCInv
<1>3. MCInv /\ [MCNext]_mcVars => [EntryScans => \A x \in Called : due[x] <= now]_vars
  <2> SUFFICES ASSUME MCInv, NEW x \in Called PROVE due[x] <= now
    OBVIOUS
  <2>1. x \in timers_list /\ "EXPIRED" \in tflags[x]
    BY DEF Called
  <2>2. Promised(x)
    BY <2>1 DEF MCInv, TimerInv
  <2> QED
    BY <2>1, <2>2 DEF Promised
<1> QED
  BY <1>1, <1>2, <1>3, PTL DEF MCSpec, CallbackInTime

=============================================================================
