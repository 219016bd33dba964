------------------------------ MODULE MCBarriers -----------------------------
(***************************************************************************)
(* Two scenarios of the barriers, chosen at the start.  In the first,      *)
(* threads make every barrier call in any order while an interrupt handler *)
(* opens and closes the barriers of Isr.  In the second, Timers and one    *)
(* other thread live and the barrier is that of Timers.                    *)
(***************************************************************************)
EXTENDS Timers, FiniteSetsExt, TLC

CONSTANTS
    Isr,        \* barriers an interrupt handler opens and closes
    Closed,     \* barriers that are closed by a call
    Destroys,   \* whether barriers are destroyed: "never", "unused", "any"
    Late        \* threads that are not there in the second scenario

ASSUME InstanceAssumption ==
    /\ Isr \subseteq Barrier /\ Closed \subseteq Barrier /\ Destroys \in {"never", "unused", "any"}
    /\ Late \subseteq Thread \ {TimersThread}

VARIABLE scenario

callVars == <<threadsVars, barrierVars>>
mcVars == <<vars, scenario>>

MCInit ==
    \/ /\ scenario = "timers" /\ TimersInit
       /\ status = [t \in Thread |-> IF t \in Late THEN "NONE" ELSE "READY"]
    \/ /\ scenario = "barriers" /\ TimersInit
       /\ status = [t \in Thread |-> "READY"]
       /\ \A x, y \in Timer : msecs[x] = msecs[y] /\ msecs[x] = Max(Period)

Calls(t) ==
    /\ InApp(t)
    /\ \/ Suspends \/ Terminates
       \/ \E u \in Thread : KillWaiter(u)
       \/ \E b \in Barrier :
            \/ barrier_create(b) \/ barrier_open(b)
            \/ b \in Closed /\ barrier_close(b)
            \/ WaitPasses(t, b) \/ WaitChecks(t, b)
            \/ /\ \/ Destroys = "unused" /\ thread_ids[b] = {}
                  \/ Destroys = "any"
               /\ barrier_done(b)

Interrupts == \E b \in Isr : barrier_open(b) \/ (b \in Closed /\ barrier_close(b))

SchedulerPass == (\E b \in Barrier : ResumeWaiters(b)) \/ CloseResumed \/ IdleSuspends

BarrierNext ==
    \/ \E t \in Thread : Calls(t) \/ WaitSleeps(t) \/ Runs(t) \/ Dies(t)
    \/ SchedulerPass \/ Interrupts

MCNext ==
    /\ \/ scenario = "barriers" /\ BarrierNext /\ UNCHANGED timerVars
       \/ scenario = "timers" /\ Next
    /\ UNCHANGED scenario

MCSpec == MCInit /\ [][MCNext]_mcVars

(* No wake-up goes to the wrong wait: a bit in a bitmap is a thread that   *)
(* is asleep for a barrier, and in the bitmap of no other barrier.         *)
BitsOfWaiters ==
    \A b \in Barrier : \A t \in thread_ids[b] :
        /\ status[t] = "WAITING" /\ "BARRIER" \in waits[t]
        /\ \A c \in Barrier \ {b} : t \notin thread_ids[c]

(* barriers.h, on barrier_done: "The barrier will be set to open before    *)
(* destruction, hence moving all waiting threads to READY state."  Every   *)
(* thread that waits is in the bitmap of a barrier that exists.            *)
WaitersListed ==
    \A t \in Thread : status[t] = "WAITING" /\ t \notin doomed =>
        \E b \in barriers_list : t \in thread_ids[b]

(* Fairness: the scheduler goes on, and a thread that has the processor    *)
(* gives it up in the end.  Nothing is said of which thread runs next.     *)
MCFairness ==
    /\ WF_callVars(scenario = "barriers" /\ SchedulerPass)
    /\ WF_callVars(scenario = "barriers" /\ \E t \in Thread : Runs(t))
    /\ WF_callVars(scenario = "barriers" /\ \E t \in Thread : Dies(t))
    /\ WF_callVars(scenario = "barriers" /\ (Suspends \/ Terminates \/ \E t \in Thread : WaitSleeps(t)))
    /\ WF_vars(scenario = "timers" /\ Schedules) /\ WF_vars(scenario = "timers" /\ OtherSuspends)
    /\ WF_vars(scenario = "timers" /\ EntryCreates) /\ WF_vars(scenario = "timers" /\ EntryWaits)
    /\ WF_vars(scenario = "timers" /\ EntrySleeps) /\ WF_vars(scenario = "timers" /\ EntryScans)
    /\ SF_vars(scenario = "timers" /\ Runs(TimersThread) /\ UNCHANGED timerVars)

MCFairSpec == MCSpec /\ MCFairness

(* barriers.h, on wait_for_barrier: "opening the barrier will resume the   *)
(* thread."  A thread that is asleep, or about to be, when its barrier is  *)
(* open does not stay asleep, unless a call closes the barrier again.      *)
OpenResumes ==
    \A t \in Thread, b \in Barrier \ Closed :
        (b \in open /\ (t \in thread_ids[b] \/ checked[t] = b))
            ~> (t \notin thread_ids[b] /\ checked[t] # b)

(* What interrupts and threads leave for one another in barriers.c and     *)
(* timers.c: a bit in a barrier stands for a thread that waits there and   *)
(* every waiter has one, and the Timers thread is awake, or its barrier is *)
(* open, while a timer it must serve has expired.                          *)
WaitersKnown ==
    /\ BarriersTypeOK
    /\ TimersTypeOK
    /\ BitsOfWaiters
    /\ WaitersListed
    /\ DueAwake

=============================================================================
