------------------------------- MODULE Timers --------------------------------
(***************************************************************************)
(* Timers: kernel/timers.c, on top of its autoclose barrier.               *)
(*                                                                         *)
(* timer_cb runs in the clock interrupt: it flags the timers whose time    *)
(* has come and opens the barrier.  The thread Timers waits for the        *)
(* barrier and invokes the callbacks.  Threads and interrupt handlers      *)
(* start, stop, change, create and destroy timers at any moment, each call *)
(* with interrupts off.                                                    *)
(*                                                                         *)
(* Definitions that come just before a helper with the same parameters are *)
(* mistakes the code could have made; no specification uses them.          *)
(***************************************************************************)
EXTENDS Barriers

CONSTANTS
    Timer,          \* timers
    TimersThread,   \* the thread of timers_thread_entry
    Bar,            \* the barrier it waits for
    Period,         \* the durations in use, in milliseconds
    Stops,          \* whether running timers are stopped
    Toggles         \* whether timer_update changes the recursiveness

ASSUME TimersAssumption ==
    /\ TimersThread \in Thread /\ Bar \in AutoClose
    /\ Period \subseteq Nat \ {0}
    /\ Stops \in BOOLEAN /\ Toggles \in BOOLEAN

TimerFlag == {"RECURSIVE", "TRIGGERED", "EXPIRED"}

VARIABLES
    timers_list,    \* the timers that exist
    tflags,         \* flags of each timer
    expiration,     \* when the clock interrupt will flag it
    msecs,          \* its duration
    tpc,            \* where the thread Timers is: "start", "wait", "scan"
    due             \* the time of the callback its user was promised

timerVars == <<timers_list, tflags, expiration, msecs, tpc, due>>
vars == <<threadsVars, barrierVars, timerVars>>

(* No callback is promised: a time the clock never shows.                  *)
Never == MaxTime + 1

TimersTypeOK ==
    /\ BarriersTypeOK
    /\ timers_list \subseteq Timer
    /\ tflags \in [Timer -> SUBSET TimerFlag]
    /\ expiration \in [Timer -> Nat]
    /\ msecs \in [Timer -> Period]
    /\ tpc \in {"start", "wait", "scan"}
    /\ due \in [Timer -> Nat]

TimersInit ==
    /\ BarriersInit
    /\ timers_list = {}
    /\ tflags = [x \in Timer |-> {}]
    /\ expiration = [x \in Timer |-> 0]
    /\ msecs \in [Timer -> Period]
    /\ tpc = "start"
    /\ due = [x \in Timer |-> Never]

Init == TimersInit /\ status = [t \in Thread |-> "READY"]

(***************************************************************************)
(* The timers API.                                                         *)
(***************************************************************************)
timer_create(x, m, recursive) ==
    /\ x \notin timers_list
    /\ timers_list' = timers_list \cup {x}
    /\ tflags' = [tflags EXCEPT ![x] = IF recursive THEN {"RECURSIVE"} ELSE {}]
    /\ expiration' = [expiration EXCEPT ![x] = 0]
    /\ msecs' = [msecs EXCEPT ![x] = m]
    /\ due' = [due EXCEPT ![x] = Never]
    /\ UNCHANGED <<threadsVars, barrierVars, tpc>>

ExpiryBefore(x) == now - msecs[x]
ExpiryFrom(x) == msecs[x] + now

StartKeepsExpired(x) == tflags[x] \cup {"TRIGGERED"}
StartFlags(x) == (tflags[x] \cup {"TRIGGERED"}) \ {"EXPIRED"}

timer_set(x, start) ==
    /\ x \in timers_list
    /\ tflags' = [tflags EXCEPT ![x] =
                    IF start THEN StartFlags(x)
                    ELSE (@ \ {"TRIGGERED"}) \cup {"EXPIRED"}]
    /\ expiration' = [expiration EXCEPT ![x] = IF start THEN ExpiryFrom(x) ELSE 0]
    /\ due' = [due EXCEPT ![x] = IF start THEN msecs[x] + now ELSE Never]
    /\ UNCHANGED <<threadsVars, barrierVars, timers_list, msecs, tpc>>

(* A new duration counts from the next expiration on.                      *)
timer_update(x, m, recursive) ==
    /\ x \in timers_list
    /\ msecs' = [msecs EXCEPT ![x] = m]
    /\ tflags' = [tflags EXCEPT ![x] = IF recursive THEN @ \cup {"RECURSIVE"}
                                                    ELSE @ \ {"RECURSIVE"}]
    /\ UNCHANGED <<threadsVars, barrierVars, timers_list, expiration, tpc, due>>

timer_done(x) ==
    /\ x \in timers_list
    /\ timers_list' = timers_list \ {x}
    /\ due' = [due EXCEPT ![x] = Never]
    /\ UNCHANGED <<threadsVars, barrierVars, tflags, expiration, msecs, tpc>>

(***************************************************************************)
(* The clock interrupt.                                                    *)
(***************************************************************************)

(* The timers timer_cb flags when the clock shows n.                       *)
Reached(n) ==
    {x \in timers_list : /\ tflags[x] \cap {"TRIGGERED", "EXPIRED"} = {"TRIGGERED"}
                         /\ n >= expiration[x]}

OpenSingle(X) == IF Cardinality(X) = 1 THEN open \cup {Bar} ELSE open
OpenForExpired(X) == IF X = {} THEN open ELSE open \cup ({Bar} \cap barriers_list)

timer_cb ==
    LET X == Reached(now')
    IN  /\ Tick
        /\ tflags' = [x \in Timer |->
                IF x \notin X THEN tflags[x]
                ELSE (tflags[x] \cup {"EXPIRED"}) \
                         (IF "RECURSIVE" \in tflags[x] THEN {} ELSE {"TRIGGERED"})]
        /\ open' = OpenForExpired(X)
        /\ UNCHANGED <<barriers_list, thread_ids, checked, todo, closing>>
        /\ UNCHANGED <<timers_list, expiration, msecs, tpc, due>>

(***************************************************************************)
(* timers_thread_entry.                                                    *)
(***************************************************************************)
EntryCreates ==
    /\ current = TimersThread /\ tpc = "start"
    /\ barrier_create(Bar)
    /\ tpc' = "wait"
    /\ UNCHANGED <<timers_list, tflags, expiration, msecs, due>>

EntryWaits ==
    /\ current = TimersThread /\ tpc = "wait"
    /\ WaitPasses(TimersThread, Bar) \/ WaitChecks(TimersThread, Bar)
    /\ tpc' = "scan"
    /\ UNCHANGED <<timers_list, tflags, expiration, msecs, due>>

EntrySleeps == WaitSleeps(TimersThread) /\ UNCHANGED timerVars

(* The timers whose callbacks the next scan invokes.                       *)
Called == {x \in timers_list : "EXPIRED" \in tflags[x]}

ClearsAll(x) == {}
ClearsExpired(x) == tflags[x] \ {"EXPIRED"}

EntryScans ==
    /\ InApp(TimersThread) /\ tpc = "scan"
    /\ tflags' = [x \in Timer |-> IF x \in Called THEN ClearsExpired(x) ELSE tflags[x]]
    /\ LET R == {x \in Called : "RECURSIVE" \in tflags[x]}
       IN  /\ expiration' = [x \in Timer |-> IF x \in R THEN ExpiryFrom(x) ELSE expiration[x]]
           /\ due' = [x \in Timer |->
                        IF x \notin Called \/ due[x] = Never THEN due[x]
                        ELSE IF x \in R THEN msecs[x] + now ELSE Never]
    /\ tpc' = "wait"
    /\ UNCHANGED <<threadsVars, barrierVars, timers_list, msecs>>

(***************************************************************************)
(* The other threads, interrupt handlers, and the scheduler.               *)
(***************************************************************************)
TimerCalls ==
    \E x \in Timer :
        \/ timer_set(x, TRUE)
        \/ Stops /\ timer_set(x, FALSE)
        \/ timer_done(x)
        \/ \E m \in Period, r \in BOOLEAN : timer_create(x, m, r)
        \/ \E m \in Period, r \in (IF Toggles THEN BOOLEAN ELSE {"RECURSIVE" \in tflags[x]}) :
              timer_update(x, m, r)

(* Timers is the first thread of the highest class, so it runs before any  *)
(* other thread does, and makes its barrier.  An interrupt handler may use *)
(* the API at any time after that.                                         *)
Handlers == tpc # "start" /\ TimerCalls

OtherSuspends == current # TimersThread /\ Suspends /\ UNCHANGED timerVars

Schedules ==
    /\ \/ ResumeWaiters(Bar) \/ CloseResumed
       \/ \E t \in Thread : (tpc = "start" => t = TimersThread) /\ Runs(t)
    /\ UNCHANGED timerVars

Next ==
    \/ timer_cb \/ Handlers \/ OtherSuspends \/ Schedules
    \/ EntryCreates \/ EntryWaits \/ EntrySleeps \/ EntryScans

Spec == Init /\ [][Next]_vars

(***************************************************************************)
(* Properties.                                                             *)
(***************************************************************************)

(* No wake-up is lost: while Timers is asleep, or is about to be after it  *)
(* has found the barrier closed, a timer whose time has come has its flag  *)
(* set and the barrier is open, so that the next pass resumes Timers.      *)
DueAwake ==
    \A x \in timers_list : due[x] <= now =>
        /\ "EXPIRED" \in tflags[x]
        /\ (status[TimersThread] = "WAITING" \/ checked[TimersThread] # NoBarrier)
              => Bar \in open

(* timers.h, on timer_set: "if start is TRUE the timer will be set and     *)
(* counting; if start is false the timer will be stopped and set to        *)
(* inactive", and on timer_create: "if recursive is FALSE, the expired     *)
(* timer will be inactive."  A callback is invoked once for each time that *)
(* was promised, and not before.                                           *)
CallbackInTime == [][EntryScans => \A x \in Called : due[x] <= now]_vars

(* Fairness: interrupts and the scheduler go on, Timers executes its loop, *)
(* and another thread gives the processor up in the end.                   *)
Fairness ==
    /\ WF_vars(Schedules) /\ WF_vars(OtherSuspends)
    /\ WF_vars(EntryCreates) /\ WF_vars(EntryWaits)
    /\ WF_vars(EntrySleeps) /\ WF_vars(EntryScans)
    /\ SF_vars(Runs(TimersThread) /\ UNCHANGED timerVars)

FairSpec == Spec /\ Fairness

(* timers.h, on timer_create: "Once the timer is set, it will invoke the   *)
(* callback on expiration".  A timer whose time has come is called, unless *)
(* its user starts or destroys it first.                                   *)
DueCalled == \A x \in Timer : due[x] <= now ~> due[x] > now

(* barriers.c, on BARRIER_AUTOCLOSE: "Open barriers will be automatially   *)
(* closed in resume_on_barriers".  The barrier of Timers does not stay     *)
(* open for ever.                                                          *)
BarCloses == Bar \in open ~> Bar \notin open

=============================================================================
