------------------------------- MODULE Alarms --------------------------------
(***************************************************************************)
(* Alarms: kernel/alarms.c, on top of the event queues.                    *)
(*                                                                         *)
(* An alarm holds the one event it sends: the alarm itself is the node     *)
(* that is linked into the queue.  alarm_cb, in the clock interrupt, puts  *)
(* it there; a recursive alarm waits for alarm_acknowledge before it sends *)
(* again.  The promise an alarm makes is kept apart from its fields: an    *)
(* alarm that owes an event (owed) sends it at due or later, due being     *)
(* the time it was set at and the durations of its intervals since.        *)
(*                                                                         *)
(* Definitions that come just before a helper with the same parameters are *)
(* mistakes the code could have made; no specification uses them.          *)
(***************************************************************************)
EXTENDS Events

CONSTANTS
    Alarm,      \* alarms, each the event it sends
    AlmPeriod,  \* durations in use, in milliseconds
    Hasty,      \* whether alarms are started, acknowledged or destroyed
                \* while their event is still in a queue
    CreateCut,  \* whether the clock interrupt finds an alarm that
                \* alarm_create has linked and not yet filled in
    Kills       \* whether waiting threads are killed and their slots reused

ASSUME AlarmsAssumption ==
    /\ Alarm \subseteq Event /\ AlmPeriod \subseteq Nat \ {0} /\ AlmPeriod # {}
    /\ Hasty \in BOOLEAN /\ CreateCut \in BOOLEAN /\ Kills \in BOOLEAN

AlarmFlag == {"RECURSIVE", "TRIGGERED", "EXPIRED"}

VARIABLES
    alarms_list,    \* the alarms that exist
    raw,            \* those alarm_create has yet to fill in
    aflags,         \* flags of each alarm
    expiration,     \* when alarm_cb will send the event
    amsecs,         \* its duration
    notify,         \* the queue of each alarm
    due,            \* the time the user was promised an event at
    owed            \* the alarms that owe their user an event

alarmVars == <<alarms_list, raw, aflags, expiration, amsecs, notify, due, owed>>
vars == <<threadsVars, eventVars, alarmVars>>

Never == MaxTime + 1

AlarmsTypeOK ==
    /\ EventsTypeOK
    /\ alarms_list \subseteq Alarm /\ raw \subseteq alarms_list /\ owed \subseteq Alarm
    /\ aflags \in [Alarm -> SUBSET AlarmFlag]
    /\ expiration \in [Alarm -> Nat]
    /\ amsecs \in [Alarm -> AlmPeriod]
    /\ notify \in [Alarm -> Queue \cup {NoQueue}]
    /\ due \in [Alarm -> Nat]

Init ==
    /\ EventsInit
    /\ status = [t \in Thread |-> "READY"]
    /\ alarms_list = {} /\ raw = {} /\ owed = {}
    /\ aflags = [a \in Alarm |-> {}]
    /\ expiration = [a \in Alarm |-> 0]
    /\ amsecs = [a \in Alarm |-> CHOOSE m \in AlmPeriod : TRUE]
    /\ notify = [a \in Alarm |-> NoQueue]
    /\ due = [a \in Alarm |-> Never]

(* What a careful user does not do to an alarm whose event is queued.      *)
Settled(a) == Hasty \/ ~Queued(a)

(* alarm_create is not locked.  list_prepend comes first: the alarm is in  *)
(* the list with whatever flags the memory held, and so for its            *)
(* expiration and its queue, those of an alarm that was there before.      *)
alarm_create(a) ==
    /\ current # NoThread /\ a \notin alarms_list /\ events_list # {}
    /\ alarms_list' = alarms_list \cup {a} /\ raw' = raw \cup {a}
    /\ \E F \in SUBSET AlarmFlag : aflags' = [aflags EXCEPT ![a] = F]
    /\ UNCHANGED <<threadsVars, eventVars, expiration, amsecs, notify, due, owed>>

CreateFills(a, m, recursive, q) ==
    /\ a \in raw /\ q \in events_list /\ raw' = raw \ {a}
    /\ aflags' = [aflags EXCEPT ![a] = IF recursive THEN {"RECURSIVE"} ELSE {}]
    /\ expiration' = [expiration EXCEPT ![a] = 0]
    /\ amsecs' = [amsecs EXCEPT ![a] = m]
    /\ notify' = [notify EXCEPT ![a] = q]
    /\ UNCHANGED <<threadsVars, eventVars, alarms_list, due, owed>>

alarm_set(a, start) ==
    /\ a \in alarms_list
    /\ start => Settled(a)
    /\ aflags' = [aflags EXCEPT ![a] =
                    IF start THEN (@ \cup {"TRIGGERED"}) \ {"EXPIRED"}
                    ELSE (@ \ {"TRIGGERED"}) \cup {"EXPIRED"}]
    /\ expiration' = [expiration EXCEPT ![a] = IF start THEN amsecs[a] + now ELSE 0]
    /\ due' = [due EXCEPT ![a] = IF start THEN now + amsecs[a] ELSE Never]
    /\ owed' = IF start THEN owed \cup {a} ELSE owed \ {a}
    /\ UNCHANGED <<threadsVars, eventVars, alarms_list, raw, amsecs, notify>>

(* The next interval begins where the last one ended, however late the     *)
(* call is.                                                                *)
Acknowledged(a) == AlarmFlag \subseteq aflags[a]

RearmBack(a) == expiration[a] - amsecs[a]
Rearmed(a) == expiration[a] + amsecs[a]

alarm_acknowledge(a) ==
    /\ a \in alarms_list /\ Settled(a)
    /\ Acknowledged(a)
    /\ expiration' = [expiration EXCEPT ![a] = Rearmed(a)]
    /\ aflags' = [aflags EXCEPT ![a] = @ \ {"EXPIRED"}]
    /\ due' = [due EXCEPT ![a] = @ + amsecs[a]] /\ owed' = owed \cup {a}
    /\ UNCHANGED <<threadsVars, eventVars, alarms_list, raw, amsecs, notify>>

alarm_update(a, m, recursive) ==
    /\ a \in alarms_list
    /\ amsecs' = [amsecs EXCEPT ![a] = m]
    /\ aflags' = [aflags EXCEPT ![a] = IF recursive THEN @ \cup {"RECURSIVE"}
                                                    ELSE @ \ {"RECURSIVE"}]
    /\ UNCHANGED <<threadsVars, eventVars, alarms_list, raw, expiration, notify, due, owed>>

alarm_done(a) ==
    /\ a \in alarms_list /\ Settled(a)
    /\ alarms_list' = alarms_list \ {a}
    /\ due' = [due EXCEPT ![a] = Never] /\ owed' = owed \ {a}
    /\ UNCHANGED <<threadsVars, eventVars, raw, aflags, expiration, amsecs, notify>>

(***************************************************************************)
(* alarm_cb, when the clock shows n: the alarms that send, and the queues  *)
(* after they have, in the order of the list (any order here).             *)
(***************************************************************************)
SendsTriggered(n) == {a \in alarms_list : "TRIGGERED" \in aflags[a] /\ n >= expiration[a]}
Sends(n) ==
    {a \in alarms_list : /\ aflags[a] \cap {"TRIGGERED", "EXPIRED"} = {"TRIGGERED"}
                         /\ n >= expiration[a]}

SentTo(q, A) == SetToSeq({a \in A : notify[a] = q})

alarm_cb ==
    LET A == Sends(now')
    IN  /\ Tick /\ (CreateCut \/ raw = {})
        /\ \A a \in A : notify[a] \in events_list
        /\ msgqueue' = [q \in Queue |-> msgqueue[q] \o SentTo(q, A)]
        /\ aflags' = [a \in Alarm |->
                IF a \notin A THEN aflags[a]
                ELSE (aflags[a] \cup {"EXPIRED"}) \
                         (IF "RECURSIVE" \in aflags[a] THEN {} ELSE {"TRIGGERED"})]
        /\ owed' = owed \ A
        /\ UNCHANGED <<events_list, threadid, bits, waitsOn, checked, untimed, todo>>
        /\ UNCHANGED <<alarms_list, raw, expiration, amsecs, notify, due>>

(***************************************************************************)
(* Threads and interrupt handlers.  While an alarm is raw, the thread that *)
(* creates it has the processor: only interrupts come in.                  *)
(***************************************************************************)
AlarmCalls ==
    /\ raw = {}
    /\ \E a \in Alarm :
        \/ alarm_create(a) \/ alarm_set(a, TRUE) \/ alarm_set(a, FALSE)
        \/ alarm_acknowledge(a) \/ alarm_done(a)
        \/ \E m \in AlmPeriod : alarm_update(a, m, "RECURSIVE" \in aflags[a])

CreateEnds ==
    \E a \in Alarm, m \in AlmPeriod, r \in BOOLEAN, q \in Queue : CreateFills(a, m, r, q)

(* An event that is not an alarm's is put when it is in no queue.          *)
Puts == \E q \in Queue, e \in Event \ Alarm : ~Queued(e) /\ event_put(q, e)

Calls(t) ==
    /\ InApp(t)
    /\ \/ Suspends
       \/ \E q \in Queue :
            \/ event_init_queue(q) \/ event_watch_queue(t, q)
            \/ threadid[q] = t /\ event_get(q)
            \/ WaitChecks(t, q)
            \/ /\ \A u \in Thread : waitsOn[u] # q
               /\ \A a \in alarms_list : notify[a] # q
               /\ event_done_queue(q)
       \/ Kills /\ \E u \in Thread :
            \/ status[u] = "WAITING" /\ waits[u] = {"EVENT"} /\ KillWatcher(u)
            \/ Restarts(u)

SchedulerPass ==
    \/ \E q \in Queue : ResumeWatcher(q)
    \/ IdleSuspends
    \/ \E t \in Thread : Expires(t) \/ Runs(t) \/ Dies(t)

EventSteps ==
    /\ \/ Puts
       \/ /\ raw = {}
          /\ \/ SchedulerPass
             \/ \E t \in Thread : Calls(t) \/ WaitReturns(t)
             \/ \E t \in Thread, m \in EvTimeouts : WaitSleeps(t, m)
    /\ UNCHANGED alarmVars

Next == EventSteps \/ AlarmCalls \/ CreateEnds \/ alarm_cb

Spec == Init /\ [][Next]_vars

(***************************************************************************)
(* Properties.                                                             *)
(***************************************************************************)

(* An event has one link field, and queue_enqueue does not look whether it *)
(* is in use: an event is in one queue, once, and the alarm it belongs to  *)
(* has not been freed.                                                     *)
EventOnce ==
    \A e \in Event :
        /\ Cardinality({p \in Queue \X (1 .. Capacity + Cardinality(Alarm)) :
                            p[2] \in DOMAIN msgqueue[p[1]] /\ msgqueue[p[1]][p[2]] = e}) <= 1
        /\ e \in Alarm /\ Queued(e) => e \in alarms_list

(* No event is missed: a thread asleep for events is marked, and the queue *)
(* it waits for names it, so that the pass that finds an event resumes it. *)
SleeperMarked ==
    \A t \in Thread : status[t] = "WAITING" /\ "EVENT" \in waits[t] =>
        t \in bits /\ waitsOn[t] \in events_list /\ threadid[waitsOn[t]] = t

(* events.h, on wait_for_events: "Suspend thread execution until one or    *)
(* more events are stored in the queue."  A wait without a timeout does    *)
(* not return to an empty queue.                                           *)
UntimedGetsEvent ==
    [][\A t \in Thread : WaitReturns(t) /\ t \in untimed => msgqueue[waitsOn[t]] # <<>>]_vars

(* alarms.h: "An alarm will send an event after *at least* the expiration  *)
(* time has elapsed": alarm_cb sends the event of an alarm that owes one,  *)
(* once, and not before the time it was set at and the durations of its    *)
(* intervals since, however late they were acknowledged or changed.        *)
SentInTime ==
    [][\A a \in Alarm : a \in alarms_list /\ Queued(a)' /\ ~Queued(a) =>
            a \in owed /\ due[a] <= now']_vars

(* alarms.h, on alarm_acknowledge: "If an interval is crossed (i.e. the    *)
(* function is invoked too late) the alarm won't generate events until the *)
(* next interval is reached": what it re-arms with has yet to come.        *)
CrossedSkipped ==
    [][\A a \in Alarm : alarm_acknowledge(a) => expiration'[a] > now]_vars

(* Fairness: the scheduler goes on, and a thread that has the processor    *)
(* gives it up or ends its call.                                           *)
Fairness ==
    /\ WF_vars(SchedulerPass /\ UNCHANGED alarmVars)
    /\ WF_vars((Suspends \/ \E t \in Thread : WaitReturns(t) \/ WaitSleeps(t, 0))
                   /\ UNCHANGED alarmVars)
    /\ WF_vars(CreateEnds)

FairSpec == Spec /\ Fairness

(* events.h: "when at least one event message is in the queue, the         *)
(* listener is woken up": unless it is killed, it does not sleep on while  *)
(* its queue has events.                                                   *)
EventWakes ==
    \A t \in Thread, q \in Queue :
        status[t] = "WAITING" /\ waitsOn[t] = q /\ msgqueue[q] # <<>>
            ~> status[t] # "WAITING" \/ t \in doomed \/ msgqueue[q] = <<>>

(* The marks of events.c and alarms.c: the event embedded in an alarm is   *)
(* linked in one queue at most and once, and a thread that sleeps for an   *)
(* event has left the bit that resume_on_events looks for.                 *)
EventsSound ==
    /\ AlarmsTypeOK
    /\ EventOnce
    /\ SleeperMarked

=============================================================================
