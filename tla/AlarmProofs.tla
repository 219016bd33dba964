----------------------------- MODULE AlarmProofs -----------------------------
(***************************************************************************)
(* Proofs about Events and Alarms for every number of threads, queues,     *)
(* events and alarms.                                                      *)
(*                                                                         *)
(* Each result has the hypotheses it needs and no more: that an event is   *)
(* linked once is about users who leave an alarm alone while its event is  *)
(* queued (~Hasty), that a wait ends with an event about threads that      *)
(* watch one queue (~WatchMany).  The alarms are finitely many, else the   *)
(* clock interrupt would not end.                                          *)
(***************************************************************************)
EXTENDS Alarms, SequenceTheorems, FiniteSetTheorems, TLAPS

(* The event e is somewhere in the queue q.                                *)
In(q, e) == \E i \in DOMAIN msgqueue[q] : msgqueue[q][i] = e

(* The next clock interrupts will look whether the time of a has come.     *)
Armed(a) == "TRIGGERED" \in aflags[a] /\ "EXPIRED" \notin aflags[a]

(***************************************************************************)
(* Sequences.                                                              *)
(***************************************************************************)

(* SetToSeq enumerates a finite set, each member once.                     *)
LEMMA Enumeration ==
    ASSUME NEW S, IsFiniteSet(S)
    PROVE  /\ SetToSeq(S) \in Seq(S)
           /\ DOMAIN SetToSeq(S) = 1 .. Len(SetToSeq(S))
           /\ \A i, j \in DOMAIN SetToSeq(S) : SetToSeq(S)[i] = SetToSeq(S)[j] => i = j
<1> DEFINE n == Cardinality(S)
<1>1. n \in Nat /\ ExistsBijection(1 .. n, S)
  BY FS_CardinalityType
<1>2. PICK f \in [1 .. n -> S] : IsInjective(f)
  BY <1>1 DEF ExistsBijection, Bijection, Injection, IsInjective
<1>3. SetToSeq(S) \in [1 .. n -> S] /\ IsInjective(SetToSeq(S))
  BY <1>2 DEF SetToSeq
<1> HIDE DEF n
<1> DEFINE s == SetToSeq(S)
<1> HIDE DEF s
<1>4. s \in Seq(S) /\ DOMAIN s = 1 .. n /\ Len(s) = n
  BY <1>1, <1>3 DEF s
<1> QED
  BY <1>1, <1>3, <1>4 DEF s, IsInjective

(***************************************************************************)
(* Type correctness.                                                       *)
(***************************************************************************)

(* The steps of Threads that the events and alarms are built from.         *)
LEMMA ThreadStepsTyped ==
    ASSUME ThreadsTypeOK, NEW t \in Thread, NEW S \in SUBSET (Thread \cup {NoThread}),
           NEW m \in Nat,
           \/ Yield \/ Block({"EVENT"}, m) \/ Kill(t) \/ Wake("EVENT", S)
           \/ Timeout(t) \/ Bury(t) \/ Reap(t) \/ Dispatch(t) \/ Create(t) \/ Tick
    PROVE  ThreadsTypeOK'
<1> USE NoThreadAssumption DEF ThreadsTypeOK, Status, WaitFlag
<1>1. CASE Yield
  BY <1>1 DEF Yield
<1>2. CASE Block({"EVENT"}, m)
  BY <1>2 DEF Block
<1>3. CASE Kill(t)
  BY <1>3 DEF Kill
<1>4. CASE Wake("EVENT", S)
  BY <1>4 DEF Wake, Resumable
<1>5. CASE Timeout(t) \/ Bury(t) \/ Reap(t)
  BY <1>5 DEF Timeout, Bury, Reap
<1>6. CASE Dispatch(t) \/ Create(t)
  BY <1>6 DEF Dispatch, Create
<1>7. CASE Tick
  BY <1>7, BoundAssumption DEF Tick
<1> QED
  BY <1>1, <1>2, <1>3, <1>4, <1>5, <1>6, <1>7

LEMMA InitTyped == Init => AlarmsTypeOK
BY AlarmsAssumption, BoundAssumption
   DEF Init, EventsInit, ThreadsInit, AlarmsTypeOK, EventsTypeOK, ThreadsTypeOK,
       Status, WaitFlag, AlarmFlag, Never

(* The calls of threads on event queues.                                   *)
LEMMA CallsTyped ==
    ASSUME EventsTypeOK, NEW t \in Thread, Calls(t)
    PROVE  EventsTypeOK'
<1> USE DEF EventsTypeOK
<1>1. CASE Suspends
  <2>1. ThreadsTypeOK'
    BY <1>1, ThreadStepsTyped DEF Suspends
  <2> QED
    BY <1>1, <2>1 DEF Suspends
<1>2. ASSUME NEW q \in Queue,
             \/ event_init_queue(q) \/ event_watch_queue(t, q)
             \/ event_get(q) \/ WaitChecks(t, q) \/ event_done_queue(q)
      PROVE  EventsTypeOK'
  <2>1. UNCHANGED threadsVars => ThreadsTypeOK'
    BY DEF threadsVars, ThreadsTypeOK
  <2>2. CASE event_init_queue(q) \/ event_done_queue(q)
    <3>1. <<>> \in Seq(Event)
      OBVIOUS
    <3>2. msgqueue' \in [Queue -> Seq(Event)]
      BY <2>2, <3>1 DEF event_init_queue, event_done_queue
    <3> QED
      BY <2>1, <2>2, <3>2 DEF event_init_queue, event_done_queue
  <2>3. CASE event_watch_queue(t, q) \/ WaitChecks(t, q)
    BY <2>1, <2>3 DEF event_watch_queue, WaitChecks
  <2>4. CASE event_get(q)
    <3>1. Tail(msgqueue[q]) \in Seq(Event)
      BY <2>4, HeadTailProperties DEF event_get
    <3> QED
      BY <2>1, <2>4, <3>1 DEF event_get
  <2> QED
    BY <1>2, <2>2, <2>3, <2>4
<1>3. ASSUME NEW u \in Thread, KillWatcher(u) \/ Restarts(u)
      PROVE  EventsTypeOK'
  <2>1. ThreadsTypeOK'
    BY <1>3, ThreadStepsTyped DEF KillWatcher, Restarts
  <2>2. threadid' \in [Queue -> Thread \cup {NoThread}]
    BY <1>3 DEF KillWatcher, Restarts, cancel_wait_for_events
  <2> QED
    BY <1>3, <2>1, <2>2 DEF KillWatcher, Restarts
<1> QED
  BY <1>1, <1>2, <1>3 DEF Calls

(* The steps of the scheduler and the two ends of a wait.                  *)
LEMMA PassTyped ==
    ASSUME EventsTypeOK,
           \/ SchedulerPass
           \/ \E t \in Thread : WaitReturns(t)
           \/ \E t \in Thread, m \in EvTimeouts : WaitSleeps(t, m)
    PROVE  EventsTypeOK'
<1> USE DEF EventsTypeOK
<1>1. ASSUME NEW q \in Queue, ResumeWatcher(q) PROVE EventsTypeOK'
  <2>1. ThreadsTypeOK'
    <3>1. {threadid[q]} \in SUBSET (Thread \cup {NoThread})
      OBVIOUS
    <3>2. CASE q \in events_list /\ Resumes(q)
      BY <1>1, <3>1, <3>2, ThreadStepsTyped DEF ResumeWatcher, Resumes
    <3>3. CASE ~(q \in events_list /\ Resumes(q))
      BY <1>1, <3>3 DEF ResumeWatcher, threadsVars, ThreadsTypeOK
    <3> QED
      BY <3>2, <3>3
  <2> QED
    BY <1>1, <2>1 DEF ResumeWatcher
<1>2. CASE IdleSuspends
  BY <1>2 DEF IdleSuspends, threadsVars, ThreadsTypeOK
<1>3. ASSUME NEW t \in Thread, Expires(t) \/ Runs(t) \/ Dies(t) PROVE EventsTypeOK'
  <2>1. ThreadsTypeOK'
    BY <1>3, ThreadStepsTyped DEF Expires, Runs, Dies
  <2> QED
    BY <1>3, <2>1 DEF Expires, Runs, Dies, eventVars
<1>4. ASSUME NEW t \in Thread, WaitReturns(t) PROVE EventsTypeOK'
  BY <1>4 DEF WaitReturns, threadsVars, ThreadsTypeOK
<1>5. ASSUME NEW t \in Thread, NEW m \in EvTimeouts, WaitSleeps(t, m) PROVE EventsTypeOK'
  <2>1. ThreadsTypeOK'
    BY <1>5, ThreadStepsTyped, EventsAssumption DEF WaitSleeps
  <2> QED
    BY <1>5, <2>1 DEF WaitSleeps, Mark
<1> QED
  BY <1>1, <1>2, <1>3, <1>4, <1>5 DEF SchedulerPass

(* The calls on alarms leave threads and queues alone.                     *)
LEMMA AlarmCallsTyped ==
    ASSUME AlarmsTypeOK, AlarmCalls \/ CreateEnds
    PROVE  AlarmsTypeOK' /\ UNCHANGED <<threadsVars, eventVars>>
<1>1. UNCHANGED <<threadsVars, eventVars>>
  BY DEF AlarmCalls, alarm_set, alarm_acknowledge, alarm_done, alarm_update, alarm_create,
         CreateEnds, CreateFills
<1>2. EventsTypeOK'
  BY <1>1 DEF threadsVars, eventVars, AlarmsTypeOK, EventsTypeOK, ThreadsTypeOK
<1>3. PICK a \in Alarm :
        \/ alarm_create(a) \/ alarm_set(a, TRUE) \/ alarm_set(a, FALSE)
        \/ alarm_acknowledge(a) \/ (raw = {} /\ alarm_done(a))
        \/ \E m \in AlmPeriod :
            \/ alarm_update(a, m, "RECURSIVE" \in aflags[a])
            \/ \E r \in BOOLEAN, q \in Queue : CreateFills(a, m, r, q)
  BY DEF AlarmCalls, CreateEnds
<1> USE AlarmsAssumption, BoundAssumption
<1> USE DEF AlarmsTypeOK, AlarmFlag, Never
<1>0. now \in Nat /\ amsecs[a] \in Nat /\ expiration[a] \in Nat /\ due[a] \in Nat
  BY DEF EventsTypeOK, ThreadsTypeOK
<1>4. CASE alarm_set(a, TRUE)
  BY <1>0, <1>2, <1>4 DEF alarm_set
<1>5. CASE alarm_set(a, FALSE)
  BY <1>0, <1>2, <1>5 DEF alarm_set
<1>6. CASE alarm_acknowledge(a)
  BY <1>0, <1>2, <1>6 DEF alarm_acknowledge, Rearmed
<1>7. CASE raw = {} /\ alarm_done(a)
  BY <1>2, <1>7 DEF alarm_done
<1>8. ASSUME NEW m \in AlmPeriod, alarm_update(a, m, "RECURSIVE" \in aflags[a])
      PROVE  AlarmsTypeOK'
  BY <1>2, <1>8 DEF alarm_update
<1>9. ASSUME NEW m \in AlmPeriod, NEW r \in BOOLEAN, NEW q \in Queue, CreateFills(a, m, r, q)
      PROVE  AlarmsTypeOK'
  BY <1>2, <1>9 DEF CreateFills
<1>10. CASE alarm_create(a)
  BY <1>2, <1>10 DEF alarm_create
<1> QED
  BY <1>1, <1>3, <1>4, <1>5, <1>6, <1>7, <1>8, <1>9, <1>10

(* The queues when alarm_cb has sent: what was there, then the events of   *)
(* the alarms whose time has come, each once.                              *)
LEMMA QueuesAfterSending ==
    ASSUME IsFiniteSet(Alarm), AlarmsTypeOK, alarm_cb, NEW q \in Queue
    PROVE  /\ Sends(now') \subseteq alarms_list
           /\ SentTo(q, Sends(now')) \in Seq(Event)
           /\ \A j \in DOMAIN SentTo(q, Sends(now')) :
                    /\ SentTo(q, Sends(now'))[j] \in Sends(now')
                    /\ notify[SentTo(q, Sends(now'))[j]] = q
           /\ \A j, k \in DOMAIN SentTo(q, Sends(now')) :
                    SentTo(q, Sends(now'))[j] = SentTo(q, Sends(now'))[k] => j = k
           /\ msgqueue[q] \in Seq(Event)
           /\ msgqueue'[q] = msgqueue[q] \o SentTo(q, Sends(now'))
           /\ msgqueue'[q] \in Seq(Event)
<1> DEFINE A == Sends(now')
           B == {a \in A : notify[a] = q}
<1>1. A \subseteq alarms_list /\ A \subseteq Alarm
  BY DEF Sends, AlarmsTypeOK
<1>2. IsFiniteSet(B)
  BY <1>1, FS_Subset
<1>3. B \subseteq Event
  BY <1>1, AlarmsAssumption
<1>4. msgqueue[q] \in Seq(Event) /\ msgqueue'[q] = msgqueue[q] \o SetToSeq(B)
  BY DEF AlarmsTypeOK, EventsTypeOK, alarm_cb, SentTo
<1>6. SentTo(q, A) = SetToSeq(B)
  BY DEF SentTo
<1> HIDE DEF A, B
<1>5. /\ SetToSeq(B) \in Seq(B)
      /\ \A j, k \in DOMAIN SetToSeq(B) : SetToSeq(B)[j] = SetToSeq(B)[k] => j = k
  BY <1>2, Enumeration
<1>7. SetToSeq(B) \in Seq(Event) /\ \A j \in DOMAIN SetToSeq(B) : SetToSeq(B)[j] \in B
  BY <1>3, <1>5, SeqMonotonic
<1>8. \A a \in B : a \in A /\ notify[a] = q
  BY DEF B
<1>9. msgqueue'[q] \in Seq(Event)
  BY <1>4, <1>7, ConcatProperties
<1> QED
  BY <1>1, <1>4, <1>5, <1>6, <1>7, <1>8, <1>9 DEF A

LEMMA AlarmCbTyped ==
    ASSUME IsFiniteSet(Alarm), AlarmsTypeOK, alarm_cb
    PROVE  AlarmsTypeOK'
<1>1. ThreadsTypeOK'
  BY BoundAssumption DEF alarm_cb, Tick, AlarmsTypeOK, EventsTypeOK, ThreadsTypeOK
<1>2. msgqueue' \in [Queue -> Seq(Event)]
  BY QueuesAfterSending DEF alarm_cb
<1>3. aflags' \in [Alarm -> SUBSET AlarmFlag] /\ owed' \subseteq Alarm
  BY DEF alarm_cb, AlarmsTypeOK, AlarmFlag
<1> QED
  BY <1>1, <1>2, <1>3 DEF alarm_cb, AlarmsTypeOK, EventsTypeOK

LEMMA NextTyped ==
    ASSUME IsFiniteSet(Alarm), AlarmsTypeOK, [Next]_vars
    PROVE  AlarmsTypeOK'
<1>1. CASE EventSteps
  <2>1. UNCHANGED alarmVars
    BY <1>1 DEF EventSteps
  <2>2. EventsTypeOK'
    <3>1. ASSUME NEW q \in Queue, NEW e \in Event, event_put(q, e) PROVE EventsTypeOK'
      BY <3>1 DEF event_put, threadsVars, AlarmsTypeOK, EventsTypeOK, ThreadsTypeOK
    <3> QED
      BY <1>1, <3>1, CallsTyped, PassTyped DEF EventSteps, Puts, AlarmsTypeOK
  <2> QED
    BY <2>1, <2>2 DEF AlarmsTypeOK, alarmVars
<1>2. CASE AlarmCalls \/ CreateEnds
  BY <1>2, AlarmCallsTyped
<1>3. CASE alarm_cb
  BY <1>3, AlarmCbTyped
<1>4. CASE UNCHANGED vars
  BY <1>4 DEF vars, threadsVars, eventVars, alarmVars, AlarmsTypeOK, EventsTypeOK, ThreadsTypeOK
<1> QED
  BY <1>1, <1>2, <1>3, <1>4 DEF Next

(***************************************************************************)
(* An event is linked once.                                                *)
(***************************************************************************)

(* A node is in one place of one queue.                                    *)
Linked ==
    \A q, r \in Queue : \A i \in DOMAIN msgqueue[q], j \in DOMAIN msgqueue[r] :
        msgqueue[q][i] = msgqueue[r][j] => q = r /\ i = j

(* A queue that does not exist holds nothing.                              *)
Forgotten == \A q \in Queue \ events_list : msgqueue[q] = <<>>

(* An alarm whose event is queued has not been freed, and is not armed:    *)
(* the clock interrupt does not link it again.                             *)
QueuedAlarms ==
    \A q \in Queue : \A i \in DOMAIN msgqueue[q] :
        msgqueue[q][i] \in Alarm => msgqueue[q][i] \in alarms_list /\ ~Armed(msgqueue[q][i])

LinkInv == AlarmsTypeOK /\ Linked /\ Forgotten /\ QueuedAlarms

(* A queued event is in some queue, at some place.                         *)
LEMMA QueuedIn ==
    ASSUME AlarmsTypeOK, Forgotten, NEW e
    PROVE  Queued(e) <=> \E q \in Queue : In(q, e)
<1>1. \A q \in Queue : msgqueue[q] \in Seq(Event) /\ DOMAIN msgqueue[q] = 1 .. Len(msgqueue[q])
  BY DEF AlarmsTypeOK, EventsTypeOK
<1>2. \A q \in Queue : In(q, e) => q \in events_list
  BY DEF Forgotten, In
<1> QED
  BY <1>1, <1>2 DEF Queued, Contains, In, AlarmsTypeOK, EventsTypeOK

LEMMA InitLinkInv == Init => LinkInv
<1> SUFFICES ASSUME Init PROVE LinkInv
  OBVIOUS
<1>1. \A q \in Queue : msgqueue[q] = <<>> /\ DOMAIN msgqueue[q] = {}
  BY DEF Init, EventsInit
<1> QED
  BY <1>1, InitTyped DEF LinkInv, Linked, Forgotten, QueuedAlarms

(* Queues that are emptied, or lose their first event.                     *)
LEMMA TakingKeepsLinks ==
    ASSUME LinkInv, AlarmsTypeOK', UNCHANGED alarmVars, NEW q \in Queue,
           event_init_queue(q) \/ event_done_queue(q) \/ event_get(q)
    PROVE  LinkInv'
<1>1. \A r \in Queue \ {q} : msgqueue'[r] = msgqueue[r]
  BY DEF event_init_queue, event_done_queue, event_get, LinkInv, AlarmsTypeOK, EventsTypeOK
<1>2. PICK n \in Nat : \A j \in DOMAIN msgqueue'[q] :
        j \in Nat /\ j + n \in DOMAIN msgqueue[q] /\ msgqueue'[q][j] = msgqueue[q][j + n]
  <2>1. CASE event_init_queue(q) \/ event_done_queue(q)
    <3>1. msgqueue'[q] = <<>>
      BY <2>1 DEF event_init_queue, event_done_queue, LinkInv, AlarmsTypeOK, EventsTypeOK
    <3>2. \A j \in DOMAIN msgqueue'[q] :
            j \in Nat /\ j + 0 \in DOMAIN msgqueue[q] /\ msgqueue'[q][j] = msgqueue[q][j + 0]
      BY <3>1
    <3> QED
      BY <3>2
  <2>2. CASE event_get(q)
    <3>1. msgqueue[q] \in Seq(Event) /\ msgqueue[q] # <<>> /\ msgqueue'[q] = Tail(msgqueue[q])
      BY <2>2 DEF event_get, LinkInv, AlarmsTypeOK, EventsTypeOK
    <3>2. /\ Tail(msgqueue[q]) \in Seq(Event) /\ Len(Tail(msgqueue[q])) = Len(msgqueue[q]) - 1
          /\ \A j \in 1 .. Len(Tail(msgqueue[q])) : Tail(msgqueue[q])[j] = msgqueue[q][j + 1]
      BY <3>1, HeadTailProperties
    <3>3. \A j \in DOMAIN msgqueue'[q] :
            j \in Nat /\ j + 1 \in DOMAIN msgqueue[q] /\ msgqueue'[q][j] = msgqueue[q][j + 1]
      BY <3>1, <3>2
    <3> QED
      BY <3>3
  <2> QED
    BY <2>1, <2>2
<1>3. Linked'
  <2> SUFFICES ASSUME NEW r \in Queue, NEW s \in Queue,
                      NEW i \in DOMAIN msgqueue'[r], NEW j \in DOMAIN msgqueue'[s],
                      msgqueue'[r][i] = msgqueue'[s][j]
               PROVE  r = s /\ i = j
    BY DEF Linked
  <2>1. CASE r = q /\ s = q
    BY <1>2, <2>1 DEF LinkInv, Linked
  <2>2. CASE r = q /\ s # q
    BY <1>1, <1>2, <2>2 DEF LinkInv, Linked
  <2>3. CASE r # q /\ s = q
    BY <1>1, <1>2, <2>3 DEF LinkInv, Linked
  <2>4. CASE r # q /\ s # q
    BY <1>1, <2>4 DEF LinkInv, Linked
  <2> QED
    BY <2>1, <2>2, <2>3, <2>4
<1>4. Forgotten'
  <2>1. CASE event_init_queue(q)
    BY <1>1, <2>1 DEF event_init_queue, LinkInv, Forgotten
  <2>2. CASE event_done_queue(q)
    BY <1>1, <2>2 DEF event_done_queue, LinkInv, Forgotten, AlarmsTypeOK, EventsTypeOK
  <2>3. CASE event_get(q)
    BY <1>1, <2>3 DEF event_get, LinkInv, Forgotten
  <2> QED
    BY <2>1, <2>2, <2>3
<1>5. QueuedAlarms'
  <2> SUFFICES ASSUME NEW a \in Alarm, NEW r \in Queue, NEW i \in DOMAIN msgqueue'[r],
                      msgqueue'[r][i] = a
               PROVE  a \in alarms_list' /\ ~Armed(a)'
    BY DEF QueuedAlarms, Armed
  <2>1. alarms_list' = alarms_list /\ aflags' = aflags
    BY DEF alarmVars
  <2>2. CASE r = q
    BY <1>2, <2>1, <2>2 DEF LinkInv, QueuedAlarms, Armed
  <2>3. CASE r # q
    BY <1>1, <2>1, <2>3 DEF LinkInv, QueuedAlarms, Armed
  <2> QED
    BY <2>2, <2>3
<1> QED
  BY <1>3, <1>4, <1>5 DEF LinkInv

(* An event that is in no queue is linked at the end of one.               *)
LEMMA PuttingKeepsLinks ==
    ASSUME LinkInv, AlarmsTypeOK', UNCHANGED alarmVars, NEW q \in Queue, NEW e \in Event \ Alarm,
           ~Queued(e), event_put(q, e)
    PROVE  LinkInv'
<1> DEFINE n == Len(msgqueue[q])
<1>1. \A r \in Queue \ {q} : msgqueue'[r] = msgqueue[r]
  BY DEF event_put, LinkInv, AlarmsTypeOK, EventsTypeOK
<1>2. /\ n \in Nat /\ DOMAIN msgqueue[q] = 1 .. n /\ DOMAIN msgqueue'[q] = 1 .. n + 1
      /\ \A j \in 1 .. n : msgqueue'[q][j] = msgqueue[q][j]
      /\ msgqueue'[q][n + 1] = e
  BY DEF event_put, LinkInv, AlarmsTypeOK, EventsTypeOK
<1>3. \A r \in Queue : \A i \in DOMAIN msgqueue[r] : msgqueue[r][i] # e
  BY QueuedIn DEF LinkInv, In
<1> HIDE DEF n
<1>4. Linked'
  <2> SUFFICES ASSUME NEW r \in Queue, NEW s \in Queue,
                      NEW i \in DOMAIN msgqueue'[r], NEW j \in DOMAIN msgqueue'[s],
                      msgqueue'[r][i] = msgqueue'[s][j]
               PROVE  r = s /\ i = j
    BY DEF Linked
  <2>1. CASE r = q /\ s = q
    BY <1>2, <1>3, <2>1 DEF LinkInv, Linked
  <2>2. CASE r = q /\ s # q
    BY <1>1, <1>2, <1>3, <2>2 DEF LinkInv, Linked
  <2>3. CASE r # q /\ s = q
    BY <1>1, <1>2, <1>3, <2>3 DEF LinkInv, Linked
  <2>4. CASE r # q /\ s # q
    BY <1>1, <2>4 DEF LinkInv, Linked
  <2> QED
    BY <2>1, <2>2, <2>3, <2>4
<1>5. Forgotten'
  BY <1>1 DEF event_put, LinkInv, Forgotten
<1>6. QueuedAlarms'
  <2>1. alarms_list' = alarms_list /\ aflags' = aflags
    BY DEF alarmVars
  <2> QED
    BY <1>1, <1>2, <2>1 DEF LinkInv, QueuedAlarms, Armed
<1> QED
  BY <1>4, <1>5, <1>6 DEF LinkInv

(* The calls on alarms: what is armed, or freed, is in no queue.           *)
LEMMA AlarmCallsKeepLinks ==
    ASSUME ~Hasty, LinkInv, AlarmCalls \/ CreateEnds
    PROVE  LinkInv'
<1>1. AlarmsTypeOK' /\ events_list' = events_list /\ msgqueue' = msgqueue
  BY AlarmCallsTyped DEF LinkInv, eventVars
<1>2. Linked' /\ Forgotten'
  BY <1>1 DEF LinkInv, Linked, Forgotten
<1>3. PICK a \in Alarm :
        \/ alarm_create(a) \/ alarm_set(a, TRUE) \/ alarm_set(a, FALSE)
        \/ alarm_acknowledge(a) \/ (raw = {} /\ alarm_done(a))
        \/ \E m \in AlmPeriod :
            \/ alarm_update(a, m, "RECURSIVE" \in aflags[a])
            \/ \E r \in BOOLEAN, q \in Queue : CreateFills(a, m, r, q)
  BY DEF AlarmCalls, CreateEnds
<1>4. \A b \in Alarm \ {a} : aflags'[b] = aflags[b] /\ (b \in alarms_list' <=> b \in alarms_list)
  BY <1>3 DEF alarm_set, alarm_acknowledge, alarm_done, alarm_update, alarm_create, CreateFills,
              LinkInv, AlarmsTypeOK
<1>5. (\E q \in Queue : In(q, a)) => a \in alarms_list' /\ ~Armed(a)'
  <2> SUFFICES ASSUME Queued(a) PROVE a \in alarms_list' /\ ~Armed(a)'
    BY QueuedIn DEF LinkInv
  <2>1. a \in alarms_list /\ ~Armed(a)
    BY QueuedIn DEF LinkInv, QueuedAlarms, In
  <2>2. ~Settled(a)
    BY DEF Settled
  <2>3. CASE alarm_set(a, FALSE)
    BY <2>1, <2>3 DEF alarm_set, Armed, LinkInv, AlarmsTypeOK
  <2>4. ASSUME NEW m \in AlmPeriod, alarm_update(a, m, "RECURSIVE" \in aflags[a])
        PROVE  a \in alarms_list' /\ ~Armed(a)'
    BY <2>1, <2>4 DEF alarm_update, Armed, LinkInv, AlarmsTypeOK
  <2>5. ~(alarm_set(a, TRUE) \/ alarm_acknowledge(a) \/ alarm_done(a))
    BY <2>2 DEF alarm_set, alarm_acknowledge, alarm_done
  <2>6. ~alarm_create(a)
    BY <2>1 DEF alarm_create
  <2>7. ASSUME NEW m \in AlmPeriod, NEW r \in BOOLEAN, NEW q \in Queue, CreateFills(a, m, r, q)
        PROVE  a \in alarms_list' /\ ~Armed(a)'
    BY <2>1, <2>7 DEF CreateFills, Armed, LinkInv, AlarmsTypeOK
  <2> QED
    BY <1>3, <2>3, <2>4, <2>5, <2>6, <2>7
<1>6. QueuedAlarms'
  BY <1>1, <1>4, <1>5 DEF LinkInv, QueuedAlarms, Armed, In
<1> QED
  BY <1>1, <1>2, <1>6 DEF LinkInv

(* The clock interrupt links alarms that are armed, hence in no queue.     *)
LEMMA SendingKeepsLinks ==
    ASSUME IsFiniteSet(Alarm), LinkInv, alarm_cb
    PROVE  LinkInv'
<1> DEFINE A == Sends(now')
           Sent(q) == SentTo(q, A)
<1>1. A \subseteq Alarm /\ A \subseteq alarms_list /\ \A a \in A : Armed(a)
  BY DEF Sends, Armed, LinkInv, AlarmsTypeOK
<1>2. \A a \in A, q \in Queue : ~In(q, a)
  BY <1>1 DEF LinkInv, QueuedAlarms, In
<1>3. ASSUME NEW q \in Queue
      PROVE  /\ msgqueue[q] \in Seq(Event) /\ Sent(q) \in Seq(Event)
             /\ msgqueue'[q] = msgqueue[q] \o Sent(q)
             /\ \A j \in DOMAIN Sent(q) : Sent(q)[j] \in A /\ notify[Sent(q)[j]] = q
             /\ \A j, k \in DOMAIN Sent(q) : Sent(q)[j] = Sent(q)[k] => j = k
  BY QueuesAfterSending DEF LinkInv
<1>4. \A a \in Alarm : /\ a \in A => ~Armed(a)'
                       /\ a \notin A => aflags'[a] = aflags[a]
  BY DEF alarm_cb, Armed
<1>5. /\ events_list' = events_list /\ alarms_list' = alarms_list
      /\ \A a \in A : notify[a] \in events_list
  BY DEF alarm_cb
<1>6. AlarmsTypeOK'
  BY AlarmCbTyped DEF LinkInv
<1> HIDE DEF A, Sent
(* Where the events of a queue come from.                                  *)
<1>7. ASSUME NEW q \in Queue, NEW i \in DOMAIN msgqueue'[q]
      PROVE  \/ i \in DOMAIN msgqueue[q] /\ msgqueue'[q][i] = msgqueue[q][i]
             \/ /\ i \in Nat /\ i - Len(msgqueue[q]) \in DOMAIN Sent(q)
                /\ msgqueue'[q][i] = Sent(q)[i - Len(msgqueue[q])]
                /\ msgqueue'[q][i] \in A /\ notify[msgqueue'[q][i]] = q
  <2>1. /\ msgqueue'[q] \in Seq(Event)
        /\ Len(msgqueue'[q]) = Len(msgqueue[q]) + Len(Sent(q))
        /\ \A k \in 1 .. Len(msgqueue[q]) + Len(Sent(q)) : msgqueue'[q][k] =
              IF k <= Len(msgqueue[q]) THEN msgqueue[q][k] ELSE Sent(q)[k - Len(msgqueue[q])]
    <3>1. /\ msgqueue[q] \in Seq(Event) /\ Sent(q) \in Seq(Event)
          /\ msgqueue'[q] = msgqueue[q] \o Sent(q)
      BY <1>3
    <3> QED
      BY <3>1, ConcatProperties
  <2>2. /\ i \in 1 .. Len(msgqueue[q]) + Len(Sent(q))
        /\ Len(msgqueue[q]) \in Nat /\ Len(Sent(q)) \in Nat
    BY <1>3, <2>1
  <2>3. CASE i <= Len(msgqueue[q])
    BY <1>3, <2>1, <2>2, <2>3
  <2>4. CASE ~(i <= Len(msgqueue[q]))
    <3>1. i - Len(msgqueue[q]) \in DOMAIN Sent(q)
      BY <1>3, <2>2, <2>4
    <3> QED
      BY <1>3, <2>1, <2>2, <2>4, <3>1
  <2> QED
    BY <2>3, <2>4
<1>8. Linked'
  <2> SUFFICES ASSUME NEW r \in Queue, NEW s \in Queue,
                      NEW i \in DOMAIN msgqueue'[r], NEW j \in DOMAIN msgqueue'[s],
                      msgqueue'[r][i] = msgqueue'[s][j]
               PROVE  r = s /\ i = j
    BY DEF Linked
  <2>1. CASE i \in DOMAIN msgqueue[r] /\ msgqueue'[r][i] = msgqueue[r][i]
    <3>1. msgqueue'[s][j] \notin A
      BY <1>2, <2>1 DEF In
    <3>2. j \in DOMAIN msgqueue[s] /\ msgqueue'[s][j] = msgqueue[s][j]
      BY <1>7, <3>1
    <3>3. msgqueue[r][i] = msgqueue[s][j]
      BY <2>1, <3>2
    <3> QED
      BY <2>1, <3>2, <3>3 DEF LinkInv, Linked
  <2>2. CASE /\ i \in Nat /\ i - Len(msgqueue[r]) \in DOMAIN Sent(r)
             /\ msgqueue'[r][i] = Sent(r)[i - Len(msgqueue[r])]
             /\ msgqueue'[r][i] \in A /\ notify[msgqueue'[r][i]] = r
    <3>1. ~(j \in DOMAIN msgqueue[s] /\ msgqueue'[s][j] = msgqueue[s][j])
      BY <1>2, <2>2 DEF In
    <3>2. /\ j \in Nat /\ j - Len(msgqueue[s]) \in DOMAIN Sent(s)
          /\ msgqueue'[s][j] = Sent(s)[j - Len(msgqueue[s])]
          /\ notify[msgqueue'[s][j]] = s
      BY <1>7, <3>1
    <3>3. r = s
      BY <2>2, <3>2
    <3>4. i - Len(msgqueue[r]) = j - Len(msgqueue[r])
      <4>1. \A k, l \in DOMAIN Sent(r) : Sent(r)[k] = Sent(r)[l] => k = l
        BY <1>3
      <4> QED
        BY <2>2, <3>2, <3>3, <4>1
    <3>5. Len(msgqueue[r]) \in Nat
      BY <1>3
    <3> QED
      BY <2>2, <3>2, <3>3, <3>4, <3>5
  <2> QED
    BY <1>7, <2>1, <2>2
<1>9. Forgotten'
  <2> SUFFICES ASSUME NEW q \in Queue \ events_list PROVE msgqueue'[q] = <<>>
    BY <1>5 DEF Forgotten
  <2>1. msgqueue[q] = <<>> /\ DOMAIN msgqueue[q] = {}
    BY DEF LinkInv, Forgotten
  <2>2. \A i \in DOMAIN msgqueue'[q] : FALSE
    BY <1>5, <1>7, <2>1
  <2>3. msgqueue'[q] \in Seq(Event)
    BY <1>6 DEF AlarmsTypeOK, EventsTypeOK
  <2>4. 1 \notin DOMAIN msgqueue'[q]
    BY <2>2
  <2> QED
    BY <2>3, <2>4, EmptySeq
<1>10. QueuedAlarms'
  <2> SUFFICES ASSUME NEW a \in Alarm, NEW r \in Queue, NEW i \in DOMAIN msgqueue'[r],
                      msgqueue'[r][i] = a
               PROVE  a \in alarms_list' /\ ~Armed(a)'
    BY DEF QueuedAlarms, Armed
  <2>1. CASE a \in A
    BY <1>1, <1>4, <1>5, <2>1 DEF Armed
  <2>2. CASE a \notin A
    BY <1>4, <1>5, <1>7, <2>2 DEF LinkInv, QueuedAlarms, Armed
  <2> QED
    BY <2>1, <2>2
<1> QED
  BY <1>6, <1>8, <1>9, <1>10 DEF LinkInv

(* The other steps do not touch the queues.                                *)
LEMMA NextLinkInv ==
    ASSUME ~Hasty, IsFiniteSet(Alarm), LinkInv, [Next]_vars
    PROVE  LinkInv'
<1>1. AlarmsTypeOK'
  BY NextTyped DEF LinkInv
<1>2. ASSUME UNCHANGED <<msgqueue, events_list, alarmVars>> PROVE LinkInv'
  BY <1>1, <1>2 DEF alarmVars, LinkInv, Linked, Forgotten, QueuedAlarms, Armed
<1>3. CASE EventSteps
  <2>1. UNCHANGED alarmVars
    BY <1>3 DEF EventSteps
  <2>2. CASE Puts
    BY <1>1, <2>1, <2>2, PuttingKeepsLinks DEF Puts
  <2>3. CASE SchedulerPass
    <3>1. UNCHANGED <<msgqueue, events_list>>
      BY <2>3 DEF SchedulerPass, ResumeWatcher, IdleSuspends, Expires, Runs, Dies, eventVars
    <3> QED
      BY <1>2, <2>1, <3>1
  <2>4. ASSUME NEW t \in Thread, Calls(t) PROVE LinkInv'
    <3>1. ASSUME NEW q \in Queue,
                 event_init_queue(q) \/ event_done_queue(q) \/ event_get(q)
          PROVE  LinkInv'
      BY <1>1, <2>1, <3>1, TakingKeepsLinks
    <3>2. ASSUME \/ Suspends
                 \/ \E q \in Queue : event_watch_queue(t, q) \/ WaitChecks(t, q)
                 \/ \E u \in Thread : KillWatcher(u) \/ Restarts(u)
          PROVE  LinkInv'
      <4>1. UNCHANGED <<msgqueue, events_list>>
        BY <3>2 DEF Suspends, event_watch_queue, WaitChecks, KillWatcher, Restarts
      <4> QED
        BY <1>2, <2>1, <4>1
    <3> QED
      BY <2>4, <3>1, <3>2 DEF Calls
  <2>5. CASE \/ \E t \in Thread : WaitReturns(t)
             \/ \E t \in Thread, m \in EvTimeouts : WaitSleeps(t, m)
    <3>1. UNCHANGED <<msgqueue, events_list>>
      BY <2>5 DEF WaitReturns, WaitSleeps
    <3> QED
      BY <1>2, <2>1, <3>1
  <2> QED
    BY <1>3, <2>2, <2>3, <2>4, <2>5 DEF EventSteps
<1>4. CASE AlarmCalls \/ CreateEnds
  BY <1>4, AlarmCallsKeepLinks
<1>5. CASE alarm_cb
  BY <1>5, SendingKeepsLinks
<1>6. CASE UNCHANGED vars
  BY <1>2, <1>6 DEF vars, eventVars, alarmVars
<1> QED
  BY <1>3, <1>4, <1>5, <1>6 DEF Next

(* One place at most is what EventOnce counts.                             *)
LEMMA LinkedOnce == ASSUME LinkInv PROVE EventOnce
<1> SUFFICES ASSUME NEW e \in Event
             PROVE  /\ Cardinality({p \in Queue \X (1 .. Capacity + Cardinality(Alarm)) :
                                p[2] \in DOMAIN msgqueue[p[1]] /\ msgqueue[p[1]][p[2]] = e}) <= 1
                    /\ e \in Alarm /\ Queued(e) => e \in alarms_list
  BY DEF EventOnce
<1>1. e \in Alarm /\ Queued(e) => e \in alarms_list
  BY QueuedIn DEF LinkInv, QueuedAlarms, In
<1> DEFINE N == 1 .. Capacity + Cardinality(Alarm)
           P == {p \in Queue \X N : p[2] \in DOMAIN msgqueue[p[1]] /\ msgqueue[p[1]][p[2]] = e}
<1> HIDE DEF N
<1>2. \A x, y \in P : x = y
  <2> SUFFICES ASSUME NEW x \in P, NEW y \in P PROVE x = y
    OBVIOUS
  <2>1. /\ x \in Queue \X N /\ x[1] \in Queue /\ x = <<x[1], x[2]>>
        /\ y \in Queue \X N /\ y[1] \in Queue /\ y = <<y[1], y[2]>>
    OBVIOUS
  <2>2. x[1] = y[1] /\ x[2] = y[2]
    BY <2>1 DEF LinkInv, Linked
  <2> QED
    BY <2>1, <2>2
<1> HIDE DEF P
<1>3. P = {} \/ \E x : P = {x}
  BY <1>2
<1>4. Cardinality(P) <= 1
  <2>1. CASE P = {}
    BY <2>1, FS_EmptySet
  <2>2. CASE \E x : P = {x}
    <3>1. PICK x : P = {x}
      BY <2>2
    <3>2. Cardinality({x}) = 1
      BY FS_Singleton
    <3> QED
      BY <3>1, <3>2
  <2> QED
    BY <1>3, <2>1, <2>2
<1> QED
  BY <1>1, <1>4 DEF P, N

(***************************************************************************)
(* A thread that sleeps for events is marked.                              *)
(***************************************************************************)

(* One thread runs, and it is not doomed; a thread sleeps for events,      *)
(* with or without a timeout, unless it was killed, in which case it waits *)
(* for nothing until it is buried.                                         *)
ThreadsKnown ==
    /\ \A t \in Thread : status[t] = "RUNNING" <=> current = t
    /\ \A t \in doomed : status[t] \in {"WAITING", "DEAD"} /\ waits[t] = {}
    /\ \A t \in Thread \ doomed : status[t] = "WAITING" =>
            waits[t] = {"EVENT"} \cup (IF t \in untimed THEN {} ELSE {"TIMEOUT"})

(* Between the test of the queue and the sleep, the caller has the         *)
(* processor and the queue is still there and still its own.               *)
CheckedRuns ==
    \A t \in checked :
        current = t /\ waitsOn[t] \in events_list /\ threadid[waitsOn[t]] = t

SleepInv == AlarmsTypeOK /\ ThreadsKnown /\ CheckedRuns /\ SleeperMarked

LEMMA InitSleepInv == Init => SleepInv
BY InitTyped, NoThreadAssumption
   DEF Init, EventsInit, ThreadsInit, SleepInv, ThreadsKnown, CheckedRuns, SleeperMarked,
       AlarmsTypeOK, EventsTypeOK, ThreadsTypeOK

(* A thread without a call open uses the queues, or kills and restarts     *)
(* others.                                                                 *)
LEMMA CallsKeepSleepers ==
    ASSUME SleepInv, AlarmsTypeOK', NEW t \in Thread, Calls(t)
    PROVE  SleepInv'
<1> USE NoThreadAssumption, QueueAssumption DEF SleepInv, AlarmsTypeOK, EventsTypeOK, ThreadsTypeOK
<1>0. current = t /\ waitsOn[t] = NoQueue /\ checked = {} /\ status[t] = "RUNNING"
  BY DEF Calls, InApp, CheckedRuns, ThreadsKnown
<1>1. CASE Suspends
  <2>1. checked' = {} /\ ThreadsKnown'
    BY <1>0, <1>1 DEF Suspends, Yield, ThreadsKnown
  <2>2. SleeperMarked'
    BY <1>0, <1>1 DEF Suspends, Yield, SleeperMarked
  <2> QED
    BY <2>1, <2>2 DEF CheckedRuns
<1>2. ASSUME NEW q \in Queue,
             \/ event_init_queue(q) \/ event_watch_queue(t, q) \/ event_get(q)
             \/ WaitChecks(t, q)
             \/ (\A u \in Thread : waitsOn[u] # q) /\ event_done_queue(q)
      PROVE  SleepInv'
  <2>1. ThreadsKnown'
    BY <1>2 DEF event_init_queue, event_watch_queue, event_get, WaitChecks, event_done_queue,
                threadsVars, ThreadsKnown
  <2>2. CheckedRuns'
    BY <1>0, <1>2 DEF event_init_queue, event_watch_queue, event_get, WaitChecks,
                event_done_queue, threadsVars, CheckedRuns
  <2>3. SleeperMarked'
    <3>1. CASE event_init_queue(q)
      BY <3>1 DEF event_init_queue, threadsVars, SleeperMarked
    <3>2. CASE event_watch_queue(t, q)
      BY <3>2 DEF event_watch_queue, threadsVars, SleeperMarked
    <3>3. CASE event_get(q)
      BY <3>3 DEF event_get, threadsVars, SleeperMarked
    <3>4. CASE WaitChecks(t, q)
      BY <1>0, <3>4 DEF WaitChecks, threadsVars, SleeperMarked
    <3>5. CASE (\A u \in Thread : waitsOn[u] # q) /\ event_done_queue(q)
      BY <3>5 DEF event_done_queue, threadsVars, SleeperMarked
    <3> QED
      BY <1>2, <3>1, <3>2, <3>3, <3>4, <3>5
  <2> QED
    BY <2>1, <2>2, <2>3
<1>3. ASSUME NEW u \in Thread, status[u] = "WAITING", waits[u] = {"EVENT"}, KillWatcher(u)
      PROVE  SleepInv'
  <2>1. /\ waits' = [waits EXCEPT ![u] = {}] /\ status' = status
        /\ doomed' = doomed \cup {u} /\ current' = current
    BY <1>3 DEF KillWatcher, Kill
  <2>2. /\ \A q \in Queue : threadid'[q] = threadid[q] \/ threadid[q] = u
        /\ UNCHANGED <<events_list, bits, waitsOn, checked, untimed>>
    BY <1>3 DEF KillWatcher, cancel_wait_for_events
  <2>3. ThreadsKnown'
    BY <1>3, <2>1, <2>2 DEF ThreadsKnown
  <2>4. SleeperMarked'
    BY <2>1, <2>2 DEF SleeperMarked
  <2> QED
    BY <1>0, <2>2, <2>3, <2>4 DEF CheckedRuns
<1>4. ASSUME NEW u \in Thread, Restarts(u) PROVE SleepInv'
  <2>1. ThreadsKnown'
    BY <1>4 DEF Restarts, Create, ThreadsKnown
  <2>2. SleeperMarked'
    BY <1>4 DEF Restarts, Create, SleeperMarked
  <2> QED
    BY <1>0, <1>4, <2>1, <2>2 DEF Restarts, CheckedRuns
<1> QED
  BY <1>1, <1>2, <1>3, <1>4 DEF Calls

(* The scheduler wakes, buries and chooses threads.                        *)
LEMMA PassKeepsSleepers ==
    ASSUME SleepInv, AlarmsTypeOK', SchedulerPass
    PROVE  SleepInv'
<1> USE NoThreadAssumption DEF SleepInv, AlarmsTypeOK, EventsTypeOK, ThreadsTypeOK
<1>1. ASSUME NEW q \in Queue, ResumeWatcher(q) PROVE SleepInv'
  <2>1. CASE q \in events_list /\ Resumes(q)
    <3> DEFINE w == threadid[q]
               R == status[w] = "WAITING" /\ "EVENT" \in waits[w]
    <3>1. w \in Thread /\ bits' = bits \ {w}
      BY <1>1, <2>1 DEF ResumeWatcher, Resumes
    <3>2. /\ status' = [t \in Thread |-> IF t = w /\ R THEN "READY" ELSE status[t]]
          /\ waits' = [t \in Thread |-> IF t = w /\ R THEN {} ELSE waits[t]]
          /\ UNCHANGED <<current, doomed, events_list, threadid, waitsOn, checked, untimed>>
      BY <1>1, <2>1 DEF ResumeWatcher, Wake, Resumable
    <3> HIDE DEF w
    <3>3. ThreadsKnown'
      BY <3>1, <3>2 DEF ThreadsKnown
    <3>4. SleeperMarked'
      BY <3>1, <3>2 DEF SleeperMarked
    <3> QED
      BY <3>2, <3>3, <3>4 DEF CheckedRuns
  <2>2. CASE ~(q \in events_list /\ Resumes(q))
    BY <1>1, <2>2 DEF ResumeWatcher, threadsVars, ThreadsKnown, CheckedRuns, SleeperMarked
  <2> QED
    BY <2>1, <2>2
<1>2. CASE IdleSuspends
  BY <1>2 DEF IdleSuspends, threadsVars, ThreadsKnown, CheckedRuns, SleeperMarked
<1>3. ASSUME NEW t \in Thread, Expires(t) \/ Dies(t) PROVE SleepInv'
  <2>1. UNCHANGED <<current, eventVars>> /\ \A u \in Thread \ {t} :
            status'[u] = status[u] /\ waits'[u] = waits[u] /\ (u \in doomed' <=> u \in doomed)
    BY <1>3 DEF Expires, Dies, Timeout, Bury, Reap
  <2>2. status[t] # "RUNNING" /\ status'[t] \in {"READY", "DEAD", "NONE"}
    BY <1>3 DEF Expires, Dies, Timeout, Bury, Reap
  <2>3. t \in doomed' => status'[t] = "DEAD" /\ waits'[t] = {}
    BY <1>3 DEF Expires, Dies, Timeout, Bury, Reap, ThreadsKnown
  <2>4. ThreadsKnown'
    BY <2>1, <2>2, <2>3 DEF ThreadsKnown, eventVars
  <2>5. SleeperMarked'
    BY <2>1, <2>2 DEF SleeperMarked, eventVars
  <2> QED
    BY <2>1, <2>4, <2>5 DEF CheckedRuns, eventVars
<1>4. ASSUME NEW t \in Thread, Runs(t) PROVE SleepInv'
  <2>1. checked = {}
    BY <1>4 DEF Runs, Dispatch, CheckedRuns
  <2>2. ThreadsKnown'
    BY <1>4 DEF Runs, Dispatch, ThreadsKnown, eventVars
  <2>3. SleeperMarked'
    BY <1>4 DEF Runs, Dispatch, SleeperMarked, eventVars
  <2> QED
    BY <1>4, <2>1, <2>2, <2>3 DEF Runs, CheckedRuns, eventVars
<1> QED
  BY <1>1, <1>2, <1>3, <1>4 DEF SchedulerPass

(* The mark is set when the thread goes to sleep.                          *)
LEMMA WaitKeepsSleepers ==
    ASSUME SleepInv, AlarmsTypeOK', NEW t \in Thread,
           WaitReturns(t) \/ \E m \in EvTimeouts : WaitSleeps(t, m)
    PROVE  SleepInv'
<1> USE NoThreadAssumption DEF SleepInv, AlarmsTypeOK, EventsTypeOK, ThreadsTypeOK
<1>1. CASE WaitReturns(t)
  <2>1. status[t] = "RUNNING" /\ t \notin checked
    BY <1>1 DEF WaitReturns, ThreadsKnown
  <2>2. /\ UNCHANGED <<threadsVars, events_list, threadid, bits, checked, untimed>>
        /\ waitsOn' = [waitsOn EXCEPT ![t] = NoQueue]
    BY <1>1 DEF WaitReturns
  <2> QED
    BY <2>1, <2>2 DEF threadsVars, ThreadsKnown, CheckedRuns, SleeperMarked
<1>2. ASSUME NEW m \in EvTimeouts, WaitSleeps(t, m) PROVE SleepInv'
  <2>1. /\ current = t /\ t \in checked /\ current' = NoThread /\ doomed' = doomed
        /\ status' = [status EXCEPT ![t] = "WAITING"]
        /\ waits' = [waits EXCEPT ![t] = {"EVENT"} \cup (IF m = 0 THEN {} ELSE {"TIMEOUT"})]
        /\ untimed' = IF m = 0 THEN untimed \cup {t} ELSE untimed \ {t}
        /\ bits' = bits \cup {t} /\ checked' = checked \ {t}
        /\ UNCHANGED <<events_list, threadid, waitsOn>>
    BY <1>2 DEF WaitSleeps, Block, Mark
  <2>2. checked' = {} /\ t \notin doomed
    <3>1. \A u \in checked : u = t
      BY <2>1 DEF CheckedRuns
    <3>2. status[t] = "RUNNING"
      BY <2>1 DEF ThreadsKnown
    <3>3. t \notin doomed
      BY <3>2 DEF ThreadsKnown
    <3> QED
      BY <2>1, <3>1, <3>3
  <2>3. ThreadsKnown'
    BY <2>1, <2>2 DEF ThreadsKnown
  <2>4. SleeperMarked'
    BY <2>1 DEF SleeperMarked, CheckedRuns
  <2> QED
    BY <2>2, <2>3, <2>4 DEF CheckedRuns
<1> QED
  BY <1>1, <1>2

(* What leaves threads and watchers alone.                                 *)
LEMMA QuietKeepsSleepers ==
    ASSUME SleepInv, AlarmsTypeOK',
           UNCHANGED <<current, status, waits, doomed, events_list, threadid, bits, waitsOn,
                       checked, untimed>>
    PROVE  SleepInv'
BY DEF SleepInv, ThreadsKnown, CheckedRuns, SleeperMarked

LEMMA NextSleepInv ==
    ASSUME IsFiniteSet(Alarm), SleepInv, [Next]_vars
    PROVE  SleepInv'
<1>1. AlarmsTypeOK'
  BY NextTyped DEF SleepInv
<1>2. CASE EventSteps
  <2>1. CASE Puts
    BY <1>1, <2>1, QuietKeepsSleepers DEF Puts, event_put, threadsVars
  <2> QED
    BY <1>1, <1>2, <2>1, CallsKeepSleepers, PassKeepsSleepers, WaitKeepsSleepers DEF EventSteps
<1>3. CASE AlarmCalls \/ CreateEnds
  <2>1. UNCHANGED <<threadsVars, eventVars>>
    BY <1>3, AlarmCallsTyped DEF SleepInv
  <2> QED
    BY <1>1, <2>1, QuietKeepsSleepers DEF threadsVars, eventVars
<1>4. CASE alarm_cb
  BY <1>1, <1>4, QuietKeepsSleepers DEF alarm_cb, Tick
<1>5. CASE UNCHANGED vars
  BY <1>1, <1>5, QuietKeepsSleepers DEF vars, threadsVars, eventVars
<1> QED
  BY <1>2, <1>3, <1>4, <1>5 DEF Next

(* The marks of events.c and alarms.c hold for any number of threads,      *)
(* queues and alarms: an event is linked once, in one queue, its alarm is  *)
(* not freed meanwhile, and a thread that sleeps for events is marked and  *)
(* named by the queue it sleeps for, also when others are killed and their *)
(* slots used again.                                                       *)
THEOREM EventsAreSound ==
    ASSUME ~Hasty, IsFiniteSet(Alarm)
    PROVE  Spec => []EventsSound
<1>1. Init => LinkInv /\ SleepInv
  BY InitLinkInv, InitSleepInv
<1>2. LinkInv /\ SleepInv /\ [Next]_vars => LinkInv' /\ SleepInv'
  BY NextLinkInv, NextSleepInv
<1>3. LinkInv /\ SleepInv => EventsSound
  BY LinkedOnce DEF LinkInv, SleepInv, EventsSound
<1> QED
  BY <1>1, <1>2, <1>3, PTL DEF Spec

(***************************************************************************)
(* An alarm does not send before its time.                                 *)
(***************************************************************************)

(* The clock interrupt compares with the time the user was promised: the   *)
(* expiration of an alarm that has been set, whether it has sent its event *)
(* or not, is the end of the interval it is in; an armed one owes an       *)
(* event.  Nothing is known of an alarm that is not filled in.             *)
TimeInv ==
    /\ AlarmsTypeOK
    /\ \A a \in alarms_list \ raw :
            /\ "TRIGGERED" \in aflags[a] => due[a] = expiration[a]
            /\ Armed(a) => a \in owed

LEMMA InitTimeInv == Init => TimeInv
BY InitTyped DEF Init, TimeInv

LEMMA NextTimeInv ==
    ASSUME IsFiniteSet(Alarm), TimeInv, [Next]_vars
    PROVE  TimeInv'
<1>1. AlarmsTypeOK'
  BY NextTyped DEF TimeInv
<1>2. CASE EventSteps \/ UNCHANGED vars
  BY <1>1, <1>2 DEF EventSteps, vars, alarmVars, TimeInv, Armed
<1>3. CASE AlarmCalls \/ CreateEnds
  <2> USE DEF TimeInv, AlarmsTypeOK, Armed
  <2>1. ASSUME NEW a \in Alarm, alarm_set(a, TRUE) \/ alarm_set(a, FALSE) PROVE TimeInv'
    <3>1. now \in Nat /\ amsecs[a] \in Nat
      BY AlarmsAssumption DEF EventsTypeOK, ThreadsTypeOK
    <3> QED
      BY <1>1, <2>1, <3>1 DEF alarm_set
  <2>2. ASSUME NEW a \in Alarm, alarm_acknowledge(a) \/ alarm_done(a) PROVE TimeInv'
    BY <1>1, <2>2 DEF alarm_acknowledge, alarm_done, Acknowledged, AlarmFlag, Rearmed
  <2>3. ASSUME NEW a \in Alarm, NEW m \in AlmPeriod,
               alarm_update(a, m, "RECURSIVE" \in aflags[a])
        PROVE  TimeInv'
    BY <1>1, <2>3 DEF alarm_update
  <2>4. ASSUME NEW a \in Alarm, alarm_create(a) PROVE TimeInv'
    BY <1>1, <2>4 DEF alarm_create
  <2>5. ASSUME NEW a \in Alarm, NEW m \in AlmPeriod, NEW r \in BOOLEAN, NEW q \in Queue,
               CreateFills(a, m, r, q)
        PROVE  TimeInv'
    BY <1>1, <2>5 DEF CreateFills
  <2> QED
    BY <1>3, <2>1, <2>2, <2>3, <2>4, <2>5 DEF AlarmCalls, CreateEnds
<1>4. CASE alarm_cb
  BY <1>1, <1>4 DEF alarm_cb, TimeInv, AlarmsTypeOK, Armed
<1> QED
  BY <1>2, <1>3, <1>4 DEF Next

(* Only the clock interrupt links the event of an alarm.                   *)
LEMMA OnlyClockSends ==
    ASSUME AlarmsTypeOK, NEW a \in Alarm, Queued(a)',
           EventSteps \/ AlarmCalls \/ CreateEnds \/ UNCHANGED vars
    PROVE  Queued(a)
<1>1. ASSUME UNCHANGED <<events_list, msgqueue>> PROVE Queued(a)
  BY <1>1 DEF Queued
<1>2. CASE AlarmCalls \/ CreateEnds \/ UNCHANGED vars
  <2>1. UNCHANGED eventVars
    BY <1>2, AlarmCallsTyped DEF vars
  <2> QED
    BY <1>1, <2>1 DEF eventVars
<1>3. CASE SchedulerPass
  BY <1>1, <1>3 DEF SchedulerPass, ResumeWatcher, IdleSuspends, Expires, Runs, Dies, eventVars
<1>4. CASE Puts
  <2>1. PICK q \in Queue, e \in Event \ Alarm : event_put(q, e)
    BY <1>4 DEF Puts
  <2>2. PICK r \in events_list : \E i \in 1 .. Len(msgqueue'[r]) : msgqueue'[r][i] = a
    BY <2>1 DEF Queued, Contains, event_put
  <2>3. CASE r # q
    BY <2>1, <2>2, <2>3 DEF event_put, Queued, Contains, AlarmsTypeOK, EventsTypeOK
  <2>4. CASE r = q
    <3>1. msgqueue[q] \in Seq(Event) /\ msgqueue'[q] = Append(msgqueue[q], e)
      BY <2>1 DEF event_put, AlarmsTypeOK, EventsTypeOK
    <3>2. \E i \in 1 .. Len(msgqueue[q]) : msgqueue[q][i] = a
      BY <2>2, <2>4, <3>1
    <3> QED
      BY <2>2, <2>4, <3>2 DEF Queued, Contains
  <2> QED
    BY <2>3, <2>4
<1>5. ASSUME NEW t \in Thread, Calls(t) PROVE Queued(a)
  <2>1. ASSUME NEW q \in Queue, event_init_queue(q) \/ event_done_queue(q) PROVE Queued(a)
    <3>1. PICK r \in events_list' : \E i \in 1 .. Len(msgqueue'[r]) : msgqueue'[r][i] = a
      BY DEF Queued, Contains
    <3>2. r \in Queue /\ r # q
      BY <2>1, <3>1 DEF event_init_queue, event_done_queue, AlarmsTypeOK, EventsTypeOK
    <3> QED
      BY <2>1, <3>1, <3>2 DEF event_init_queue, event_done_queue, Queued, Contains,
                              AlarmsTypeOK, EventsTypeOK
  <2>2. ASSUME NEW q \in Queue, event_get(q) PROVE Queued(a)
    <3>1. PICK r \in events_list : \E i \in 1 .. Len(msgqueue'[r]) : msgqueue'[r][i] = a
      BY <2>2 DEF Queued, Contains, event_get
    <3>2. CASE r # q
      BY <2>2, <3>1, <3>2 DEF event_get, Queued, Contains, AlarmsTypeOK, EventsTypeOK
    <3>3. CASE r = q
      <4>1. /\ msgqueue[q] \in Seq(Event) /\ msgqueue[q] # <<>>
            /\ msgqueue'[q] = Tail(msgqueue[q])
        BY <2>2 DEF event_get, AlarmsTypeOK, EventsTypeOK
      <4>2. \E i \in 1 .. Len(msgqueue[q]) : msgqueue[q][i] = a
        BY <3>1, <3>3, <4>1, HeadTailProperties
      <4> QED
        BY <3>1, <3>3, <4>2 DEF Queued, Contains
    <3> QED
      BY <3>2, <3>3
  <2>3. ASSUME \/ Suspends
               \/ \E q \in Queue : event_watch_queue(t, q) \/ WaitChecks(t, q)
               \/ \E u \in Thread : KillWatcher(u) \/ Restarts(u)
        PROVE  Queued(a)
    BY <1>1, <2>3 DEF Suspends, event_watch_queue, WaitChecks, KillWatcher, Restarts
  <2> QED
    BY <1>5, <2>1, <2>2, <2>3 DEF Calls
<1>6. CASE \/ \E t \in Thread : WaitReturns(t)
           \/ \E t \in Thread, m \in EvTimeouts : WaitSleeps(t, m)
  BY <1>1, <1>6 DEF WaitReturns, WaitSleeps
<1> QED
  BY <1>2, <1>3, <1>4, <1>5, <1>6 DEF EventSteps

(* An alarm sends an event when it owes one and the time its user was      *)
(* promised has come, however often it is started, stopped, changed or     *)
(* acknowledged, also by a hasty user: alarm_acknowledge moves the         *)
(* expiration in step with the intervals the user counts.  The clock       *)
(* interrupt does not cut into alarm_create (~CreateCut).                  *)
THEOREM AlarmsSendInTime ==
    ASSUME ~CreateCut, IsFiniteSet(Alarm)
    PROVE  Spec => SentInTime
<1>1. Init => TimeInv
  BY InitTimeInv
<1>2. TimeInv /\ [Next]_vars => TimeInv'
  BY NextTimeInv
<1>3. TimeInv /\ [Next]_vars =>
        [\A a \in Alarm : a \in alarms_list /\ Queued(a)' /\ ~Queued(a) =>
                a \in owed /\ due[a] <= now']_vars
  <2> SUFFICES ASSUME TimeInv, [Next]_vars,
                      NEW a \in Alarm, a \in alarms_list, Queued(a)', ~Queued(a)
               PROVE  a \in owed /\ due[a] <= now'
    OBVIOUS
  <2>1. alarm_cb
    BY OnlyClockSends DEF TimeInv, Next
  <2>2. events_list' = events_list /\ events_list \subseteq Queue
    BY <2>1 DEF alarm_cb, TimeInv, AlarmsTypeOK, EventsTypeOK
  <2>7. PICK q \in events_list : \E i \in 1 .. Len(msgqueue'[q]) : msgqueue'[q][i] = a
    BY <2>2 DEF Queued, Contains
  <2>3. PICK i \in 1 .. Len(msgqueue'[q]) : msgqueue'[q][i] = a
    BY <2>7
  <2>4. a \in Sends(now')
    <3> DEFINE s == SentTo(q, Sends(now'))
    <3>1. /\ msgqueue[q] \in Seq(Event) /\ s \in Seq(Event) /\ msgqueue'[q] = msgqueue[q] \o s
          /\ \A j \in DOMAIN s : s[j] \in Sends(now')
      BY <2>1, <2>2, QueuesAfterSending DEF TimeInv
    <3>2. \A j \in 1 .. Len(msgqueue[q]) : msgqueue[q][j] # a
      BY DEF Queued, Contains
    <3> HIDE DEF s
    <3>3. /\ Len(msgqueue'[q]) = Len(msgqueue[q]) + Len(s)
          /\ \A k \in 1 .. Len(msgqueue[q]) + Len(s) : msgqueue'[q][k] =
                IF k <= Len(msgqueue[q]) THEN msgqueue[q][k] ELSE s[k - Len(msgqueue[q])]
      BY <3>1, ConcatProperties
    <3>4. Len(msgqueue[q]) \in Nat /\ Len(s) \in Nat /\ DOMAIN s = 1 .. Len(s)
      BY <3>1
    <3>5. ~(i <= Len(msgqueue[q]))
      BY <2>3, <3>2, <3>3, <3>4
    <3>6. i - Len(msgqueue[q]) \in DOMAIN s /\ s[i - Len(msgqueue[q])] = a
      BY <2>3, <3>3, <3>4, <3>5
    <3> QED
      BY <3>1, <3>6
  <2>5. Armed(a) /\ now' >= expiration[a] /\ a \in alarms_list \ raw
    BY <2>1, <2>4 DEF Sends, Armed, alarm_cb
  <2>6. now' \in Nat /\ expiration[a] \in Nat
    BY <2>1, BoundAssumption DEF alarm_cb, Tick, TimeInv, AlarmsTypeOK, EventsTypeOK, ThreadsTypeOK
  <2> QED
    BY <2>5, <2>6 DEF TimeInv, Armed
<1> QED
  BY <1>1, <1>2, <1>3, PTL DEF Spec, SentInTime

(***************************************************************************)
(* A wait without a timeout ends with an event.                            *)
(***************************************************************************)

(* No thread watches two queues.                                           *)
WatchOnce ==
    \A q, r \in events_list : threadid[q] = threadid[r] /\ threadid[q] # NoThread => q = r

(* A thread that was woken inside the call is still the watcher of the     *)
(* queue, so that nobody else takes the events that woke it.               *)
WokenFindEvents ==
    \A t \in Thread :
        waitsOn[t] # NoQueue /\ t \notin checked /\ status[t] \in {"READY", "RUNNING"} =>
            /\ waitsOn[t] \in events_list /\ threadid[waitsOn[t]] = t
            /\ t \in untimed => msgqueue[waitsOn[t]] # <<>>

CallInv == SleepInv /\ WatchOnce /\ WokenFindEvents

LEMMA InitCallInv == Init => CallInv
BY InitSleepInv DEF Init, EventsInit, CallInv, WatchOnce, WokenFindEvents

LEMMA CallsKeepEvents ==
    ASSUME ~WatchMany, CallInv, SleepInv', NEW t \in Thread, Calls(t)
    PROVE  CallInv'
<1> USE NoThreadAssumption, QueueAssumption
    DEF CallInv, SleepInv, AlarmsTypeOK, EventsTypeOK, ThreadsTypeOK
<1>0. current = t /\ waitsOn[t] = NoQueue /\ checked = {} /\ status[t] = "RUNNING"
  BY DEF Calls, InApp, CheckedRuns, ThreadsKnown
<1>1. CASE Suspends
  BY <1>0, <1>1 DEF Suspends, Yield, WatchOnce, WokenFindEvents
<1>2. ASSUME NEW q \in Queue, event_init_queue(q) PROVE CallInv'
  BY <1>2 DEF event_init_queue, threadsVars, WatchOnce, WokenFindEvents
<1>3. ASSUME NEW q \in Queue, event_watch_queue(t, q) PROVE CallInv'
  BY <1>3 DEF event_watch_queue, threadsVars, WatchOnce, WokenFindEvents
<1>4. ASSUME NEW q \in Queue, threadid[q] = t, event_get(q) PROVE CallInv'
  <2>1. \A u \in Thread \ {t} : u \notin checked /\ waitsOn[u] # NoQueue
            /\ status[u] \in {"READY", "RUNNING"} => waitsOn[u] # q
    BY <1>4 DEF WokenFindEvents
  <2>2. UNCHANGED <<threadsVars, events_list, threadid, waitsOn, checked, untimed>>
        /\ \A r \in Queue \ {q} : msgqueue'[r] = msgqueue[r]
    BY <1>4 DEF event_get
  <2> QED
    BY <1>0, <2>1, <2>2 DEF threadsVars, WatchOnce, WokenFindEvents
<1>5. ASSUME NEW q \in Queue, WaitChecks(t, q) PROVE CallInv'
  BY <1>0, <1>5 DEF WaitChecks, threadsVars, WatchOnce, WokenFindEvents
<1>6. ASSUME NEW q \in Queue, \A u \in Thread : waitsOn[u] # q, event_done_queue(q)
      PROVE  CallInv'
  BY <1>6 DEF event_done_queue, threadsVars, WatchOnce, WokenFindEvents
<1>7. ASSUME NEW u \in Thread, status[u] = "WAITING", waits[u] = {"EVENT"}, KillWatcher(u)
      PROVE  CallInv'
  <2>1. status' = status /\ UNCHANGED <<events_list, msgqueue, waitsOn, checked, untimed>>
    BY <1>7 DEF KillWatcher, Kill
  <2>2. PICK q \in events_list : threadid[q] = u /\ threadid' = [threadid EXCEPT ![q] = NoThread]
    BY <1>7 DEF KillWatcher, cancel_wait_for_events
  <2>3. \A r \in Queue : threadid'[r] = IF r = q THEN NoThread ELSE threadid[r]
    BY <2>2
  <2>4. WatchOnce'
    BY <2>1, <2>3 DEF WatchOnce
  <2>5. WokenFindEvents'
    BY <1>7, <2>1, <2>2, <2>3 DEF WokenFindEvents
  <2> QED
    BY <2>4, <2>5
<1>8. ASSUME NEW u \in Thread, Restarts(u) PROVE CallInv'
  BY <1>8 DEF Restarts, Create, WatchOnce, WokenFindEvents
<1> QED
  BY <1>1, <1>2, <1>3, <1>4, <1>5, <1>6, <1>7, <1>8 DEF Calls

(* A thread is woken by its own queue, which has events, or by a timeout,  *)
(* which it asked for.                                                     *)
LEMMA PassKeepsEvents ==
    ASSUME CallInv, SleepInv', SchedulerPass
    PROVE  CallInv'
<1> USE NoThreadAssumption DEF CallInv, SleepInv, AlarmsTypeOK, EventsTypeOK, ThreadsTypeOK
<1>1. ASSUME NEW q \in Queue, ResumeWatcher(q) PROVE CallInv'
  <2>0. UNCHANGED <<events_list, msgqueue, threadid, waitsOn, checked, untimed>>
    BY <1>1 DEF ResumeWatcher
  <2>1. CASE q \in events_list /\ Resumes(q)
    <3> DEFINE w == threadid[q]
               R == status[w] = "WAITING" /\ "EVENT" \in waits[w]
    <3>1. w \in Thread /\ msgqueue[q] # <<>>
      BY <2>1 DEF Resumes
    <3>2. status' = [t \in Thread |-> IF t = w /\ R THEN "READY" ELSE status[t]]
      BY <1>1, <2>1 DEF ResumeWatcher, Wake, Resumable
    <3>3. R => waitsOn[w] = q
      BY <2>1, <3>1 DEF SleeperMarked, WatchOnce
    <3>4. R => waitsOn[w] \in events_list /\ threadid[waitsOn[w]] = w
      BY <3>1 DEF SleeperMarked
    <3> HIDE DEF w, R
    <3>5. WokenFindEvents'
      BY <2>0, <3>1, <3>2, <3>3, <3>4 DEF WokenFindEvents
    <3> QED
      BY <2>0, <3>5 DEF WatchOnce
  <2>2. CASE ~(q \in events_list /\ Resumes(q))
    BY <1>1, <2>0, <2>2 DEF ResumeWatcher, threadsVars, WatchOnce, WokenFindEvents
  <2> QED
    BY <2>1, <2>2
<1>2. CASE IdleSuspends
  BY <1>2 DEF IdleSuspends, threadsVars, WatchOnce, WokenFindEvents
<1>3. ASSUME NEW t \in Thread, Expires(t) PROVE CallInv'
  <2>1. /\ status[t] = "WAITING" /\ "TIMEOUT" \in waits[t]
        /\ status' = [status EXCEPT ![t] = "READY"] /\ UNCHANGED eventVars
    BY <1>3 DEF Expires, Timeout
  <2>2. t \notin doomed /\ t \notin untimed /\ "EVENT" \in waits[t]
    BY <2>1 DEF ThreadsKnown
  <2> QED
    BY <2>1, <2>2 DEF eventVars, WatchOnce, WokenFindEvents, SleeperMarked
<1>4. ASSUME NEW t \in Thread, Dies(t) PROVE CallInv'
  BY <1>4 DEF Dies, Bury, Reap, eventVars, WatchOnce, WokenFindEvents
<1>5. ASSUME NEW t \in Thread, Runs(t) PROVE CallInv'
  BY <1>5 DEF Runs, Dispatch, eventVars, WatchOnce, WokenFindEvents
<1> QED
  BY <1>1, <1>2, <1>3, <1>4, <1>5 DEF SchedulerPass

LEMMA NextCallInv ==
    ASSUME ~WatchMany, IsFiniteSet(Alarm), CallInv, [Next]_vars
    PROVE  CallInv'
<1>1. SleepInv'
  BY NextSleepInv DEF CallInv
<1>2. ASSUME UNCHANGED <<status, events_list, threadid, waitsOn, checked, untimed>>,
             \A q \in Queue : msgqueue[q] # <<>> => msgqueue'[q] # <<>>
      PROVE  CallInv'
  BY <1>1, <1>2 DEF CallInv, WatchOnce, WokenFindEvents, SleepInv, AlarmsTypeOK, EventsTypeOK
<1>3. ASSUME NEW t \in Thread, WaitReturns(t) PROVE CallInv'
  BY <1>1, <1>3 DEF WaitReturns, threadsVars, CallInv, WatchOnce, WokenFindEvents,
                    SleepInv, AlarmsTypeOK, EventsTypeOK, ThreadsTypeOK
<1>4. ASSUME NEW t \in Thread, NEW m \in EvTimeouts, WaitSleeps(t, m) PROVE CallInv'
  <2>1. /\ status' = [status EXCEPT ![t] = "WAITING"]
        /\ checked' = checked \ {t} /\ \A u \in Thread \ {t} : u \in untimed' <=> u \in untimed
        /\ UNCHANGED <<events_list, msgqueue, threadid, waitsOn>>
    BY <1>4 DEF WaitSleeps, Block
  <2> QED
    BY <1>1, <2>1 DEF CallInv, WatchOnce, WokenFindEvents,
                      SleepInv, AlarmsTypeOK, EventsTypeOK, ThreadsTypeOK
<1>5. CASE Puts
  <2>1. PICK q \in Queue, e \in Event : event_put(q, e)
    BY <1>5 DEF Puts
  <2>2. \A r \in Queue : msgqueue[r] # <<>> => msgqueue'[r] # <<>>
    BY <2>1 DEF event_put, CallInv, SleepInv, AlarmsTypeOK, EventsTypeOK
  <2> QED
    BY <1>2, <2>1, <2>2 DEF event_put, threadsVars
<1>6. CASE AlarmCalls \/ CreateEnds \/ UNCHANGED vars
  <2>1. UNCHANGED <<threadsVars, eventVars>>
    BY <1>6, AlarmCallsTyped DEF vars, CallInv, SleepInv
  <2> QED
    BY <1>2, <2>1 DEF threadsVars, eventVars
<1>7. CASE alarm_cb
  <2>1. ASSUME NEW q \in Queue, msgqueue[q] # <<>> PROVE msgqueue'[q] # <<>>
    <3> DEFINE s == SentTo(q, Sends(now'))
    <3>1. msgqueue[q] \in Seq(Event) /\ s \in Seq(Event) /\ msgqueue'[q] = msgqueue[q] \o s
      BY <1>7, QueuesAfterSending DEF CallInv, SleepInv
    <3> HIDE DEF s
    <3> QED
      BY <2>1, <3>1, ConcatEqualIffEmpty
  <2> QED
    BY <1>2, <1>7, <2>1 DEF alarm_cb, Tick
<1> QED
  BY <1>1, <1>3, <1>4, <1>5, <1>6, <1>7, CallsKeepEvents, PassKeepsEvents
  DEF Next, EventSteps

(* events.h, on wait_for_events: a call without a timeout returns when the *)
(* queue has an event, whoever is killed meanwhile, as long as a thread    *)
(* watches one queue.                                                      *)
THEOREM WaitsGetEvents ==
    ASSUME ~WatchMany, IsFiniteSet(Alarm)
    PROVE  Spec => UntimedGetsEvent
<1>1. Init => CallInv
  BY InitCallInv
<1>2. CallInv /\ [Next]_vars => CallInv'
  BY NextCallInv
<1>3. CallInv /\ [Next]_vars =>
        [\A t \in Thread : WaitReturns(t) /\ t \in untimed => msgqueue[waitsOn[t]] # <<>>]_vars
  BY NoThreadAssumption
     DEF CallInv, WokenFindEvents, SleepInv, ThreadsKnown, WaitReturns
<1> QED
  BY <1>1, <1>2, <1>3, PTL DEF Spec, UntimedGetsEvent

=============================================================================
