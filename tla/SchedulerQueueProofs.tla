------------------------ MODULE SchedulerQueueProofs -------------------------
(***************************************************************************)
(* Proofs about the queues of Scheduler: every thread is in the queue of   *)
(* its state and in no other, delay_queue is sorted, the chosen thread is  *)
(* of the highest class, no slot is lost, no killed thread runs, and the   *)
(* scheduler implements Threads.                                           *)
(*                                                                         *)
(* A queue is looked at through the set of its threads; that no thread is  *)
(* in it twice is stated apart (Distinct).                                 *)
(***************************************************************************)
EXTENDS SchedulerProofs, FiniteSetTheorems

(* No thread is linked twice in the queue q.                               *)
Distinct(q) == \A a, b \in 1 .. Len(q) : q[a] = q[b] => a = b

(***************************************************************************)
(* What the operations on queues do to the set of their threads.           *)
(***************************************************************************)

(* An empty queue has no thread.                                           *)
LEMMA EmptyQueue == ToSet(<<>>) = {} /\ Distinct(<<>>)
BY DEF ToSet, Distinct

(* The threads of a queue, by their positions.                             *)
LEMMA QueueMembers ==
    ASSUME NEW S, NEW q \in Seq(S)
    PROVE  /\ ToSet(q) \subseteq S
           /\ \A x : x \in ToSet(q) <=> \E a \in 1 .. Len(q) : q[a] = x
           /\ q = <<>> <=> ToSet(q) = {}
<1>1. DOMAIN q = 1 .. Len(q) /\ Len(q) \in Nat /\ \A a \in 1 .. Len(q) : q[a] \in S
  OBVIOUS
<1>2. q = <<>> <=> Len(q) = 0
  OBVIOUS
<1>3. \A x : x \in ToSet(q) <=> \E a \in 1 .. Len(q) : q[a] = x
  BY <1>1 DEF ToSet
<1>4. Len(q) # 0 => 1 \in 1 .. Len(q)
  BY <1>1
<1>5. ToSet(q) \subseteq S
  BY <1>1 DEF ToSet
<1>6. Len(q) = 0 => ~\E a \in 1 .. Len(q) : TRUE
  OBVIOUS
<1>7. Len(q) # 0 => q[1] \in ToSet(q)
  BY <1>3, <1>4
<1>8. Len(q) = 0 => ToSet(q) = {}
  BY <1>3, <1>6
<1> QED
  BY <1>2, <1>3, <1>5, <1>7, <1>8

(* queue_enqueue adds one thread.                                          *)
LEMMA EnqueueSet ==
    ASSUME NEW S, NEW q \in Seq(S), NEW e \in S
    PROVE  /\ ToSet(Append(q, e)) = ToSet(q) \cup {e}
           /\ Distinct(q) /\ e \notin ToSet(q) => Distinct(Append(q, e))
<1> DEFINE r == Append(q, e)
<1>1. /\ r \in Seq(S) /\ Len(r) = Len(q) + 1 /\ Len(q) \in Nat
      /\ \A a \in 1 .. Len(q) : r[a] = q[a]
      /\ r[Len(q) + 1] = e
  OBVIOUS
<1>2. \A x : x \in ToSet(r) <=> \E a \in 1 .. Len(q) + 1 : r[a] = x
  BY <1>1, QueueMembers
<1>3. \A x : x \in ToSet(q) <=> \E a \in 1 .. Len(q) : q[a] = x
  BY QueueMembers
<1>4. \A a \in 1 .. Len(q) + 1 : a \in 1 .. Len(q) \/ a = Len(q) + 1
  BY <1>1
<1>5. ToSet(r) = ToSet(q) \cup {e}
  <2>1. \A x : x \in ToSet(r) => x \in ToSet(q) \cup {e}
    BY <1>1, <1>2, <1>3, <1>4
  <2>2. \A x : x \in ToSet(q) \cup {e} => x \in ToSet(r)
    <3>1. 1 .. Len(q) \subseteq 1 .. Len(q) + 1 /\ Len(q) + 1 \in 1 .. Len(q) + 1
      BY <1>1
    <3> QED
      BY <1>1, <1>2, <1>3, <3>1
  <2> QED
    BY <2>1, <2>2
<1>6. ASSUME Distinct(q), e \notin ToSet(q) PROVE Distinct(r)
  BY <1>1, <1>3, <1>4, <1>6 DEF Distinct
<1> QED
  BY <1>5, <1>6

(* queue_dequeue takes the first one.                                      *)
LEMMA DequeueSet ==
    ASSUME NEW S, NEW q \in Seq(S), q # <<>>, Distinct(q)
    PROVE  /\ Head(q) \in ToSet(q)
           /\ Tail(q) \in Seq(S)
           /\ ToSet(Tail(q)) = ToSet(q) \ {Head(q)}
           /\ Distinct(Tail(q))
<1> DEFINE r == Tail(q)
<1>1. /\ r \in Seq(S) /\ Len(r) = Len(q) - 1 /\ Len(q) \in Nat /\ Len(q) >= 1 /\ Len(r) \in Nat
      /\ \A a \in 1 .. Len(r) : r[a] = q[a + 1]
      /\ Head(q) = q[1]
  OBVIOUS
<1>2. \A x : x \in ToSet(r) <=> \E a \in 1 .. Len(r) : r[a] = x
  BY <1>1, QueueMembers
<1>3. \A x : x \in ToSet(q) <=> \E a \in 1 .. Len(q) : q[a] = x
  BY QueueMembers
<1>4. Head(q) \in ToSet(q)
  BY <1>1, <1>3
<1>5. \A a \in 1 .. Len(r) : a + 1 \in 1 .. Len(q) /\ a + 1 # 1
  BY <1>1
<1>6. \A a \in 1 .. Len(q) : a = 1 \/ (a - 1 \in 1 .. Len(r) /\ (a - 1) + 1 = a)
  BY <1>1
<1>7. ToSet(r) = ToSet(q) \ {Head(q)}
  <2>1. ASSUME NEW x \in ToSet(r) PROVE x \in ToSet(q) /\ x # Head(q)
    <3>1. PICK a \in 1 .. Len(r) : r[a] = x
      BY <1>2, <2>1
    <3>2. x = q[a + 1] /\ a + 1 \in 1 .. Len(q) /\ a + 1 # 1 /\ 1 \in 1 .. Len(q)
      BY <1>1, <1>5, <3>1
    <3> QED
      BY <1>1, <1>3, <3>2 DEF Distinct
  <2>2. ASSUME NEW x \in ToSet(q), x # Head(q) PROVE x \in ToSet(r)
    <3>1. PICK a \in 1 .. Len(q) : q[a] = x
      BY <1>3, <2>2
    <3>2. a - 1 \in 1 .. Len(r) /\ r[a - 1] = x
      BY <1>1, <1>6, <2>2, <3>1
    <3> QED
      BY <1>2, <3>2
  <2> QED
    BY <2>1, <2>2
<1>8. Distinct(r)
  <2>1. SUFFICES ASSUME NEW a \in 1 .. Len(r), NEW b \in 1 .. Len(r), r[a] = r[b] PROVE a = b
    BY DEF Distinct
  <2>2. q[a + 1] = q[b + 1] /\ a + 1 \in 1 .. Len(q) /\ b + 1 \in 1 .. Len(q)
    BY <1>1, <1>5, <2>1
  <2>3. a + 1 = b + 1
    BY <2>2 DEF Distinct
  <2> QED
    BY <2>3
<1> QED
  BY <1>1, <1>4, <1>7, <1>8

(* queue_roll changes the order only.                                      *)
LEMMA RollSet ==
    ASSUME NEW S, NEW q \in Seq(S), Distinct(q)
    PROVE  ToSet(queue_roll(q)) = ToSet(q) /\ Distinct(queue_roll(q))
<1>1. CASE Len(q) > 1
  <2>1. q # <<>>
    BY <1>1
  <2>2. /\ Head(q) \in ToSet(q) /\ Tail(q) \in Seq(S) /\ Head(q) \in S
        /\ ToSet(Tail(q)) = ToSet(q) \ {Head(q)} /\ Distinct(Tail(q))
    BY <2>1, DequeueSet
  <2>3. queue_roll(q) = Append(Tail(q), Head(q))
    BY <1>1 DEF queue_roll
  <2> DEFINE r == Tail(q)
             e == Head(q)
  <2>4. r \in Seq(S) /\ e \in S /\ Distinct(r) /\ e \notin ToSet(r)
    BY <2>2
  <2> HIDE DEF r, e
  <2>5. ToSet(Append(r, e)) = ToSet(r) \cup {e} /\ Distinct(Append(r, e))
    BY <2>4, EnqueueSet
  <2> USE DEF r, e
  <2> QED
    BY <2>2, <2>3, <2>5
<1>2. CASE ~(Len(q) > 1)
  BY <1>2 DEF queue_roll
<1> QED
  BY <1>1, <1>2

(* The positions of a queue into which scheduler_delay_thread inserted.    *)
LEMMA InsertAtPositions ==
    ASSUME NEW S, NEW q \in Seq(S), NEW e \in S, NEW p \in 1 .. Len(q) + 1
    PROVE  /\ Len(InsertAt(q, p, e)) = Len(q) + 1
           /\ \A a \in 1 .. Len(q) + 1 : InsertAt(q, p, e)[a] =
                IF a < p THEN q[a] ELSE IF a = p THEN e ELSE q[a - 1]
<1> DEFINE l == SubSeq(q, 1, p - 1)
           m == l \o <<e>>
           r == SubSeq(q, p, Len(q))
<1>1. Len(q) \in Nat /\ p \in Nat /\ p >= 1 /\ p <= Len(q) + 1 /\ \A a \in 1 .. Len(q) : q[a] \in S
  OBVIOUS
<1>2. l \in Seq(S) /\ Len(l) = p - 1 /\ \A a \in 1 .. p - 1 : l[a] = q[a]
  BY <1>1
<1>3. r \in Seq(S) /\ Len(r) = Len(q) - p + 1 /\ \A a \in 1 .. Len(q) - p + 1 : r[a] = q[p + a - 1]
  BY <1>1
<1>4. <<e>> \in Seq(S) /\ Len(<<e>>) = 1 /\ <<e>>[1] = e
  OBVIOUS
<1>5. /\ m \in Seq(S) /\ Len(m) = p
      /\ \A a \in 1 .. p : m[a] = IF a <= p - 1 THEN l[a] ELSE <<e>>[a - (p - 1)]
  BY <1>1, <1>2, <1>4, ConcatProperties
<1> HIDE DEF m, r
<1>6. /\ Len(m \o r) = p + (Len(q) - p + 1)
      /\ \A a \in 1 .. p + (Len(q) - p + 1) : (m \o r)[a] = IF a <= p THEN m[a] ELSE r[a - p]
  <2>1. m \in Seq(S) /\ r \in Seq(S)
    BY <1>3, <1>5
  <2>2. /\ Len(m \o r) = Len(m) + Len(r)
        /\ \A a \in 1 .. Len(m) + Len(r) : (m \o r)[a] = IF a <= Len(m) THEN m[a] ELSE r[a - Len(m)]
    BY <2>1, ConcatProperties
  <2> QED
    BY <1>3, <1>5, <2>2
<1>7. InsertAt(q, p, e) = m \o r
  BY DEF InsertAt, m, r
<1>8. ASSUME NEW a \in 1 .. Len(q) + 1
      PROVE  /\ a < p => (m \o r)[a] = q[a]
             /\ a = p => (m \o r)[a] = e
             /\ a > p => (m \o r)[a] = q[a - 1]
  <2>1. CASE a < p
    BY <1>1, <1>2, <1>5, <1>6, <2>1
  <2>2. CASE a = p
    BY <1>1, <1>4, <1>5, <1>6, <2>2
  <2>3. CASE a > p
    <3>1. a - p \in 1 .. Len(q) - p + 1 /\ p + (a - p) - 1 = a - 1
      BY <1>1, <2>3
    <3>2. (m \o r)[a] = r[a - p]
      BY <1>1, <1>6, <2>3
    <3>3. r[a - p] = q[p + (a - p) - 1]
      BY <1>3, <3>1
    <3>4. (m \o r)[a] = q[a - 1]
      BY <3>1, <3>2, <3>3
    <3>5. ~(a < p) /\ a # p
      BY <1>1, <2>3
    <3> QED
      BY <3>4, <3>5
  <2> QED
    BY <1>1, <2>1, <2>2, <2>3
<1> HIDE DEF m, r
<1>9. Len(m \o r) = Len(q) + 1
  BY <1>1, <1>6
<1> QED
  BY <1>1, <1>7, <1>8, <1>9

(* ... which is the queue with one more thread.                            *)
LEMMA InsertSet ==
    ASSUME NEW S, NEW q \in Seq(S), NEW e \in S, NEW p \in 1 .. Len(q) + 1
    PROVE  /\ ToSet(InsertAt(q, p, e)) = ToSet(q) \cup {e}
           /\ Distinct(q) /\ e \notin ToSet(q) => Distinct(InsertAt(q, p, e))
<1> DEFINE r == InsertAt(q, p, e)
<1>1. r \in Seq(S)
  BY InsertType
<1>2. /\ Len(r) = Len(q) + 1
      /\ \A a \in 1 .. Len(q) + 1 : r[a] = IF a < p THEN q[a] ELSE IF a = p THEN e ELSE q[a - 1]
  BY InsertAtPositions
<1> HIDE DEF r
<1>3. Len(q) \in Nat /\ p \in 1 .. Len(q) + 1
  OBVIOUS
<1>4. \A x : x \in ToSet(r) <=> \E a \in 1 .. Len(q) + 1 : r[a] = x
  BY <1>1, <1>2, QueueMembers
<1>5. \A x : x \in ToSet(q) <=> \E a \in 1 .. Len(q) : q[a] = x
  BY QueueMembers
<1>6. \A a \in 1 .. Len(q) + 1 : \/ a < p /\ a \in 1 .. Len(q) /\ r[a] = q[a]
                                 \/ a = p /\ r[a] = e
                                 \/ a > p /\ a - 1 \in 1 .. Len(q) /\ r[a] = q[a - 1]
  BY <1>2, <1>3
<1>7. ToSet(r) = ToSet(q) \cup {e}
  <2>1. ASSUME NEW x \in ToSet(r) PROVE x \in ToSet(q) \cup {e}
    <3>1. PICK a \in 1 .. Len(q) + 1 : r[a] = x
      BY <1>4, <2>1
    <3> QED
      BY <1>5, <1>6, <3>1
  <2>2. ASSUME NEW x \in ToSet(q) PROVE x \in ToSet(r)
    <3>1. PICK a \in 1 .. Len(q) : q[a] = x
      BY <1>5, <2>2
    <3>2. CASE a < p
      <4>1. a \in 1 .. Len(q) + 1 /\ r[a] = x
        BY <1>2, <1>3, <3>1, <3>2
      <4> QED
        BY <1>4, <4>1
    <3>3. CASE a >= p
      <4>1. a + 1 \in 1 .. Len(q) + 1 /\ ~(a + 1 < p) /\ a + 1 # p /\ (a + 1) - 1 = a
        BY <1>3, <3>1, <3>3
      <4>2. r[a + 1] = x
        BY <1>2, <3>1, <4>1
      <4> QED
        BY <1>4, <4>1, <4>2
    <3> QED
      BY <1>3, <3>1, <3>2, <3>3
  <2>3. e \in ToSet(r)
    BY <1>2, <1>3, <1>4
  <2> QED
    BY <2>1, <2>2, <2>3
<1>8. ASSUME Distinct(q), e \notin ToSet(q) PROVE Distinct(r)
  <2>1. SUFFICES ASSUME NEW a \in 1 .. Len(q) + 1, NEW b \in 1 .. Len(q) + 1, r[a] = r[b], a < b
                 PROVE  FALSE
    <3>1. \A a, b \in 1 .. Len(q) + 1 : a < b => r[a] # r[b]
      BY <2>1
    <3>2. \A a, b \in 1 .. Len(q) + 1 : a < b \/ b < a \/ a = b
      BY <1>3
    <3> QED
      BY <1>2, <3>1, <3>2 DEF Distinct
  <2>2. \A c \in 1 .. Len(q) : q[c] # e
    BY <1>5, <1>8
  <2>3. CASE b < p
    BY <1>6, <1>3, <1>8, <2>1, <2>3 DEF Distinct
  <2>4. CASE b = p
    BY <1>6, <1>3, <1>8, <2>1, <2>2, <2>4 DEF Distinct
  <2>5. CASE b > p /\ a = p
    BY <1>6, <1>3, <1>8, <2>1, <2>2, <2>5 DEF Distinct
  <2>6. CASE b > p /\ a # p
    <3>1. b - 1 \in 1 .. Len(q) /\ r[b] = q[b - 1]
      BY <1>6, <1>3, <2>6
    <3>2. CASE a < p
      <4>1. a \in 1 .. Len(q) /\ r[a] = q[a] /\ a # b - 1
        BY <1>6, <1>3, <2>6, <3>2
      <4> QED
        BY <1>8, <2>1, <3>1, <4>1 DEF Distinct
    <3>3. CASE a > p
      <4>1. a - 1 \in 1 .. Len(q) /\ r[a] = q[a - 1] /\ a - 1 # b - 1
        BY <1>6, <1>3, <2>1, <3>3
      <4> QED
        BY <1>8, <2>1, <3>1, <4>1 DEF Distinct
    <3> QED
      BY <1>3, <2>6, <3>2, <3>3
  <2> QED
    BY <1>3, <2>3, <2>4, <2>5, <2>6
<1> QED
  BY <1>7, <1>8 DEF r

(***************************************************************************)
(* Every thread is in the queue of its state.                              *)
(***************************************************************************)
NoRepeats ==
    /\ \A p \in Prio : Distinct(ready[p])
    /\ Distinct(waitq) /\ Distinct(delayq) /\ Distinct(deadq)

(* A thread of a ready queue is READY and of its priority.                 *)
ReadyPlaced ==
    \A p \in Prio : \A t \in ToSet(ready[p]) :
        t \in alive /\ prio[t] = p /\ state[t] = "READY"

(* A thread of wait_queue is in no queue a resumed thread is moved to.     *)
WaitPlaced ==
    \A t \in ToSet(waitq) :
        /\ t \in alive /\ state[t] \in {"WAITING", "READY"}
        /\ t \notin ToSet(delayq)
        /\ \A p \in Prio : t \notin ToSet(ready[p])

(* No primitive can resume a thread of delay_queue, or change its delay.   *)
DelayPlaced ==
    \A t \in ToSet(delayq) :
        t \in alive /\ state[t] = "WAITING" /\ flags[t] \cap THREAD_MASK_EVENTS = {}

DeadPlaced == \A t \in ToSet(deadq) : t \in alive /\ state[t] = "DEAD"

Placed == ReadyPlaced /\ WaitPlaced /\ DelayPlaced /\ DeadPlaced

(* The control points between new_runner and the next call that gives the  *)
(* processor up, and the whole of thread_may_suspend.                      *)
HoldPoints == {"house", "house_loop", "switch", "user", "panic"}
Holding    == pc \in HoldPoints \/ mode = "may"

(* One thread is RUNNING while somebody holds the processor, none else.    *)
RunnerInv ==
    /\ Holding => /\ running \in alive /\ state[running] = "RUNNING"
                  /\ "TERMINATE" \notin flags[running]
    /\ \A t \in alive : state[t] = "RUNNING" => Holding /\ t = running
    /\ pc \in HoldPoints \cup {"boot", "runner"} => mode = "schedule"

(* Every thread of the table that does not run is in a queue: the one the  *)
(* pass that will take it out looks at.                                    *)
KeptReady == \A t \in alive : state[t] = "READY" =>
                t \in ToSet(waitq) \/ t \in ToSet(ready[prio[t]])
KeptWaiting == \A t \in alive : state[t] = "WAITING" =>
                t \in ToSet(waitq) \/ t \in ToSet(delayq)
KeptDead == \A t \in alive : state[t] = "DEAD" => t \in ToSet(deadq)

(* scheduler_resume_thread refuses no thread whose time has come.          *)
Resumables ==
    /\ \A t \in ToSet(delayq) : "TIMEOUT" \in flags[t]
    /\ \A t \in ToSet(waitq) :
        "TIMEOUT" \in flags[t] => flags[t] \cap THREAD_MASK_EVENTS # {}

KeptInv == KeptReady /\ KeptWaiting /\ KeptDead /\ Resumables

(* No thread that waits for a mutex alone is killed.  scheduler_remove_    *)
(* thread would put it in dead_queue while wait_queue still links it.      *)
SparesMutexWaiters == {"MUTEX"} \notin KillTargets

PlaceInv == NoRepeats /\ Placed /\ RunnerInv

(* The threads of the queues are threads.                                  *)
LEMMA QueueSets ==
    ASSUME QueueTypes
    PROVE  /\ \A p \in Prio : ready[p] \in Seq(Tid) /\ ToSet(ready[p]) \subseteq Tid
           /\ ToSet(waitq) \subseteq Tid /\ ToSet(delayq) \subseteq Tid /\ ToSet(deadq) \subseteq Tid
<1>1. /\ \A p \in Prio : ready[p] \in Seq(Tid)
      /\ waitq \in Seq(Tid) /\ delayq \in Seq(Tid) /\ deadq \in Seq(Tid)
  BY DEF QueueTypes
<1> QED
  BY <1>1, QueueMembers

(* A thread is added to the ready queue of one priority.                   *)
LEMMA ReadyEnqueue ==
    ASSUME QueueTypes, NEW p \in Prio, NEW t \in Tid,
           ready' = [ready EXCEPT ![p] = Append(@, t)]
    PROVE  /\ \A q \in Prio : ToSet(ready'[q]) = ToSet(ready[q]) \cup (IF q = p THEN {t} ELSE {})
           /\ (\A q \in Prio : Distinct(ready[q])) /\ t \notin ToSet(ready[p])
                => \A q \in Prio : Distinct(ready'[q])
<1>1. ready[p] \in Seq(Tid) /\ ready'[p] = Append(ready[p], t)
  BY DEF QueueTypes
<1>2. \A q \in Prio : q # p => ready'[q] = ready[q]
  BY DEF QueueTypes
<1>3. ToSet(ready'[p]) = ToSet(ready[p]) \cup {t}
  BY <1>1, EnqueueSet
<1>4. Distinct(ready[p]) /\ t \notin ToSet(ready[p]) => Distinct(ready'[p])
  BY <1>1, EnqueueSet
<1>5. ASSUME NEW q \in Prio
      PROVE  ToSet(ready'[q]) = ToSet(ready[q]) \cup (IF q = p THEN {t} ELSE {})
  <2>1. CASE q = p
    BY <1>3, <2>1
  <2>2. CASE q # p
    BY <1>2, <2>2
  <2> QED
    BY <2>1, <2>2
<1>6. ASSUME \A q \in Prio : Distinct(ready[q]), t \notin ToSet(ready[p]), NEW q \in Prio
      PROVE  Distinct(ready'[q])
  BY <1>2, <1>4, <1>6
<1> QED
  BY <1>5, <1>6

(* The head of a queue is taken out and the rest is rolled.                *)
LEMMA TakenSet ==
    ASSUME NEW S, NEW q \in Seq(S), q # <<>>, Distinct(q)
    PROVE  /\ Head(q) \in ToSet(q)
           /\ ToSet(queue_roll(Tail(q))) = ToSet(q) \ {Head(q)}
           /\ Distinct(queue_roll(Tail(q)))
<1>1. /\ Head(q) \in ToSet(q) /\ Tail(q) \in Seq(S)
      /\ ToSet(Tail(q)) = ToSet(q) \ {Head(q)} /\ Distinct(Tail(q))
  BY DequeueSet
<1> DEFINE r == Tail(q)
<1>2. r \in Seq(S) /\ Distinct(r)
  BY <1>1
<1> HIDE DEF r
<1>3. ToSet(queue_roll(r)) = ToSet(r) /\ Distinct(queue_roll(r))
  BY <1>2, RollSet
<1> QED
  BY <1>1, <1>3 DEF r

(* scheduler_resume_thread, on each field of each thread.                  *)
LEMMA Resumed ==
    ASSUME NEW fl, NEW S, ThreadTypes, ResumeAll(fl, S)
    PROVE  \A t \in Tid :
             IF t \in S /\ CanResume(fl, t)
             THEN /\ state'[t] = "READY" /\ delay'[t] = 0
                  /\ flags'[t] = flags[t] \ THREAD_MASK_WAIT
             ELSE /\ state'[t] = state[t] /\ delay'[t] = delay[t] /\ flags'[t] = flags[t]
BY DEF ResumeAll, ResumedState

(* After boot every queue has the threads its name says.                   *)
LEMMA InitPlaceInv == Init => PlaceInv
<1> SUFFICES ASSUME Init PROVE PlaceInv
  OBVIOUS
<1>1. \A t \in Tid : ToSet(<<t>>) = {t} /\ Distinct(<<t>>)
  BY DEF ToSet, Distinct
<1>2. THREAD_TID_IDLE \in Tid /\ THREAD_TID_TMRS \in Tid /\ THREAD_TID_TMRS # THREAD_TID_IDLE
  BY Constants DEF THREAD_TID_IDLE, THREAD_TID_TMRS
<1>3. waitq = <<>> /\ delayq = <<>> /\ deadq = <<>> /\ alive = {THREAD_TID_IDLE, THREAD_TID_TMRS}
  BY DEF Init, SystemTids
<1>4. /\ ready[0] = <<THREAD_TID_TMRS>> /\ ready[3] = <<THREAD_TID_IDLE>>
      /\ ready[1] = <<>> /\ ready[2] = <<>> /\ Prio = {0, 1, 2, 3}
  BY DEF Init, Prio, THREAD_PRIORITIES
<1>5. NoRepeats
  BY <1>1, <1>2, <1>3, <1>4, EmptyQueue DEF NoRepeats
<1>6. prio[THREAD_TID_TMRS] = 0 /\ prio[THREAD_TID_IDLE] = 3 /\ \A t \in alive : state[t] = "READY"
  BY <1>2, <1>3 DEF Init, SystemTids
<1>7. Placed
  <2>1. ToSet(waitq) = {} /\ ToSet(delayq) = {} /\ ToSet(deadq) = {}
    BY <1>3, EmptyQueue
  <2>2. /\ ToSet(ready[0]) = {THREAD_TID_TMRS} /\ ToSet(ready[3]) = {THREAD_TID_IDLE}
        /\ ToSet(ready[1]) = {} /\ ToSet(ready[2]) = {}
    BY <1>1, <1>2, <1>4, EmptyQueue
  <2>3. ReadyPlaced
    BY <1>3, <1>4, <1>6, <2>2 DEF ReadyPlaced
  <2> QED
    BY <2>1, <2>3 DEF Placed, WaitPlaced, DelayPlaced, DeadPlaced
<1>8. RunnerInv
  BY <1>6 DEF Init, RunnerInv, Holding, HoldPoints
<1> QED
  BY <1>5, <1>7, <1>8 DEF PlaceInv

(* Every step keeps every thread in the queue of its state; one step of    *)
(* the proof per action, the steps that only move the control together.    *)
LEMMA NextPlaceInv ==
    SparesMutexWaiters /\ TypeInv /\ PlaceInv /\ [Next]_vars => PlaceInv'
<1> SUFFICES ASSUME SparesMutexWaiters, TypeInv, PlaceInv, [Next]_vars PROVE PlaceInv'
  OBVIOUS
<1> USE DEF PlaceInv, Placed, threadVars, slotVars, fieldVars, queueVars, cpuVars
<1>a. ThreadTypes /\ QueueTypes /\ ControlTypes /\ ClockTypes
  BY DEF TypeInv, TypeOK
<1>s. /\ \A p \in Prio : ToSet(ready[p]) \subseteq Tid
      /\ ToSet(waitq) \subseteq Tid /\ ToSet(delayq) \subseteq Tid /\ ToSet(deadq) \subseteq Tid
  BY <1>a, QueueSets
<1>r. ASSUME Holding
      PROVE  /\ running \in Tid /\ running \in alive /\ state[running] = "RUNNING"
             /\ prio[running] \in Prio
             /\ \A p \in Prio : running \notin ToSet(ready[p])
             /\ running \notin ToSet(waitq) /\ running \notin ToSet(delayq)
             /\ running \notin ToSet(deadq)
             /\ \A t \in Tid : t # running /\ t \in alive => state[t] # "RUNNING"
  BY <1>a, <1>r DEF RunnerInv, ReadyPlaced, WaitPlaced, DelayPlaced, DeadPlaced, ThreadTypes
<1>q. ASSUME UNCHANGED <<alive, prio, state, flags, queueVars>>, RunnerInv' PROVE PlaceInv'
  BY <1>q DEF NoRepeats, ReadyPlaced, WaitPlaced, DelayPlaced, DeadPlaced
<1>c. ASSUME UNCHANGED <<alive, state, flags, running>>, Holding' <=> Holding,
             pc' \in HoldPoints \cup {"boot", "runner"} => mode' = "schedule"
      PROVE  RunnerInv'
  BY <1>c DEF RunnerInv
<1>1. CASE KernelRun
  BY <1>1, <1>c, <1>q DEF KernelRun, EnterSchedule, RunnerInv, Holding, HoldPoints
<1>2. ASSUME NEW p \in Prio, thread_create(p), pc \in {"boot", "user"} PROVE PlaceInv'
  <2>1. PICK t \in Tid \ alive :
          /\ alive' = alive \cup {t}
          /\ prio' = [prio EXCEPT ![t] = p]
          /\ state' = [state EXCEPT ![t] = "READY"]
          /\ ready' = [ready EXCEPT ![p] = Append(@, t)]
    BY <1>2 DEF thread_create
  <2>2. UNCHANGED <<flags, waitq, delayq, deadq, running, pc, mode>>
    BY <1>2 DEF thread_create
  <2>3. /\ \A q \in Prio : t \notin ToSet(ready[q])
        /\ t \notin ToSet(waitq) /\ t \notin ToSet(delayq) /\ t \notin ToSet(deadq)
    BY <2>1 DEF ReadyPlaced, WaitPlaced, DelayPlaced, DeadPlaced
  <2>4. /\ \A q \in Prio : ToSet(ready'[q]) = ToSet(ready[q]) \cup (IF q = p THEN {t} ELSE {})
        /\ \A q \in Prio : Distinct(ready'[q])
    BY <1>a, <2>1, <2>3, ReadyEnqueue DEF NoRepeats
  <2>5. /\ prio'[t] = p /\ state'[t] = "READY" /\ t \in alive'
        /\ \A u \in Tid : u # t => prio'[u] = prio[u] /\ state'[u] = state[u]
                                   /\ (u \in alive' <=> u \in alive)
    BY <1>a, <2>1 DEF ThreadTypes
  <2>6. NoRepeats'
    BY <2>2, <2>4 DEF NoRepeats
  <2>7. ReadyPlaced'
    BY <1>s, <2>4, <2>5 DEF ReadyPlaced
  <2>8. WaitPlaced'
    BY <1>s, <2>2, <2>3, <2>4, <2>5 DEF WaitPlaced
  <2>9. DelayPlaced' /\ DeadPlaced'
    BY <1>s, <2>2, <2>3, <2>5 DEF DelayPlaced, DeadPlaced
  <2>10. RunnerInv'
    BY <1>a, <2>1, <2>2, <2>5 DEF RunnerInv, Holding, ThreadTypes
  <2> QED
    BY <2>6, <2>7, <2>8, <2>9, <2>10
<1>3. ASSUME Holding, SuspendRunning PROVE PlaceInv'
  <2> DEFINE x == running
             p == prio[running]
  <2>1. /\ ready' = [ready EXCEPT ![p] = Append(@, x)]
        /\ state' = [state EXCEPT ![x] = "READY"]
        /\ pc' = "events" /\ mode' = "schedule"
        /\ UNCHANGED <<alive, prio, flags, waitq, delayq, deadq, running>>
    BY <1>3 DEF SuspendRunning, EnterSchedule
  <2>2. x \in Tid /\ p \in Prio
    BY <1>3, <1>r
  <2>4. /\ \A q \in Prio : ToSet(ready'[q]) = ToSet(ready[q]) \cup (IF q = p THEN {x} ELSE {})
        /\ \A q \in Prio : Distinct(ready'[q])
    BY <1>3, <1>a, <1>r, <2>1, <2>2, ReadyEnqueue DEF NoRepeats
  <2>5. state'[x] = "READY" /\ \A u \in Tid : u # x => state'[u] = state[u]
    BY <1>a, <2>1, <2>2 DEF ThreadTypes
  <2>6. NoRepeats'
    BY <2>1, <2>4 DEF NoRepeats
  <2>7. ReadyPlaced'
    BY <1>3, <1>s, <1>r, <2>1, <2>4, <2>5 DEF ReadyPlaced
  <2>8. WaitPlaced'
    BY <1>3, <1>s, <1>r, <2>1, <2>4, <2>5 DEF WaitPlaced
  <2>9. DelayPlaced' /\ DeadPlaced'
    BY <1>3, <1>s, <1>r, <2>1, <2>5 DEF DelayPlaced, DeadPlaced
  <2>10. RunnerInv'
    BY <1>3, <1>a, <1>r, <2>1, <2>5 DEF RunnerInv, Holding, HoldPoints, ThreadTypes
  <2> QED
    BY <2>6, <2>7, <2>8, <2>9, <2>10
<1>4. CASE thread_may_suspend
  BY <1>4, <1>c, <1>q DEF thread_may_suspend, EnterSchedule, Holding, HoldPoints
<1>5. ASSUME NEW d \in Nat, thread_delay(d) PROVE PlaceInv'
  <2>1. PICK p \in 1 .. Len(delayq) + 1 : delayq' = InsertAt(delayq, p, running)
    BY <1>5 DEF thread_delay
  <2>2. /\ flags' = [flags EXCEPT ![running] = (@ \ THREAD_MASK_WAIT) \cup {"TIMEOUT"}]
        /\ state' = [state EXCEPT ![running] = "WAITING"]
        /\ pc' = "events" /\ mode' = "schedule"
        /\ UNCHANGED <<alive, prio, ready, waitq, deadq, running>>
    BY <1>5 DEF thread_delay, EnterSchedule
  <2>3. Holding
    BY <1>5 DEF thread_delay, Holding, HoldPoints
  <2>4. delayq \in Seq(Tid) /\ running \in Tid
    BY <1>a, <1>r, <2>3 DEF QueueTypes
  <2>5. ToSet(delayq') = ToSet(delayq) \cup {running} /\ Distinct(delayq')
    BY <1>r, <2>1, <2>3, <2>4, InsertSet DEF NoRepeats
  <2>6. /\ state'[running] = "WAITING" /\ flags'[running] \cap THREAD_MASK_EVENTS = {}
        /\ \A u \in Tid : u # running => state'[u] = state[u] /\ flags'[u] = flags[u]
    BY <1>a, <2>2, <2>4 DEF ThreadTypes, THREAD_MASK_WAIT, THREAD_MASK_EVENTS
  <2>7. NoRepeats'
    BY <2>2, <2>5 DEF NoRepeats
  <2>8. ReadyPlaced' /\ WaitPlaced' /\ DeadPlaced'
    BY <1>r, <1>s, <2>2, <2>3, <2>5, <2>6 DEF ReadyPlaced, WaitPlaced, DeadPlaced
  <2>9. DelayPlaced'
    BY <1>r, <1>s, <2>2, <2>3, <2>5, <2>6 DEF DelayPlaced
  <2>10. RunnerInv'
    BY <1>a, <1>r, <2>2, <2>3, <2>6 DEF RunnerInv, Holding, HoldPoints, ThreadTypes
  <2> QED
    BY <2>7, <2>8, <2>9, <2>10
<1>6. ASSUME NEW k, NEW d, Wait(k, d) PROVE PlaceInv'
  <2>2. /\ waitq' = Append(waitq, running)
        /\ flags' = [flags EXCEPT ![running] = (@ \ THREAD_MASK_WAIT) \cup {k}
                                \cup (IF d = 0 THEN {} ELSE {"TIMEOUT"})]
        /\ state' = [state EXCEPT ![running] = "WAITING"]
        /\ pc' = "events" /\ mode' = "schedule"
        /\ UNCHANGED <<alive, prio, ready, delayq, deadq, running>>
    BY <1>6 DEF Wait, WaitRunning, EnterSchedule
  <2>3. Holding
    BY <1>6 DEF Wait, Holding, HoldPoints
  <2>4. waitq \in Seq(Tid) /\ running \in Tid
    BY <1>a, <1>r, <2>3 DEF QueueTypes
  <2>5. ToSet(waitq') = ToSet(waitq) \cup {running} /\ Distinct(waitq')
    BY <1>r, <2>2, <2>3, <2>4, EnqueueSet DEF NoRepeats
  <2>6. /\ state'[running] = "WAITING"
        /\ \A u \in Tid : u # running => state'[u] = state[u] /\ flags'[u] = flags[u]
    BY <1>a, <2>2, <2>4 DEF ThreadTypes
  <2>7. NoRepeats'
    BY <2>2, <2>5 DEF NoRepeats
  <2>8. ReadyPlaced' /\ WaitPlaced' /\ DeadPlaced'
    BY <1>r, <1>s, <2>2, <2>3, <2>5, <2>6 DEF ReadyPlaced, WaitPlaced, DeadPlaced
  <2>9. DelayPlaced'
    BY <1>r, <1>s, <2>2, <2>3, <2>6 DEF DelayPlaced
  <2>10. RunnerInv'
    BY <1>a, <1>r, <2>2, <2>3, <2>6 DEF RunnerInv, Holding, HoldPoints, ThreadTypes
  <2> QED
    BY <2>7, <2>8, <2>9, <2>10
<1>7. CASE thread_terminate
  <2>2. /\ deadq' = Append(deadq, running)
        /\ state' = [state EXCEPT ![running] = "DEAD"]
        /\ pc' = "events" /\ mode' = "schedule"
        /\ UNCHANGED <<alive, prio, flags, ready, waitq, delayq, running>>
    BY <1>7 DEF thread_terminate, EnterSchedule
  <2>3. Holding
    BY <1>7 DEF thread_terminate, Holding, HoldPoints
  <2>4. deadq \in Seq(Tid) /\ running \in Tid
    BY <1>a, <1>r, <2>3 DEF QueueTypes
  <2>5. ToSet(deadq') = ToSet(deadq) \cup {running} /\ Distinct(deadq')
    BY <1>r, <2>2, <2>3, <2>4, EnqueueSet DEF NoRepeats
  <2>6. /\ state'[running] = "DEAD"
        /\ \A u \in Tid : u # running => state'[u] = state[u]
    BY <1>a, <2>2, <2>4 DEF ThreadTypes
  <2>7. NoRepeats'
    BY <2>2, <2>5 DEF NoRepeats
  <2>8. ReadyPlaced' /\ WaitPlaced' /\ DeadPlaced' /\ DelayPlaced'
    BY <1>r, <1>s, <2>2, <2>3, <2>5, <2>6 DEF ReadyPlaced, WaitPlaced, DeadPlaced, DelayPlaced
  <2>10. RunnerInv'
    BY <1>a, <1>r, <2>2, <2>3, <2>6 DEF RunnerInv, Holding, HoldPoints, ThreadTypes
  <2> QED
    BY <2>7, <2>8, <2>10
<1>8. ASSUME NEW t \in Tid, thread_kill(t),
             state[t] = "WAITING" => flags[t] \cap THREAD_MASK_WAIT \in KillTargets
      PROVE  PlaceInv'
  <2>0. pc = "user" /\ t # running
    BY <1>8 DEF thread_kill
  <2>1. CASE RemoveThread(t)
    <3>1. /\ UNCHANGED <<alive, prio, ready, waitq, delayq, running, pc, mode>>
          /\ UNCHANGED <<state, deadq>>
      BY <1>8, <2>1 DEF RemoveThread, SparesMutexWaiters
    <3>2. /\ flags'[t] \cap THREAD_MASK_EVENTS \subseteq flags[t] \cap THREAD_MASK_EVENTS
          /\ \A u \in Tid : u # t => flags'[u] = flags[u]
      <4>1. flags' = [flags EXCEPT ![t] =
                        (IF state[t] = "WAITING" THEN @ \ THREAD_MASK_WAIT ELSE @)
                        \cup {"TERMINATE"}]
        BY <2>1 DEF RemoveThread
      <4>2. flags'[t] \subseteq flags[t] \cup {"TERMINATE"}
        BY <1>a, <4>1 DEF ThreadTypes
      <4> QED
        BY <1>a, <4>1, <4>2 DEF ThreadTypes, THREAD_MASK_EVENTS
    <3>3. NoRepeats' /\ ReadyPlaced' /\ WaitPlaced' /\ DeadPlaced'
      BY <3>1 DEF NoRepeats, ReadyPlaced, WaitPlaced, DeadPlaced
    <3>4. DelayPlaced'
      BY <1>s, <3>1, <3>2 DEF DelayPlaced
    <3>5. RunnerInv'
      <4>1. Holding
        BY <2>0 DEF Holding, HoldPoints
      <4>2. flags'[running] = flags[running]
        BY <1>r, <2>0, <3>2, <4>1
      <4> QED
        BY <3>1, <4>2 DEF RunnerInv, Holding
    <3> QED
      BY <3>3, <3>4, <3>5
  <2>2. CASE PanicKill(t)
    BY <2>0, <2>2, <1>c, <1>q DEF PanicKill, Holding, HoldPoints, RunnerInv
  <2> QED
    BY <1>8, <2>1, <2>2 DEF thread_kill
<1>e. ASSUME NEW fl, NEW S, ResumeAll(fl, S), fl \subseteq THREAD_MASK_EVENTS,
             UNCHANGED <<alive, prio, queueVars, running>>, Holding' <=> Holding,
             pc' \in HoldPoints \cup {"boot", "runner"} => mode' = "schedule"
      PROVE  PlaceInv'
  <2>1. \A t \in Tid : \/ state[t] = "WAITING" /\ state'[t] = "READY" /\ flags'[t] \subseteq flags[t]
                          /\ flags[t] \cap THREAD_MASK_EVENTS # {}
                       \/ state'[t] = state[t] /\ flags'[t] = flags[t]
    BY <1>a, <1>e, Resumed DEF CanResume
  <2>2. NoRepeats'
    BY <1>e DEF NoRepeats
  <2>3. ReadyPlaced' /\ WaitPlaced' /\ DeadPlaced'
    BY <1>e, <1>s, <2>1 DEF ReadyPlaced, WaitPlaced, DeadPlaced
  <2>4. DelayPlaced'
    BY <1>e, <1>s, <2>1 DEF DelayPlaced
  <2>5. RunnerInv'
    BY <1>a, <1>e, <2>1 DEF RunnerInv, ThreadTypes
  <2> QED
    BY <2>2, <2>3, <2>4, <2>5
<1>9. ASSUME NEW t \in Tid, UnlockResume(t) PROVE PlaceInv'
  <2>1. {"MUTEX"} \subseteq THREAD_MASK_EVENTS
    BY DEF THREAD_MASK_EVENTS
  <2> QED
    BY <1>9, <1>e, <2>1 DEF UnlockResume, Holding, RunnerInv
<1>10. ASSUME NEW s \in Source, ResumePass(s) PROVE PlaceInv'
  <2>1. {SourceFlag[s]} \subseteq THREAD_MASK_EVENTS
    BY DEF THREAD_MASK_EVENTS, Source, SourceFlag
  <2>2. pc \in Source /\ pc' \in Source \cup {"waiting"} /\ mode' = mode
    BY <1>10 DEF ResumePass, AfterPass, Source
  <2>3. (Holding' <=> Holding) /\ pc' \notin HoldPoints \cup {"boot", "runner"}
    BY <2>2 DEF Holding, HoldPoints, Source
  <2> QED
    BY <1>10, <1>e, <2>1, <2>3 DEF ResumePass
<1>11. CASE WaitingStart
  BY <1>11, <1>c, <1>q DEF WaitingStart, Holding, HoldPoints
<1>w. ASSUME WaitingIteration
      PROVE  /\ waitq \in Seq(Tid) /\ Head(waitq) \in ToSet(waitq) /\ Head(waitq) \in Tid
             /\ ToSet(HeadTaken) = ToSet(waitq) \ {Head(waitq)} /\ Distinct(HeadTaken)
             /\ ToSet(queue_roll(waitq)) = ToSet(waitq) /\ Distinct(queue_roll(waitq))
             /\ UNCHANGED <<alive, prio, delayq, running, pc, mode>>
             /\ (Holding' <=> Holding)
             /\ pc' \notin HoldPoints \cup {"boot", "runner"}
  <2>1. waitq \in Seq(Tid) /\ waitq # <<>>
    BY <1>w, <1>a DEF WaitingIteration, IterationLeft, QueueTypes, TypeInv,
                      WaitLoopHasHead, ControlTypes
  <2>2. /\ Head(waitq) \in ToSet(waitq) /\ ToSet(HeadTaken) = ToSet(waitq) \ {Head(waitq)}
        /\ Distinct(HeadTaken)
    BY <2>1, TakenSet DEF HeadTaken, NoRepeats
  <2>3. ToSet(queue_roll(waitq)) = ToSet(waitq) /\ Distinct(queue_roll(waitq))
    BY <2>1, RollSet DEF NoRepeats
  <2> QED
    BY <1>w, <1>s, <2>1, <2>2, <2>3 DEF WaitingIteration, Holding, HoldPoints
<1>12. CASE WaitingTerminated
  <2> DEFINE t == Head(waitq)
  <2>1. WaitingIteration
    BY <1>12 DEF WaitingTerminated
  <2>2. /\ state[t] = "WAITING"
        /\ waitq' = HeadTaken /\ deadq' = Append(deadq, t)
        /\ state' = [state EXCEPT ![t] = "DEAD"] /\ UNCHANGED <<flags, ready>>
    BY <1>12 DEF WaitingTerminated
  <2>3. t \in Tid /\ t \in ToSet(waitq) /\ t \notin ToSet(deadq)
    BY <2>1, <2>2, <1>w DEF DeadPlaced
  <2> HIDE DEF t
  <2>4. ToSet(deadq') = ToSet(deadq) \cup {t} /\ Distinct(deadq')
    BY <1>a, <2>2, <2>3, EnqueueSet DEF QueueTypes, NoRepeats
  <2>5. ToSet(waitq') = ToSet(waitq) \ {t} /\ Distinct(waitq')
    BY <1>w, <2>1, <2>2 DEF t
  <2>6. state'[t] = "DEAD" /\ \A u \in Tid : u # t => state'[u] = state[u]
    BY <1>a, <2>2, <2>3 DEF ThreadTypes
  <2>7. NoRepeats'
    BY <1>w, <2>1, <2>2, <2>4, <2>5 DEF NoRepeats
  <2>8. ReadyPlaced'
    BY <1>s, <1>w, <2>1, <2>2, <2>3, <2>6 DEF ReadyPlaced, WaitPlaced
  <2>9. WaitPlaced'
    BY <1>s, <1>w, <2>1, <2>2, <2>5, <2>6 DEF WaitPlaced
  <2>10. DelayPlaced' /\ DeadPlaced'
    BY <1>s, <1>w, <2>1, <2>2, <2>3, <2>4, <2>6 DEF DelayPlaced, DeadPlaced, WaitPlaced
  <2>11. RunnerInv'
    BY <1>a, <1>r, <1>w, <2>1, <2>2, <2>3, <2>6 DEF RunnerInv, WaitPlaced, ThreadTypes
  <2> QED
    BY <2>7, <2>8, <2>9, <2>10, <2>11
<1>m. ASSUME NEW t \in Tid, t \in ToSet(waitq),
             waitq' = HeadTaken, ToSet(waitq') = ToSet(waitq) \ {t}, Distinct(waitq'),
             ready' = [ready EXCEPT ![prio[t]] = Append(@, t)],
             state'[t] = "READY", \A u \in Tid : u # t => state'[u] = state[u] /\ flags'[u] = flags[u],
             UNCHANGED <<alive, prio, delayq, deadq, running>>, Holding' <=> Holding,
             pc' \notin HoldPoints \cup {"boot", "runner"}
      PROVE  PlaceInv'
  <2>1. prio[t] \in Prio /\ \A q \in Prio : t \notin ToSet(ready[q])
    BY <1>a, <1>m DEF ThreadTypes, WaitPlaced
  <2>2. /\ \A q \in Prio : ToSet(ready'[q]) = ToSet(ready[q]) \cup (IF q = prio[t] THEN {t} ELSE {})
        /\ \A q \in Prio : Distinct(ready'[q])
    BY <1>a, <1>m, <2>1, ReadyEnqueue DEF NoRepeats
  <2>3. t \notin ToSet(delayq) /\ t \notin ToSet(deadq) /\ t \in alive
    BY <1>m DEF WaitPlaced, DeadPlaced
  <2>4. NoRepeats'
    BY <1>m, <2>2 DEF NoRepeats
  <2>5. ReadyPlaced'
    BY <1>s, <1>m, <2>2, <2>3 DEF ReadyPlaced
  <2>6. WaitPlaced'
    BY <1>s, <1>m, <2>2 DEF WaitPlaced
  <2>7. DelayPlaced' /\ DeadPlaced'
    BY <1>s, <1>m, <2>3 DEF DelayPlaced, DeadPlaced
  <2>8. Holding => running # t
    BY <1>m, <1>r
  <2>9. RunnerInv'
    BY <1>a, <1>m, <1>r, <2>8 DEF RunnerInv, ThreadTypes
  <2> QED
    BY <2>4, <2>5, <2>6, <2>7, <2>9
<1>13. CASE WaitingExpired
  <2> DEFINE t  == Head(waitq)
             fl == flags[t] \cap THREAD_MASK_EVENTS
  <2>1. WaitingIteration
    BY <1>13 DEF WaitingExpired
  <2>2. /\ waitq' = HeadTaken /\ ResumeAll(fl, {t}) /\ deadq' = deadq
        /\ ready' = IF CanResume(fl, t)
                    THEN [ready EXCEPT ![prio[t]] = Append(@, t)] ELSE ready
    BY <1>13 DEF WaitingExpired
  <2>3. t \in Tid /\ t \in ToSet(waitq) /\ ToSet(waitq') = ToSet(waitq) \ {t} /\ Distinct(waitq')
    BY <1>w, <2>1, <2>2
  <2>4. /\ \A u \in Tid : u # t => state'[u] = state[u] /\ flags'[u] = flags[u]
        /\ CanResume(fl, t) => state'[t] = "READY"
        /\ ~CanResume(fl, t) => state'[t] = state[t] /\ flags'[t] = flags[t]
    BY <1>a, <2>2, <2>3, Resumed
  <2> HIDE DEF t, fl
  <2>5. CASE CanResume(fl, t)
    BY <1>m, <1>w, <2>1, <2>2, <2>3, <2>4, <2>5
  <2>6. CASE ~CanResume(fl, t)
    <3>1. \A u \in Tid : state'[u] = state[u] /\ flags'[u] = flags[u]
      BY <2>4, <2>6
    <3>2. ready' = ready
      BY <2>2, <2>6
    <3>3. NoRepeats' /\ ReadyPlaced' /\ WaitPlaced'
      BY <1>s, <1>w, <2>1, <2>2, <2>3, <3>1, <3>2 DEF NoRepeats, ReadyPlaced, WaitPlaced
    <3>4. DelayPlaced' /\ DeadPlaced'
      BY <1>s, <1>w, <2>1, <2>2, <3>1 DEF DelayPlaced, DeadPlaced
    <3>5. RunnerInv'
      BY <1>a, <1>w, <2>1, <3>1 DEF RunnerInv, ThreadTypes
    <3> QED
      BY <3>3, <3>4, <3>5
  <2> QED
    BY <2>5, <2>6
<1>14. CASE WaitingStays
  <2>1. WaitingIteration /\ waitq' = queue_roll(waitq) /\ UNCHANGED <<state, flags, ready, deadq>>
    BY <1>14 DEF WaitingStays
  <2>2. ToSet(waitq') = ToSet(waitq) /\ Distinct(waitq')
    BY <1>w, <2>1
  <2>3. NoRepeats' /\ ReadyPlaced' /\ WaitPlaced'
    BY <1>w, <2>1, <2>2 DEF NoRepeats, ReadyPlaced, WaitPlaced
  <2>4. DelayPlaced' /\ DeadPlaced'
    BY <1>w, <2>1 DEF DelayPlaced, DeadPlaced
  <2>5. RunnerInv'
    BY <1>w, <1>c, <2>1
  <2> QED
    BY <2>3, <2>4, <2>5
<1>15. CASE WaitingReady
  <2> DEFINE t == Head(waitq)
  <2>1. /\ WaitingIteration /\ state[t] = "READY" /\ waitq' = HeadTaken
        /\ ready' = [ready EXCEPT ![prio[t]] = Append(@, t)]
        /\ UNCHANGED <<state, flags, deadq>>
    BY <1>15 DEF WaitingReady
  <2>2. t \in Tid /\ t \in ToSet(waitq) /\ ToSet(waitq') = ToSet(waitq) \ {t} /\ Distinct(waitq')
    BY <1>w, <2>1
  <2> HIDE DEF t
  <2> QED
    BY <1>m, <1>w, <2>1, <2>2
<1>16. CASE WaitingEnd
  BY <1>16, <1>c, <1>q DEF WaitingEnd, Holding, HoldPoints
<1>17. CASE DelayedStart
  BY <1>17, <1>c, <1>q DEF DelayedStart, Holding, HoldPoints
<1>18. CASE DelayedExpired
  <2> DEFINE t == Head(delayq)
  <2>1. /\ delayq # <<>> /\ delayq' = Tail(delayq) /\ ResumeAll(SleepFlags, {t})
        /\ ready' = IF CanResume(SleepFlags, t)
                    THEN [ready EXCEPT ![prio[t]] = Append(@, t)] ELSE ready
        /\ UNCHANGED <<alive, prio, waitq, deadq, running, pc, mode>> /\ pc = "delayed_loop"
    BY <1>18 DEF DelayedExpired
  <2>2. /\ t \in ToSet(delayq) /\ ToSet(delayq') = ToSet(delayq) \ {t} /\ Distinct(delayq')
    BY <1>a, <2>1, DequeueSet DEF QueueTypes, NoRepeats
  <2>3. t \in Tid /\ prio[t] \in Prio
    BY <1>a, <1>s, <2>2 DEF ThreadTypes
  <2> HIDE DEF t
  <2>4. /\ \A u \in Tid : u # t => state'[u] = state[u] /\ flags'[u] = flags[u]
        /\ state'[t] \in {"READY", "WAITING"}
        /\ CanResume(SleepFlags, t) => state'[t] = "READY"
    BY <1>a, <2>1, <2>2, <2>3, Resumed DEF DelayPlaced
  <2>5. t \in alive /\ t \notin ToSet(waitq) /\ t \notin ToSet(deadq)
        /\ \A q \in Prio : t \notin ToSet(ready[q])
    BY <2>2 DEF DelayPlaced, WaitPlaced, DeadPlaced, ReadyPlaced
  <2>6. /\ \A q \in Prio : Distinct(ready'[q])
        /\ \A q \in Prio : ToSet(ready'[q]) = ToSet(ready[q]) \cup
                (IF CanResume(SleepFlags, t) /\ q = prio[t] THEN {t} ELSE {})
    <3>1. CASE CanResume(SleepFlags, t)
      <4>1. ready' = [ready EXCEPT ![prio[t]] = Append(@, t)]
        BY <2>1, <3>1
      <4>2. /\ \A q \in Prio : ToSet(ready'[q]) = ToSet(ready[q]) \cup (IF q = prio[t] THEN {t} ELSE {})
            /\ \A q \in Prio : Distinct(ready'[q])
        BY <1>a, <2>3, <2>5, <4>1, ReadyEnqueue DEF NoRepeats
      <4> QED
        BY <3>1, <4>2
    <3>2. CASE ~CanResume(SleepFlags, t)
      BY <2>1, <3>2 DEF NoRepeats
    <3> QED
      BY <3>1, <3>2
  <2>7. NoRepeats'
    BY <2>1, <2>2, <2>6 DEF NoRepeats
  <2>8. ReadyPlaced'
    <3> SUFFICES ASSUME NEW q \in Prio, NEW u \in ToSet(ready'[q])
                 PROVE  u \in alive' /\ prio'[u] = q /\ state'[u] = "READY"
      BY DEF ReadyPlaced
    <3>1. UNCHANGED <<alive, prio>>
      BY <2>1
    <3>2. CASE u \in ToSet(ready[q])
      <4>1. u \in alive /\ prio[u] = q /\ state[u] = "READY" /\ u \in Tid /\ u # t
        BY <1>s, <2>5, <3>2 DEF ReadyPlaced
      <4> QED
        BY <2>4, <3>1, <4>1
    <3>3. CASE u \notin ToSet(ready[q])
      <4>1. u = t /\ q = prio[t] /\ CanResume(SleepFlags, t)
        BY <2>6, <3>3
      <4> QED
        BY <2>4, <2>5, <3>1, <4>1
    <3> QED
      BY <3>2, <3>3
  <2>9. WaitPlaced'
    <3>1. \A u \in ToSet(waitq) : u \in Tid /\ u # t /\ state'[u] = state[u]
      BY <1>s, <2>4, <2>5
    <3>2. \A p \in Prio : ToSet(ready'[p]) \subseteq ToSet(ready[p]) \cup {t}
      BY <2>6
    <3> QED
      BY <2>1, <2>2, <3>1, <3>2 DEF WaitPlaced
  <2>10. DelayPlaced' /\ DeadPlaced'
    BY <1>s, <2>1, <2>2, <2>4, <2>5 DEF DelayPlaced, DeadPlaced
  <2>11. Holding => running # t
    BY <1>r, <2>2
  <2>12. RunnerInv'
    BY <1>a, <1>r, <2>1, <2>4, <2>11 DEF RunnerInv, Holding, HoldPoints, ThreadTypes
  <2> QED
    BY <2>7, <2>8, <2>9, <2>10, <2>12
<1>19. CASE DelayedEnd
  BY <1>19, <1>c, <1>q DEF DelayedEnd, Holding, HoldPoints
<1>20. CASE SetPeriod
  <2>1. mode' = mode /\ (mode = "schedule" => pc' = "runner") /\ (mode # "schedule" => pc' = "may_check")
    BY <1>20 DEF SetPeriod
  <2>2. pc \notin HoldPoints /\ pc' \notin HoldPoints /\ pc' # "boot"
    BY <1>20 DEF SetPeriod, HoldPoints
  <2>3. (Holding' <=> Holding) /\ (pc' \in HoldPoints \cup {"boot", "runner"} => mode' = "schedule")
    BY <2>1, <2>2 DEF Holding, HoldPoints
  <2> QED
    BY <1>20, <1>c, <1>q, <2>3 DEF SetPeriod
<1>21. CASE MayStay
  BY <1>21, <1>c, <1>q DEF MayStay, Holding, HoldPoints, TypeInv, CallerKnown
<1>22. CASE MaySuspend
  BY <1>3, <1>22 DEF MaySuspend, TypeInv, CallerKnown, Holding
<1>23. CASE NewRunner
  <2>1. PICK q \in Prio :
          /\ FirstReady(q)
          /\ ready' = [ready EXCEPT ![q] = Tail(@)]
          /\ LET t == Head(ready[q])
             IN  IF Doomed(t)
                 THEN /\ deadq' = Append(deadq, t)
                      /\ state' = [state EXCEPT ![t] = "DEAD"]
                      /\ UNCHANGED <<running, pc>>
                 ELSE /\ running' = t
                      /\ state' = [state EXCEPT ![t] = "RUNNING"]
                      /\ pc' = "house"
                      /\ UNCHANGED deadq
    BY <1>23 DEF NewRunner
  <2> DEFINE t == Head(ready[q])
  <2>2. pc = "runner" /\ UNCHANGED <<alive, prio, flags, waitq, delayq, mode>>
    BY <1>23 DEF NewRunner
  <2>3. ready[q] \in Seq(Tid) /\ ready[q] # <<>>
    BY <1>a, <2>1 DEF QueueTypes, FirstReady, ReadyPrios
  <2>4. /\ t \in ToSet(ready[q]) /\ ToSet(Tail(ready[q])) = ToSet(ready[q]) \ {t}
        /\ Distinct(Tail(ready[q])) /\ t \in Tid
    BY <1>s, <2>3, DequeueSet DEF NoRepeats
  <2>5. /\ ready'[q] = Tail(ready[q])
        /\ \A p \in Prio : p # q => ready'[p] = ready[p]
    BY <1>a, <2>1 DEF QueueTypes
  <2>6. t \in alive /\ prio[t] = q /\ state[t] = "READY" /\ t \notin ToSet(waitq)
        /\ t \notin ToSet(delayq) /\ t \notin ToSet(deadq)
    BY <2>4 DEF ReadyPlaced, WaitPlaced, DelayPlaced, DeadPlaced
  <2>7. \A p \in Prio : p # q => t \notin ToSet(ready[p])
    BY <2>6 DEF ReadyPlaced
  <2>8. ~Holding /\ mode = "schedule"
    BY <2>2 DEF Holding, HoldPoints, RunnerInv
  <2>9. /\ Doomed(t) => /\ deadq' = Append(deadq, t) /\ state' = [state EXCEPT ![t] = "DEAD"]
                        /\ UNCHANGED <<running, pc>>
        /\ ~Doomed(t) => /\ running' = t /\ state' = [state EXCEPT ![t] = "RUNNING"]
                         /\ pc' = "house" /\ UNCHANGED deadq
    BY <2>1
  <2> HIDE DEF t
  <2>10. \A p \in Prio : /\ Distinct(ready'[p]) /\ ToSet(ready'[p]) \subseteq ToSet(ready[p])
                         /\ t \notin ToSet(ready'[p])
    BY <2>4, <2>5, <2>7 DEF NoRepeats
  <2>11. \A u \in Tid : u # t => state'[u] = state[u]
    BY <1>a, <2>4, <2>9 DEF ThreadTypes
  <2>12. ReadyPlaced' /\ WaitPlaced' /\ DelayPlaced'
    BY <1>s, <2>2, <2>6, <2>10, <2>11 DEF ReadyPlaced, WaitPlaced, DelayPlaced
  <2>13. CASE Doomed(t)
    <3>0. deadq \in Seq(Tid) /\ Distinct(deadq) /\ deadq' = Append(deadq, t)
      BY <1>a, <2>9, <2>13 DEF QueueTypes, NoRepeats
    <3>1. ToSet(deadq') = ToSet(deadq) \cup {t} /\ Distinct(deadq')
      BY <2>4, <2>6, <3>0, EnqueueSet
    <3>2. state'[t] = "DEAD"
      BY <1>a, <2>4, <2>9, <2>13 DEF ThreadTypes
    <3>3. DeadPlaced'
      BY <1>s, <2>2, <2>6, <2>11, <3>1, <3>2 DEF DeadPlaced
    <3>4. NoRepeats'
      BY <2>2, <2>10, <3>1 DEF NoRepeats
    <3>5. RunnerInv'
      <4>1. ~Holding' /\ mode' = "schedule"
        BY <2>2, <2>8, <2>9, <2>13 DEF Holding
      <4> QED
        BY <1>a, <2>2, <2>8, <2>11, <3>2, <4>1 DEF RunnerInv, ThreadTypes
    <3> QED
      BY <2>12, <3>3, <3>4, <3>5
  <2>14. CASE ~Doomed(t)
    <3>1. deadq' = deadq /\ running' = t /\ state'[t] = "RUNNING" /\ pc' = "house"
      BY <1>a, <2>4, <2>9, <2>14 DEF ThreadTypes
    <3>2. DeadPlaced'
      BY <1>s, <2>2, <2>6, <2>11, <3>1 DEF DeadPlaced
    <3>3. NoRepeats'
      BY <2>2, <2>10, <3>1 DEF NoRepeats
    <3>4. RunnerInv'
      <4>1. Holding' /\ mode' = "schedule" /\ "TERMINATE" \notin flags'[t]
        BY <2>2, <2>8, <2>14, <3>1 DEF Holding, HoldPoints, Doomed
      <4> QED
        BY <1>a, <2>2, <2>6, <2>8, <2>11, <3>1, <4>1 DEF RunnerInv, ThreadTypes
    <3> QED
      BY <2>12, <3>2, <3>3, <3>4
  <2> QED
    BY <2>13, <2>14
<1>24. CASE HouseStart
  BY <1>24, <1>c, <1>q DEF HouseStart, Holding, HoldPoints, RunnerInv
<1>25. CASE HouseIteration
  <2> DEFINE t == Head(deadq)
  <2>1. /\ pc = "house_loop" /\ deadq # <<>>
        /\ UNCHANGED <<ready, waitq, delayq, running, pc, mode>>
    BY <1>25 DEF HouseIteration
  <2>2. deadq \in Seq(Tid) /\ Distinct(deadq)
    BY <1>a DEF QueueTypes, NoRepeats
  <2>3. Holding
    BY <2>1 DEF Holding, HoldPoints
  <2>4. t \in ToSet(deadq) /\ t \in Tid /\ t \in alive /\ state[t] = "DEAD" /\ t # running
    BY <1>s, <1>r, <2>1, <2>2, <2>3, DequeueSet DEF DeadPlaced
  <2>5. ToSet(Tail(deadq)) = ToSet(deadq) \ {t} /\ Distinct(Tail(deadq))
    BY <2>1, <2>2, DequeueSet
  <2>6. deadq' = Tail(deadq) /\ done_thread(t)
    BY <1>25, <2>4 DEF HouseIteration
  <2> HIDE DEF t
  <2>7. /\ alive' = alive \ {t}
        /\ \A u \in Tid : u # t => state'[u] = state[u] /\ flags'[u] = flags[u] /\ prio'[u] = prio[u]
    BY <1>a, <2>4, <2>6 DEF done_thread, ThreadTypes
  <2>8. \A p \in Prio : t \notin ToSet(ready[p])
    BY <2>4 DEF ReadyPlaced
  <2>9. t \notin ToSet(waitq) /\ t \notin ToSet(delayq)
    BY <2>4 DEF WaitPlaced, DelayPlaced
  <2>10. NoRepeats'
    BY <2>1, <2>5, <2>6 DEF NoRepeats
  <2>11. ReadyPlaced' /\ WaitPlaced'
    BY <1>s, <2>1, <2>7, <2>8, <2>9 DEF ReadyPlaced, WaitPlaced
  <2>12. DelayPlaced' /\ DeadPlaced'
    BY <1>s, <2>1, <2>5, <2>6, <2>7, <2>9 DEF DelayPlaced, DeadPlaced
  <2>13. RunnerInv'
    BY <1>a, <1>r, <2>1, <2>3, <2>4, <2>7 DEF RunnerInv, Holding, ThreadTypes
  <2> QED
    BY <2>10, <2>11, <2>12, <2>13
<1>26. CASE HouseEnd
  BY <1>26, <1>c, <1>q DEF HouseEnd, Holding, HoldPoints, RunnerInv
<1>27. CASE SwitchContext
  BY <1>27, <1>c, <1>q DEF SwitchContext, Holding, HoldPoints, RunnerInv
<1>28. CASE ClockTick
  BY <1>28, <1>c, <1>q DEF ClockTick, Holding, RunnerInv
<1>29. ASSUME NEW s, NEW t, Signal(s, t) PROVE PlaceInv'
  BY <1>29, <1>c, <1>q DEF Signal, Holding, RunnerInv
<1>30. CASE UNCHANGED vars
  BY <1>30, <1>c, <1>q DEF vars, Holding, RunnerInv
<1>u. pc = "user" => Holding
  BY DEF Holding, HoldPoints
<1>31. CASE IdleThread
  BY <1>3, <1>31, <1>u DEF IdleThread, thread_suspend
<1>32. CASE TimersThread
  BY <1>6, <1>32 DEF TimersThread
<1>33. CASE AppYields
  BY <1>3, <1>4, <1>5, <1>6, <1>7, <1>33, <1>u, Constants DEF AppYields, thread_suspend
<1>34. CASE AppCreates
  BY <1>2, <1>34, Constants DEF AppCreates
<1>35. CASE AppKills
  BY <1>8, <1>35 DEF AppKills
<1>36. CASE AppUnlocks
  BY <1>9, <1>36 DEF AppUnlocks
<1>37. CASE Interrupt
  BY <1>28, <1>29, <1>37 DEF Interrupt
<1> QED
  BY <1>1, <1>10, <1>11, <1>12, <1>13, <1>14, <1>15, <1>16, <1>17, <1>18, <1>19,
     <1>20, <1>21, <1>22, <1>23, <1>24, <1>25, <1>26, <1>27, <1>30, <1>31, <1>32,
     <1>33, <1>34, <1>35, <1>36, <1>37
     DEF Next, UpdateSchedule, ScheduleThread, Panicked

(***************************************************************************)
(* delay_queue is sorted and the thread chosen is of the highest class.    *)
(***************************************************************************)
OrderInv == DelaySorted /\ RunnerIsHighest

(* The place scheduler_delay_thread finds keeps the queue sorted.          *)
LEMMA InsertSorted ==
    ASSUME QueueTypes, ThreadTypes, DelaySorted, NEW x \in Tid, x \notin ToSet(delayq),
           NEW w \in Nat, NEW p \in 1 .. Len(delayq) + 1, DelayPlace(p, w),
           delayq' = InsertAt(delayq, p, x), delay' = [delay EXCEPT ![x] = w]
    PROVE  DelaySorted'
<1> DEFINE n == Len(delayq)
<1>1. delayq \in Seq(Tid) /\ n \in Nat /\ DOMAIN delayq = 1 .. n
  BY DEF QueueTypes
<1>2. /\ delayq' \in Seq(Tid) /\ Len(delayq') = n + 1
      /\ \A a \in 1 .. n + 1 : delayq'[a] = IF a < p THEN delayq[a]
                                            ELSE IF a = p THEN x ELSE delayq[a - 1]
  <2>1. delayq' \in Seq(Tid)
    BY <1>1, InsertType
  <2>2. /\ Len(InsertAt(delayq, p, x)) = Len(delayq) + 1
        /\ \A a \in 1 .. Len(delayq) + 1 : InsertAt(delayq, p, x)[a] =
                IF a < p THEN delayq[a] ELSE IF a = p THEN x ELSE delayq[a - 1]
    BY <1>1, InsertAtPositions
  <2> QED
    BY <2>1, <2>2
<1>3. DOMAIN delayq' = 1 .. n + 1
  BY <1>1, <1>2
<1>4. \A a \in 1 .. n : delayq[a] \in Tid /\ delayq[a] # x
  BY <1>1, QueueMembers
<1>5. delay'[x] = w /\ \A a \in 1 .. n : delay'[delayq[a]] = delay[delayq[a]] /\ delay[delayq[a]] \in Nat
  BY <1>4 DEF ThreadTypes
<1>6. \A a, b \in 1 .. n : a < b => delay[delayq[a]] <= delay[delayq[b]]
  BY <1>1 DEF DelaySorted
<1>7. \A a \in 1 .. n : a < p => delay[delayq[a]] <= w
  BY <1>1 DEF DelayPlace
<1>8. \A a \in 1 .. n : a >= p => w <= delay[delayq[a]]
  <2>1. SUFFICES ASSUME NEW a \in 1 .. n, a >= p PROVE w <= delay[delayq[a]]
    OBVIOUS
  <2>2. p \in 1 .. n /\ w < delay[delayq[p]]
    BY <1>1, <2>1 DEF DelayPlace
  <2>3. delay[delayq[p]] <= delay[delayq[a]]
    BY <1>1, <1>5, <1>6, <2>1, <2>2
  <2> QED
    BY <1>5, <2>2, <2>3
<1> HIDE DEF n
<1>9. \A a \in 1 .. n + 1 : \/ a < p /\ a \in 1 .. n /\ delayq'[a] = delayq[a]
                            \/ a = p /\ delayq'[a] = x
                            \/ a > p /\ a - 1 \in 1 .. n /\ a - 1 >= p /\ delayq'[a] = delayq[a - 1]
  BY <1>1, <1>2 DEF n
<1>10. SUFFICES ASSUME NEW a \in 1 .. n + 1, NEW b \in 1 .. n + 1, a < b
                PROVE  delay'[delayq'[a]] <= delay'[delayq'[b]]
  BY <1>3 DEF DelaySorted
<1>11. CASE a < p /\ b < p
  BY <1>1, <1>5, <1>6, <1>9, <1>10, <1>11
<1>12. CASE a < p /\ b = p
  BY <1>1, <1>5, <1>7, <1>9, <1>10, <1>12
<1>13. CASE a < p /\ b > p
  <2>1. a \in 1 .. n /\ b - 1 \in 1 .. n /\ a < b - 1
    BY <1>1, <1>9, <1>10, <1>13
  <2> QED
    BY <1>1, <1>5, <1>6, <1>9, <1>13, <2>1
<1>14. CASE a = p
  BY <1>1, <1>5, <1>8, <1>9, <1>10, <1>14
<1>15. CASE a > p
  <2>1. a - 1 \in 1 .. n /\ b - 1 \in 1 .. n /\ a - 1 < b - 1
    BY <1>1, <1>9, <1>10, <1>15
  <2>2. delay[delayq[a - 1]] <= delay[delayq[b - 1]]
    BY <1>6, <2>1
  <2>3. delayq'[a] = delayq[a - 1] /\ delayq'[b] = delayq[b - 1]
    BY <1>1, <1>9, <1>10, <1>15
  <2> QED
    BY <1>5, <2>1, <2>2, <2>3
<1> QED
  BY <1>1, <1>10, <1>11, <1>12, <1>13, <1>14, <1>15

(* The pass over delay_queue takes threads out at its head.                *)
LEMMA TailSorted ==
    ASSUME QueueTypes, DelaySorted, delayq # <<>>, delayq' = Tail(delayq),
           \A a \in 2 .. Len(delayq) : delay'[delayq[a]] = delay[delayq[a]]
    PROVE  DelaySorted'
<1>1. /\ delayq \in Seq(Tid) /\ Len(delayq) \in Nat /\ Len(delayq) >= 1
      /\ DOMAIN delayq = 1 .. Len(delayq)
  BY DEF QueueTypes
<1>2. /\ DOMAIN Tail(delayq) = 1 .. Len(delayq) - 1
      /\ \A a \in 1 .. Len(delayq) - 1 : Tail(delayq)[a] = delayq[a + 1]
  BY <1>1
<1>3. \A a, b \in 1 .. Len(delayq) : a < b => delay[delayq[a]] <= delay[delayq[b]]
  BY <1>1 DEF DelaySorted
<1>4. SUFFICES ASSUME NEW a \in 1 .. Len(delayq) - 1, NEW b \in 1 .. Len(delayq) - 1, a < b
               PROVE  delay'[delayq[a + 1]] <= delay'[delayq[b + 1]]
  <2>1. /\ DOMAIN delayq' = 1 .. Len(delayq) - 1
        /\ \A c \in 1 .. Len(delayq) - 1 : delayq'[c] = delayq[c + 1]
    BY <1>2
  <2> QED
    BY <1>4, <2>1 DEF DelaySorted
<1>5. a + 1 \in 2 .. Len(delayq) /\ b + 1 \in 2 .. Len(delayq) /\ a + 1 < b + 1
  BY <1>1, <1>4
<1>6. a + 1 \in 1 .. Len(delayq) /\ b + 1 \in 1 .. Len(delayq)
  BY <1>1, <1>5
<1> QED
  BY <1>3, <1>5, <1>6

(* Every step keeps both orders: the delay of a thread of delay_queue      *)
(* never changes, and no ready queue is filled once a thread was chosen.   *)
LEMMA NextOrderInv ==
    SparesMutexWaiters /\ TypeInv /\ PlaceInv /\ OrderInv /\ [Next]_vars => OrderInv'
<1> SUFFICES ASSUME SparesMutexWaiters, TypeInv, PlaceInv, OrderInv, [Next]_vars PROVE OrderInv'
  OBVIOUS
<1> USE DEF OrderInv, PlaceInv, Placed, threadVars, slotVars, fieldVars, queueVars, cpuVars,
            EnterSchedule
<1> DEFINE Chosen == {"house", "house_loop", "switch"}
<1>a. ThreadTypes /\ QueueTypes /\ ControlTypes /\ ClockTypes
  BY DEF TypeInv, TypeOK
<1>s. ToSet(delayq) \subseteq Tid
  BY <1>a, QueueSets
<1>r. ASSUME pc = "user"
      PROVE  running \in Tid /\ running \notin ToSet(delayq)
  BY <1>a, <1>r DEF RunnerInv, Holding, HoldPoints, DelayPlaced, ThreadTypes
<1>p. /\ DOMAIN delayq = 1 .. Len(delayq)
      /\ \A a \in 1 .. Len(delayq) : delayq[a] \in ToSet(delayq)
  BY <1>a, QueueMembers DEF QueueTypes
<1>d. ASSUME delayq' = delayq, \A t \in ToSet(delayq) : delay'[t] = delay[t] PROVE DelaySorted'
  BY <1>d, <1>p DEF DelaySorted
<1>h. ASSUME pc' \notin Chosen PROVE RunnerIsHighest'
  BY <1>h DEF RunnerIsHighest
<1>k. ASSUME UNCHANGED <<prio, ready, running>>, pc' \in Chosen => pc \in Chosen PROVE RunnerIsHighest'
  BY <1>k DEF RunnerIsHighest
<1>e. ASSUME NEW fl, NEW S, ResumeAll(fl, S), fl \subseteq THREAD_MASK_EVENTS, delayq' = delayq
      PROVE  DelaySorted'
  <2>1. \A t \in ToSet(delayq) : ~CanResume(fl, t)
    BY <1>e DEF DelayPlaced, CanResume
  <2>2. \A t \in ToSet(delayq) : delay'[t] = delay[t]
    BY <1>a, <1>e, <1>s, <2>1, Resumed
  <2> QED
    BY <1>d, <1>e, <2>2
<1>1. CASE KernelRun
  BY <1>1, <1>d, <1>h DEF KernelRun
<1>2. ASSUME NEW p \in Prio, thread_create(p), pc \in {"boot", "user"} PROVE OrderInv'
  <2>1. PICK t \in Tid \ alive : delay' = [delay EXCEPT ![t] = 0]
    BY <1>2 DEF thread_create
  <2>2. \A u \in ToSet(delayq) : delay'[u] = delay[u]
    BY <1>a, <1>s, <2>1 DEF ThreadTypes, DelayPlaced
  <2> QED
    BY <1>2, <1>d, <1>h, <2>2 DEF thread_create
<1>3. ASSUME SuspendRunning PROVE OrderInv'
  BY <1>3, <1>d, <1>h DEF SuspendRunning
<1>4. CASE thread_may_suspend
  BY <1>4, <1>d, <1>h DEF thread_may_suspend
<1>5. ASSUME NEW d \in Nat, thread_delay(d) PROVE OrderInv'
  <2> DEFINE w == d + now
  <2>1. PICK p \in 1 .. Len(delayq) + 1 : DelayPlace(p, w) /\ delayq' = InsertAt(delayq, p, running)
    BY <1>5 DEF thread_delay
  <2>2. w \in Nat /\ delay' = [delay EXCEPT ![running] = w] /\ pc = "user" /\ pc' = "events"
    BY <1>5, <1>a DEF thread_delay, ClockTypes
  <2> HIDE DEF w
  <2>3. DelaySorted'
    BY <1>a, <1>r, <2>1, <2>2, InsertSorted
  <2> QED
    BY <1>h, <2>2, <2>3
<1>6. ASSUME NEW k, NEW d, Wait(k, d) PROVE OrderInv'
  <2>1. /\ delay' = [delay EXCEPT ![running] = IF d = 0 THEN 0 ELSE now + d]
        /\ delayq' = delayq /\ pc = "user" /\ pc' = "events"
    BY <1>6 DEF Wait, WaitRunning
  <2>2. \A u \in ToSet(delayq) : delay'[u] = delay[u]
    BY <1>a, <1>r, <1>s, <2>1 DEF ThreadTypes
  <2> QED
    BY <1>d, <1>h, <2>1, <2>2
<1>7. CASE thread_terminate
  BY <1>7, <1>d, <1>h DEF thread_terminate
<1>8. ASSUME NEW t, thread_kill(t) PROVE OrderInv'
  <2>1. UNCHANGED <<delay, delayq, prio, ready, running>> /\ pc = "user" /\ pc' \in {"user", "panic"}
    BY <1>8 DEF thread_kill, RemoveThread, PanicKill
  <2> QED
    BY <1>d, <1>h, <2>1
<1>9. ASSUME NEW t, UnlockResume(t) PROVE OrderInv'
  <2>1. {"MUTEX"} \subseteq THREAD_MASK_EVENTS
    BY DEF THREAD_MASK_EVENTS
  <2> QED
    BY <1>9, <1>e, <1>h, <2>1 DEF UnlockResume
<1>10. ASSUME NEW s \in Source, ResumePass(s) PROVE OrderInv'
  <2>1. {SourceFlag[s]} \subseteq THREAD_MASK_EVENTS /\ AfterPass[s] \notin Chosen
    BY DEF THREAD_MASK_EVENTS, Source, SourceFlag, AfterPass
  <2> QED
    BY <1>10, <1>e, <1>h, <2>1 DEF ResumePass
<1>11. CASE WaitingStart
  BY <1>11, <1>d, <1>h DEF WaitingStart
<1>12. CASE WaitingTerminated
  BY <1>12, <1>d, <1>h DEF WaitingTerminated, WaitingIteration
<1>13. CASE WaitingExpired
  <2>1. \E t : ResumeAll(flags[t] \cap THREAD_MASK_EVENTS, {t})
    BY <1>13 DEF WaitingExpired
  <2>2. DelaySorted'
    BY <1>13, <1>e, <2>1 DEF WaitingExpired, WaitingIteration
  <2> QED
    BY <1>13, <1>h, <2>2 DEF WaitingExpired, WaitingIteration
<1>14. CASE WaitingStays
  BY <1>14, <1>d, <1>h DEF WaitingStays, WaitingIteration
<1>15. CASE WaitingReady
  BY <1>15, <1>d, <1>h DEF WaitingReady, WaitingIteration
<1>16. CASE WaitingEnd
  BY <1>16, <1>d, <1>h DEF WaitingEnd
<1>17. CASE DelayedStart
  BY <1>17, <1>d, <1>h DEF DelayedStart
<1>18. CASE DelayedExpired
  <2>1. /\ delayq # <<>> /\ delayq' = Tail(delayq) /\ ResumeAll(SleepFlags, {Head(delayq)})
        /\ pc' = "delayed_loop"
    BY <1>18 DEF DelayedExpired
  <2>2. \A a \in 2 .. Len(delayq) : delayq[a] # Head(delayq) /\ delayq[a] \in Tid
    <3>1. delayq \in Seq(Tid) /\ Distinct(delayq) /\ Head(delayq) = delayq[1] /\ Len(delayq) >= 1
      BY <1>a, <2>1 DEF QueueTypes, NoRepeats
    <3>2. \A a \in 2 .. Len(delayq) : a \in 1 .. Len(delayq) /\ 1 \in 1 .. Len(delayq) /\ a # 1
      BY <3>1
    <3> QED
      BY <3>1, <3>2 DEF Distinct
  <2>3. \A a \in 2 .. Len(delayq) : delay'[delayq[a]] = delay[delayq[a]]
    BY <1>a, <2>1, <2>2, Resumed
  <2> QED
    BY <1>a, <1>h, <2>1, <2>3, TailSorted
<1>19. CASE DelayedEnd
  BY <1>19, <1>d, <1>h DEF DelayedEnd
<1>20. CASE SetPeriod
  BY <1>20, <1>d, <1>h DEF SetPeriod
<1>21. CASE MayStay
  BY <1>21, <1>d, <1>h DEF MayStay
<1>22. CASE MaySuspend
  BY <1>3, <1>22 DEF MaySuspend
<1>23. CASE NewRunner
  <2>1. PICK q \in Prio :
          /\ FirstReady(q)
          /\ ready' = [ready EXCEPT ![q] = Tail(@)]
          /\ pc' \in Chosen => running' = Head(ready[q])
    BY <1>23 DEF NewRunner
  <2>2. DelaySorted'
    BY <1>23, <1>d DEF NewRunner
  <2>3. ready[q] \in Seq(Tid) /\ ready[q] # <<>>
    BY <1>a, <2>1 DEF QueueTypes, FirstReady, ReadyPrios
  <2>4. prio[Head(ready[q])] = q
    BY <2>3, DequeueSet DEF ReadyPlaced, NoRepeats
  <2>5. \A r \in Prio : r < q => ready'[r] = <<>>
    <3>1. \A r \in Prio : r < q => r # q /\ ready[r] = <<>>
      BY <2>1 DEF FirstReady, ReadyPrios, Prio, THREAD_PRIORITIES
    <3> QED
      BY <1>a, <2>1, <3>1 DEF QueueTypes
  <2>6. prio' = prio
    BY <1>23 DEF NewRunner
  <2> QED
    BY <2>1, <2>2, <2>4, <2>5, <2>6 DEF RunnerIsHighest
<1>24. CASE HouseStart
  BY <1>24, <1>d, <1>k DEF HouseStart
<1>25. CASE HouseIteration
  <2> DEFINE t == Head(deadq)
  <2>1. /\ pc = "house_loop" /\ deadq # <<>> /\ UNCHANGED <<ready, delayq, running, pc>>
    BY <1>25 DEF HouseIteration
  <2>2. t \in ToSet(deadq) /\ t \in Tid
    BY <1>a, <2>1, DequeueSet DEF QueueTypes, NoRepeats
  <2>3. t # running /\ t \notin ToSet(delayq) /\ running \in Tid /\ t \in alive
    BY <1>a, <2>1, <2>2 DEF DeadPlaced, DelayPlaced, RunnerInv, Holding, HoldPoints, ThreadTypes
  <2>4. done_thread(t)
    BY <1>25, <2>3 DEF HouseIteration
  <2> HIDE DEF t
  <2>5. prio'[running] = prio[running] /\ \A u \in ToSet(delayq) : delay'[u] = delay[u]
    BY <1>a, <1>s, <2>2, <2>3, <2>4 DEF done_thread, ThreadTypes
  <2>6. DelaySorted'
    BY <1>d, <2>1, <2>5
  <2> QED
    BY <2>1, <2>5, <2>6 DEF RunnerIsHighest
<1>26. CASE HouseEnd
  BY <1>26, <1>d, <1>k DEF HouseEnd
<1>27. CASE SwitchContext
  BY <1>27, <1>d, <1>h DEF SwitchContext
<1>28. CASE ClockTick
  BY <1>28, <1>d, <1>k DEF ClockTick
<1>29. ASSUME NEW s, NEW t, Signal(s, t) PROVE OrderInv'
  BY <1>29, <1>d, <1>k DEF Signal
<1>30. CASE UNCHANGED vars
  BY <1>30, <1>d, <1>k DEF vars
<1>31. CASE IdleThread
  BY <1>3, <1>31 DEF IdleThread, thread_suspend
<1>32. CASE TimersThread
  BY <1>6, <1>32 DEF TimersThread
<1>33. CASE AppYields
  BY <1>3, <1>4, <1>5, <1>6, <1>7, <1>33, Constants DEF AppYields, thread_suspend
<1>34. CASE AppCreates
  BY <1>2, <1>34, Constants DEF AppCreates
<1>35. CASE AppKills
  BY <1>8, <1>35 DEF AppKills
<1>36. CASE AppUnlocks
  BY <1>9, <1>36 DEF AppUnlocks
<1>37. CASE Interrupt
  BY <1>28, <1>29, <1>37 DEF Interrupt
<1> QED
  BY <1>1, <1>10, <1>11, <1>12, <1>13, <1>14, <1>15, <1>16, <1>17, <1>18, <1>19,
     <1>20, <1>21, <1>22, <1>23, <1>24, <1>25, <1>26, <1>27, <1>30, <1>31, <1>32,
     <1>33, <1>34, <1>35, <1>36, <1>37
     DEF Next, UpdateSchedule, ScheduleThread, Panicked

(* What the proofs below take from here: all of it holds in every state.   *)
LEMMA QueueInvariant ==
    ASSUME SparesMutexWaiters
    PROVE  Spec => [](TypeInv /\ PlaceInv /\ OrderInv)
<1>1. Init => TypeInv /\ PlaceInv
  BY InitTypeInv, InitPlaceInv
<1>2. Init => OrderInv
  BY DEF Init, OrderInv, DelaySorted, RunnerIsHighest
<1>3. (TypeInv /\ PlaceInv /\ OrderInv) /\ [Next]_vars
        => (TypeInv /\ PlaceInv /\ OrderInv)'
  BY NextTypeInv, NextPlaceInv, NextOrderInv
<1> QED
  BY <1>1, <1>2, <1>3, PTL DEF Spec

(* In every instance whose threads kill no thread that waits for a mutex   *)
(* alone: each thread is in the queue of its state, delay_queue is in the  *)
(* order schedule_delayed stops by, and schedule_thread chooses a thread   *)
(* of the highest class that is ready.                                     *)
THEOREM QueuesAreSound ==
    ASSUME SparesMutexWaiters
    PROVE  Spec => []QueuesSound
<1>1. TypeInv /\ PlaceInv => QueueMatchesState
  BY DEF PlaceInv, Placed, ReadyPlaced, WaitPlaced, DelayPlaced, DeadPlaced, RunnerInv,
         QueueMatchesState
<1>2. TypeInv /\ PlaceInv /\ OrderInv => QueuesSound
  BY <1>1 DEF OrderInv, QueuesSound
<1> QED
  BY <1>2, QueueInvariant, PTL

(***************************************************************************)
(* No thread is lost.                                                      *)
(***************************************************************************)

(* No thread that sleeps in thread_delay is killed.  The wait flags of the *)
(* victim are cleared, and schedule_delayed would drop it from its queue.  *)
SparesSleepers == {"TIMEOUT"} \notin KillTargets

(* Every step leaves every thread that does not run in a queue.            *)
LEMMA NextKeptInv ==
    SparesMutexWaiters /\ SparesSleepers /\ TypeInv /\ PlaceInv /\ KeptInv /\ [Next]_vars => KeptInv'
<1> SUFFICES ASSUME SparesMutexWaiters, SparesSleepers, TypeInv, PlaceInv, KeptInv, [Next]_vars
             PROVE  KeptInv'
  OBVIOUS
<1> USE DEF KeptInv, PlaceInv, Placed, threadVars, slotVars, fieldVars, queueVars, cpuVars
<1>a. ThreadTypes /\ QueueTypes /\ ControlTypes /\ ClockTypes
  BY DEF TypeInv, TypeOK
<1>s. /\ \A p \in Prio : ToSet(ready[p]) \subseteq Tid
      /\ ToSet(waitq) \subseteq Tid /\ ToSet(delayq) \subseteq Tid /\ ToSet(deadq) \subseteq Tid
      /\ alive \subseteq Tid /\ \A t \in Tid : prio[t] \in Prio
  BY <1>a, QueueSets DEF ThreadTypes
<1>r. ASSUME Holding
      PROVE  /\ running \in Tid /\ running \in alive /\ state[running] = "RUNNING"
             /\ running \notin ToSet(waitq) /\ running \notin ToSet(delayq)
             /\ running \notin ToSet(deadq)
  BY <1>a, <1>r DEF RunnerInv, WaitPlaced, DelayPlaced, DeadPlaced, ThreadTypes
<1>u. pc = "user" => Holding
  BY DEF Holding, HoldPoints
<1>q. ASSUME UNCHANGED <<alive, prio, state, flags, queueVars>> PROVE KeptInv'
  BY <1>q DEF KeptReady, KeptWaiting, KeptDead, Resumables
<1>2. ASSUME NEW p \in Prio, thread_create(p) PROVE KeptInv'
  <2>1. PICK t \in Tid \ alive :
          /\ alive' = alive \cup {t}
          /\ prio' = [prio EXCEPT ![t] = p]
          /\ state' = [state EXCEPT ![t] = "READY"]
          /\ ready' = [ready EXCEPT ![p] = Append(@, t)]
    BY <1>2 DEF thread_create
  <2>2. UNCHANGED <<flags, waitq, delayq, deadq>>
    BY <1>2 DEF thread_create
  <2>3. \A q \in Prio : ToSet(ready'[q]) = ToSet(ready[q]) \cup (IF q = p THEN {t} ELSE {})
    BY <1>a, <2>1, ReadyEnqueue
  <2>4. /\ prio'[t] = p /\ state'[t] = "READY"
        /\ \A u \in alive : u # t /\ prio'[u] = prio[u] /\ state'[u] = state[u]
    BY <1>a, <1>s, <2>1 DEF ThreadTypes
  <2>5. KeptReady'
    <3> SUFFICES ASSUME NEW u \in alive', state'[u] = "READY"
                 PROVE  u \in ToSet(waitq') \/ u \in ToSet(ready'[prio'[u]])
      BY DEF KeptReady
    <3>1. CASE u = t
      BY <2>3, <2>4, <3>1
    <3>2. CASE u # t
      <4>1. u \in alive /\ prio'[u] = prio[u] /\ state[u] = "READY" /\ prio[u] \in Prio
        BY <1>s, <2>1, <2>4, <3>2
      <4>2. u \in ToSet(waitq) \/ u \in ToSet(ready[prio[u]])
        BY <4>1 DEF KeptReady
      <4> QED
        BY <2>2, <2>3, <4>1, <4>2
    <3> QED
      BY <3>1, <3>2
  <2>6. KeptWaiting' /\ KeptDead' /\ Resumables'
    BY <2>1, <2>2, <2>4 DEF KeptWaiting, KeptDead, Resumables
  <2> QED
    BY <2>5, <2>6
<1>3. ASSUME Holding, SuspendRunning PROVE KeptInv'
  <2> DEFINE x == running
             p == prio[running]
  <2>1. /\ ready' = [ready EXCEPT ![p] = Append(@, x)]
        /\ state' = [state EXCEPT ![x] = "READY"]
        /\ UNCHANGED <<alive, prio, flags, waitq, delayq, deadq>>
    BY <1>3 DEF SuspendRunning
  <2>2. x \in Tid /\ p \in Prio
    BY <1>3, <1>r, <1>s
  <2>3. \A q \in Prio : ToSet(ready'[q]) = ToSet(ready[q]) \cup (IF q = p THEN {x} ELSE {})
    BY <1>a, <2>1, <2>2, ReadyEnqueue
  <2>4. state'[x] = "READY" /\ \A u \in Tid : u # x => state'[u] = state[u]
    BY <1>a, <2>1, <2>2 DEF ThreadTypes
  <2>5. KeptReady'
    BY <1>s, <2>1, <2>3, <2>4 DEF KeptReady
  <2>6. KeptWaiting' /\ KeptDead' /\ Resumables'
    BY <1>s, <2>1, <2>4 DEF KeptWaiting, KeptDead, Resumables
  <2> QED
    BY <2>5, <2>6
<1>5. ASSUME NEW d, thread_delay(d) PROVE KeptInv'
  <2>1. PICK p \in 1 .. Len(delayq) + 1 : delayq' = InsertAt(delayq, p, running)
    BY <1>5 DEF thread_delay
  <2>2. /\ flags' = [flags EXCEPT ![running] = (@ \ THREAD_MASK_WAIT) \cup {"TIMEOUT"}]
        /\ state' = [state EXCEPT ![running] = "WAITING"]
        /\ UNCHANGED <<alive, prio, ready, waitq, deadq>>
    BY <1>5 DEF thread_delay
  <2>3. Holding /\ delayq \in Seq(Tid)
    BY <1>5, <1>a, <1>u DEF thread_delay, QueueTypes
  <2>5. ToSet(delayq') = ToSet(delayq) \cup {running}
    BY <1>r, <2>1, <2>3, InsertSet
  <2>6. /\ state'[running] = "WAITING" /\ "TIMEOUT" \in flags'[running]
        /\ \A u \in Tid : u # running => state'[u] = state[u] /\ flags'[u] = flags[u]
    BY <1>a, <1>r, <2>2, <2>3 DEF ThreadTypes
  <2>7. KeptReady' /\ KeptWaiting' /\ KeptDead'
    BY <1>r, <1>s, <2>2, <2>3, <2>5, <2>6 DEF KeptReady, KeptWaiting, KeptDead
  <2>8. Resumables'
    BY <1>r, <1>s, <2>2, <2>3, <2>5, <2>6 DEF Resumables
  <2> QED
    BY <2>7, <2>8
<1>6. ASSUME NEW k \in THREAD_MASK_EVENTS, NEW d, Wait(k, d) PROVE KeptInv'
  <2>2. /\ waitq' = Append(waitq, running)
        /\ flags' = [flags EXCEPT ![running] = (@ \ THREAD_MASK_WAIT) \cup {k}
                                \cup (IF d = 0 THEN {} ELSE {"TIMEOUT"})]
        /\ state' = [state EXCEPT ![running] = "WAITING"]
        /\ UNCHANGED <<alive, prio, ready, delayq, deadq>>
    BY <1>6 DEF Wait, WaitRunning
  <2>3. Holding /\ waitq \in Seq(Tid)
    BY <1>6, <1>a, <1>u DEF Wait, QueueTypes
  <2>5. ToSet(waitq') = ToSet(waitq) \cup {running}
    BY <1>r, <2>2, <2>3, EnqueueSet
  <2>6. /\ state'[running] = "WAITING" /\ k \in flags'[running]
        /\ \A u \in Tid : u # running => state'[u] = state[u] /\ flags'[u] = flags[u]
    BY <1>a, <1>r, <2>2, <2>3 DEF ThreadTypes
  <2>7. KeptReady' /\ KeptWaiting' /\ KeptDead'
    BY <1>r, <1>s, <2>2, <2>3, <2>5, <2>6 DEF KeptReady, KeptWaiting, KeptDead
  <2>8. Resumables'
    BY <1>r, <1>s, <2>2, <2>3, <2>5, <2>6 DEF Resumables
  <2> QED
    BY <2>7, <2>8
<1>7. CASE thread_terminate
  <2>2. /\ deadq' = Append(deadq, running)
        /\ state' = [state EXCEPT ![running] = "DEAD"]
        /\ UNCHANGED <<alive, prio, flags, ready, waitq, delayq>>
    BY <1>7 DEF thread_terminate
  <2>3. Holding /\ deadq \in Seq(Tid)
    BY <1>7, <1>a, <1>u DEF thread_terminate, QueueTypes
  <2>5. ToSet(deadq') = ToSet(deadq) \cup {running}
    BY <1>r, <2>2, <2>3, EnqueueSet
  <2>6. /\ state'[running] = "DEAD" /\ \A u \in Tid : u # running => state'[u] = state[u]
    BY <1>a, <1>r, <2>2, <2>3 DEF ThreadTypes
  <2> QED
    BY <1>r, <1>s, <2>2, <2>3, <2>5, <2>6 DEF KeptReady, KeptWaiting, KeptDead, Resumables
<1>8. ASSUME NEW t \in Tid, thread_kill(t),
             state[t] = "WAITING" => flags[t] \cap THREAD_MASK_WAIT \in KillTargets
      PROVE  KeptInv'
  <2>1. CASE RemoveThread(t)
    <3>1. UNCHANGED <<alive, prio, ready, waitq, delayq, state, deadq>>
      BY <1>8, <2>1 DEF RemoveThread, SparesMutexWaiters
    <3>2. t \notin ToSet(delayq)
      <4>1. SUFFICES ASSUME t \in ToSet(delayq) PROVE FALSE
        OBVIOUS
      <4>2. flags[t] \cap THREAD_MASK_EVENTS = {} /\ "TIMEOUT" \in flags[t] /\ state[t] = "WAITING"
        BY <4>1 DEF DelayPlaced, Resumables
      <4>3. flags[t] \cap THREAD_MASK_WAIT = {"TIMEOUT"}
        BY <4>2 DEF THREAD_MASK_WAIT
      <4> QED
        BY <1>8, <4>2, <4>3 DEF SparesSleepers
    <3>3. flags' = [flags EXCEPT ![t] =
                      (IF state[t] = "WAITING" THEN @ \ THREAD_MASK_WAIT ELSE @)
                      \cup {"TERMINATE"}]
      BY <2>1 DEF RemoveThread
    <3>4. /\ \A u \in Tid : u # t => flags'[u] = flags[u]
          /\ "TIMEOUT" \in flags'[t] => "TIMEOUT" \in flags[t] /\ flags[t] \subseteq flags'[t]
      BY <1>a, <3>3 DEF ThreadTypes, THREAD_MASK_WAIT
    <3>5. Resumables'
      BY <1>s, <3>1, <3>2, <3>4 DEF Resumables
    <3> QED
      BY <3>1, <3>5 DEF KeptReady, KeptWaiting, KeptDead
  <2>2. CASE PanicKill(t)
    BY <2>2, <1>q DEF PanicKill
  <2> QED
    BY <1>8, <2>1, <2>2 DEF thread_kill
<1>e. ASSUME NEW fl, NEW S, ResumeAll(fl, S), fl \subseteq THREAD_MASK_EVENTS,
             UNCHANGED <<alive, prio, queueVars>>
      PROVE  KeptInv'
  <2>1. \A t \in Tid : \/ /\ state[t] = "WAITING" /\ t \in alive /\ state'[t] = "READY"
                          /\ flags[t] \cap THREAD_MASK_EVENTS # {}
                          /\ "TIMEOUT" \notin flags'[t]
                       \/ state'[t] = state[t] /\ flags'[t] = flags[t]
    BY <1>a, <1>e, Resumed DEF CanResume, THREAD_MASK_WAIT
  <2>2. KeptReady'
    BY <1>e, <1>s, <2>1 DEF KeptReady, KeptWaiting, DelayPlaced
  <2>3. KeptWaiting' /\ KeptDead'
    BY <1>e, <1>s, <2>1 DEF KeptWaiting, KeptDead
  <2>4. Resumables'
    BY <1>e, <1>s, <2>1 DEF Resumables, DelayPlaced
  <2> QED
    BY <2>2, <2>3, <2>4
<1>9. ASSUME NEW t \in Tid, UnlockResume(t) PROVE KeptInv'
  <2>1. {"MUTEX"} \subseteq THREAD_MASK_EVENTS
    BY DEF THREAD_MASK_EVENTS
  <2> QED
    BY <1>9, <1>e, <2>1 DEF UnlockResume
<1>10. ASSUME NEW s \in Source, ResumePass(s) PROVE KeptInv'
  <2>1. {SourceFlag[s]} \subseteq THREAD_MASK_EVENTS
    BY DEF THREAD_MASK_EVENTS, Source, SourceFlag
  <2> QED
    BY <1>10, <1>e, <2>1 DEF ResumePass
<1>w. ASSUME WaitingIteration
      PROVE  /\ Head(waitq) \in ToSet(waitq) /\ Head(waitq) \in Tid /\ Head(waitq) \in alive
             /\ ToSet(HeadTaken) = ToSet(waitq) \ {Head(waitq)}
             /\ ToSet(queue_roll(waitq)) = ToSet(waitq)
             /\ UNCHANGED <<alive, prio, delayq>>
  <2>1. waitq \in Seq(Tid) /\ waitq # <<>>
    BY <1>w, <1>a DEF WaitingIteration, IterationLeft, QueueTypes, TypeInv,
                      WaitLoopHasHead, ControlTypes
  <2>2. /\ Head(waitq) \in ToSet(waitq) /\ ToSet(HeadTaken) = ToSet(waitq) \ {Head(waitq)}
    BY <2>1, TakenSet DEF HeadTaken, NoRepeats
  <2>3. ToSet(queue_roll(waitq)) = ToSet(waitq)
    BY <2>1, RollSet DEF NoRepeats
  <2> QED
    BY <1>w, <1>s, <2>2, <2>3 DEF WaitingIteration, WaitPlaced
<1>12. CASE WaitingTerminated
  <2> DEFINE t == Head(waitq)
  <2>1. WaitingIteration
    BY <1>12 DEF WaitingTerminated
  <2>2. /\ waitq' = HeadTaken /\ deadq' = Append(deadq, t)
        /\ state' = [state EXCEPT ![t] = "DEAD"] /\ UNCHANGED <<flags, ready>>
    BY <1>12 DEF WaitingTerminated
  <2>3. t \in Tid /\ ToSet(waitq') = ToSet(waitq) \ {t}
    BY <1>w, <2>1, <2>2
  <2> HIDE DEF t
  <2>4. ToSet(deadq') = ToSet(deadq) \cup {t}
    BY <1>a, <2>2, <2>3, EnqueueSet DEF QueueTypes
  <2>5. state'[t] = "DEAD" /\ \A u \in Tid : u # t => state'[u] = state[u]
    BY <1>a, <2>2, <2>3 DEF ThreadTypes
  <2> QED
    BY <1>s, <1>w, <2>1, <2>2, <2>3, <2>4, <2>5 DEF KeptReady, KeptWaiting, KeptDead, Resumables
<1>m. ASSUME NEW t \in Tid, ToSet(waitq') = ToSet(waitq) \ {t},
             ready' = [ready EXCEPT ![prio[t]] = Append(@, t)],
             state'[t] = "READY", \A u \in Tid : u # t => state'[u] = state[u] /\ flags'[u] = flags[u],
             UNCHANGED <<alive, prio, delayq, deadq>>, t \notin ToSet(delayq)
      PROVE  KeptInv'
  <2>0. prio[t] \in Prio
    BY <1>s
  <2>1. \A q \in Prio : ToSet(ready'[q]) = ToSet(ready[q]) \cup (IF q = prio[t] THEN {t} ELSE {})
    BY <1>a, <1>m, <2>0, ReadyEnqueue
  <2>2. KeptReady'
    BY <1>s, <1>m, <2>1 DEF KeptReady
  <2>3. KeptWaiting' /\ KeptDead' /\ Resumables'
    BY <1>s, <1>m DEF KeptWaiting, KeptDead, Resumables
  <2> QED
    BY <2>2, <2>3
<1>13. CASE WaitingExpired
  <2> DEFINE t  == Head(waitq)
             fl == flags[t] \cap THREAD_MASK_EVENTS
  <2>1. WaitingIteration /\ state[t] = "WAITING" /\ "TIMEOUT" \in flags[t]
    BY <1>13 DEF WaitingExpired
  <2>2. /\ waitq' = HeadTaken /\ ResumeAll(fl, {t}) /\ deadq' = deadq
        /\ ready' = IF CanResume(fl, t)
                    THEN [ready EXCEPT ![prio[t]] = Append(@, t)] ELSE ready
    BY <1>13 DEF WaitingExpired
  <2>3. /\ t \in Tid /\ t \in ToSet(waitq) /\ ToSet(waitq') = ToSet(waitq) \ {t}
        /\ t \notin ToSet(delayq)
    BY <1>w, <2>1, <2>2 DEF WaitPlaced
  <2>4. CanResume(fl, t)
    BY <1>w, <2>1, <2>3 DEF CanResume, Resumables, THREAD_MASK_WAIT
  <2>5. /\ \A u \in Tid : u # t => state'[u] = state[u] /\ flags'[u] = flags[u]
        /\ state'[t] = "READY"
    BY <1>a, <2>2, <2>3, <2>4, Resumed
  <2> HIDE DEF t, fl
  <2> QED
    BY <1>m, <1>w, <2>1, <2>2, <2>3, <2>4, <2>5
<1>14. CASE WaitingStays
  <2>1. WaitingIteration /\ waitq' = queue_roll(waitq) /\ UNCHANGED <<state, flags, ready, deadq>>
    BY <1>14 DEF WaitingStays
  <2>2. ToSet(waitq') = ToSet(waitq)
    BY <1>w, <2>1
  <2> QED
    BY <1>w, <2>1, <2>2 DEF KeptReady, KeptWaiting, KeptDead, Resumables
<1>15. CASE WaitingReady
  <2> DEFINE t == Head(waitq)
  <2>1. /\ WaitingIteration /\ state[t] = "READY" /\ waitq' = HeadTaken
        /\ ready' = [ready EXCEPT ![prio[t]] = Append(@, t)]
        /\ UNCHANGED <<state, flags, deadq>>
    BY <1>15 DEF WaitingReady
  <2>2. t \in Tid /\ ToSet(waitq') = ToSet(waitq) \ {t} /\ t \notin ToSet(delayq)
    BY <1>w, <2>1 DEF WaitPlaced
  <2> HIDE DEF t
  <2> QED
    BY <1>m, <1>w, <2>1, <2>2
<1>18. CASE DelayedExpired
  <2> DEFINE t == Head(delayq)
  <2>1. /\ delayq # <<>> /\ delayq' = Tail(delayq) /\ ResumeAll(SleepFlags, {t})
        /\ ready' = IF CanResume(SleepFlags, t)
                    THEN [ready EXCEPT ![prio[t]] = Append(@, t)] ELSE ready
        /\ UNCHANGED <<alive, prio, waitq, deadq>>
    BY <1>18 DEF DelayedExpired
  <2>2. t \in ToSet(delayq) /\ ToSet(delayq') = ToSet(delayq) \ {t}
    BY <1>a, <2>1, DequeueSet DEF QueueTypes, NoRepeats
  <2>3. t \in Tid /\ prio[t] \in Prio /\ t \notin ToSet(waitq)
    BY <1>s, <2>2 DEF WaitPlaced
  <2> HIDE DEF t
  <2>4. CanResume(SleepFlags, t)
    BY <2>2 DEF CanResume, SleepFlags, Resumables, DelayPlaced, THREAD_MASK_WAIT
  <2>5. /\ \A u \in Tid : u # t => state'[u] = state[u] /\ flags'[u] = flags[u]
        /\ state'[t] = "READY"
    BY <1>a, <2>1, <2>3, <2>4, Resumed
  <2>6. \A q \in Prio : ToSet(ready'[q]) = ToSet(ready[q]) \cup (IF q = prio[t] THEN {t} ELSE {})
    BY <1>a, <2>1, <2>3, <2>4, ReadyEnqueue
  <2>7. KeptReady'
    <3> SUFFICES ASSUME NEW u \in alive', state'[u] = "READY"
                 PROVE  u \in ToSet(waitq') \/ u \in ToSet(ready'[prio'[u]])
      BY DEF KeptReady
    <3>1. u \in alive /\ u \in Tid /\ prio[u] \in Prio /\ prio'[u] = prio[u] /\ waitq' = waitq
      BY <1>s, <2>1
    <3>2. CASE u = t
      BY <2>6, <3>1, <3>2
    <3>3. CASE u # t
      <4>1. u \in ToSet(waitq) \/ u \in ToSet(ready[prio[u]])
        BY <2>5, <3>1, <3>3 DEF KeptReady
      <4> QED
        BY <2>6, <3>1, <4>1
    <3> QED
      BY <3>2, <3>3
  <2>8. KeptWaiting' /\ KeptDead' /\ Resumables'
    BY <1>s, <2>1, <2>2, <2>3, <2>5 DEF KeptWaiting, KeptDead, Resumables
  <2> QED
    BY <2>7, <2>8
<1>23. CASE NewRunner
  <2>1. PICK q \in Prio :
          /\ FirstReady(q)
          /\ ready' = [ready EXCEPT ![q] = Tail(@)]
          /\ LET t == Head(ready[q])
             IN  \/ deadq' = Append(deadq, t) /\ state' = [state EXCEPT ![t] = "DEAD"]
                 \/ deadq' = deadq /\ state' = [state EXCEPT ![t] = "RUNNING"]
    BY <1>23 DEF NewRunner
  <2> DEFINE t == Head(ready[q])
  <2>2. UNCHANGED <<alive, prio, flags, waitq, delayq>>
    BY <1>23 DEF NewRunner
  <2>3. ready[q] \in Seq(Tid) /\ ready[q] # <<>>
    BY <1>a, <2>1 DEF QueueTypes, FirstReady, ReadyPrios
  <2>4. t \in Tid /\ ToSet(Tail(ready[q])) = ToSet(ready[q]) \ {t}
    BY <2>3, DequeueSet DEF NoRepeats
  <2>5. \/ deadq' = Append(deadq, t) /\ state' = [state EXCEPT ![t] = "DEAD"]
        \/ deadq' = deadq /\ state' = [state EXCEPT ![t] = "RUNNING"]
    BY <2>1
  <2>6. \A p \in Prio : ToSet(ready[p]) \ {t} \subseteq ToSet(ready'[p])
    <3>1. ready'[q] = Tail(ready[q]) /\ \A p \in Prio : p # q => ready'[p] = ready[p]
      BY <1>a, <2>1 DEF QueueTypes
    <3> HIDE DEF t
    <3> QED
      BY <2>4, <3>1
  <2> HIDE DEF t
  <2>7. deadq \in Seq(Tid)
    BY <1>a DEF QueueTypes
  <2>8. \/ ToSet(deadq') = ToSet(deadq) \cup {t} /\ state'[t] = "DEAD"
        \/ deadq' = deadq /\ state'[t] = "RUNNING"
    <3>1. ToSet(Append(deadq, t)) = ToSet(deadq) \cup {t}
      BY <2>4, <2>7, EnqueueSet
    <3> QED
      BY <1>a, <2>4, <2>5, <3>1 DEF ThreadTypes
  <2>9. \A u \in Tid : u # t => state'[u] = state[u]
    BY <1>a, <2>4, <2>5 DEF ThreadTypes
  <2> QED
    BY <1>s, <2>2, <2>6, <2>8, <2>9 DEF KeptReady, KeptWaiting, KeptDead, Resumables
<1>25. CASE HouseIteration
  <2> DEFINE t == Head(deadq)
  <2>1. pc = "house_loop" /\ deadq # <<>> /\ UNCHANGED <<ready, waitq, delayq>>
    BY <1>25 DEF HouseIteration
  <2>2. t \in ToSet(deadq) /\ t \in Tid /\ ToSet(Tail(deadq)) = ToSet(deadq) \ {t}
    BY <1>a, <2>1, DequeueSet DEF QueueTypes, NoRepeats
  <2>3. t # running /\ t \notin ToSet(delayq) /\ t \notin ToSet(waitq) /\ t \in alive
    BY <1>a, <2>1, <2>2 DEF DeadPlaced, DelayPlaced, WaitPlaced, RunnerInv, Holding, HoldPoints
  <2>4. deadq' = Tail(deadq) /\ done_thread(t)
    BY <1>25, <2>3 DEF HouseIteration
  <2> HIDE DEF t
  <2>5. /\ alive' = alive \ {t}
        /\ \A u \in Tid : u # t => state'[u] = state[u] /\ flags'[u] = flags[u] /\ prio'[u] = prio[u]
    BY <1>a, <2>2, <2>4 DEF done_thread, ThreadTypes
  <2>6. KeptReady' /\ KeptWaiting' /\ KeptDead'
    BY <1>s, <2>1, <2>2, <2>4, <2>5 DEF KeptReady, KeptWaiting, KeptDead
  <2>7. Resumables'
    BY <1>s, <2>1, <2>3, <2>5 DEF Resumables
  <2> QED
    BY <2>6, <2>7
<1>30. CASE \/ KernelRun \/ thread_may_suspend \/ WaitingStart \/ WaitingEnd \/ DelayedStart
            \/ DelayedEnd \/ SetPeriod \/ MayStay \/ HouseStart \/ HouseEnd \/ SwitchContext
            \/ Interrupt \/ UNCHANGED vars
  BY <1>30, <1>q DEF KernelRun, thread_may_suspend, WaitingStart, WaitingEnd, DelayedStart,
     DelayedEnd, SetPeriod, MayStay, HouseStart, HouseEnd, SwitchContext, Interrupt, ClockTick,
     Signal, vars
<1>22. CASE MaySuspend
  BY <1>3, <1>22 DEF MaySuspend, TypeInv, CallerKnown, Holding
<1>31. CASE IdleThread
  BY <1>3, <1>31, <1>u DEF IdleThread, thread_suspend
<1>32. CASE TimersThread
  BY <1>6, <1>32, Constants DEF TimersThread
<1>33. CASE AppYields
  BY <1>3, <1>5, <1>6, <1>7, <1>30, <1>33, <1>u, Constants DEF AppYields, thread_suspend
<1>34. CASE AppCreates
  BY <1>2, <1>34, Constants DEF AppCreates
<1>35. CASE AppKills
  BY <1>8, <1>35 DEF AppKills
<1>36. CASE AppUnlocks
  BY <1>9, <1>36 DEF AppUnlocks
<1> QED
  BY <1>10, <1>12, <1>13, <1>14, <1>15, <1>18, <1>22, <1>23, <1>25, <1>30, <1>31, <1>32,
     <1>33, <1>34, <1>35, <1>36
     DEF Next, UpdateSchedule, ScheduleThread, Panicked

(* thread_num counts the slots in use: init_thread takes a free one, and   *)
(* house_keeping frees no slot twice.                                      *)
LEMMA NextSlots ==
    SparesMutexWaiters /\ TypeInv /\ PlaceInv /\ SlotsCounted /\ [Next]_vars => SlotsCounted'
<1> SUFFICES ASSUME SparesMutexWaiters, TypeInv, PlaceInv, SlotsCounted, [Next]_vars
             PROVE  SlotsCounted'
  OBVIOUS
<1> USE DEF SlotsCounted, threadVars, slotVars
<1>a. ThreadTypes /\ QueueTypes
  BY DEF TypeInv, TypeOK
<1>f. IsFiniteSet(alive)
  <2>1. IsFiniteSet(Tid)
    BY ThreadsAssumption, FS_Interval DEF Tid
  <2> QED
    BY <1>a, <2>1, FS_Subset DEF ThreadTypes
<1>1. CASE UNCHANGED slotVars
  BY <1>1
<1>2. ASSUME NEW p \in Prio, thread_create(p) PROVE SlotsCounted'
  <2>1. PICK t \in Tid \ alive : alive' = alive \cup {t}
    BY <1>2 DEF thread_create
  <2>2. Cardinality(alive \cup {t}) = Cardinality(alive) + 1
    BY <1>f, <2>1, FS_AddElement
  <2> QED
    BY <1>2, <2>1, <2>2 DEF thread_create
<1>3. CASE HouseIteration
  <2> DEFINE t == Head(deadq)
  <2>1. pc = "house_loop" /\ deadq # <<>>
    BY <1>3 DEF HouseIteration
  <2>2. t \in ToSet(deadq)
    BY <1>a, <2>1, DequeueSet DEF QueueTypes, PlaceInv, NoRepeats
  <2>3. t # running /\ t \in alive
    BY <2>1, <2>2 DEF PlaceInv, Placed, DeadPlaced, RunnerInv, Holding, HoldPoints
  <2>4. done_thread(t)
    BY <1>3, <2>3 DEF HouseIteration
  <2> HIDE DEF t
  <2>5. Cardinality(alive \ {t}) = Cardinality(alive) - 1
    BY <1>f, <2>3, FS_RemoveElement
  <2> QED
    BY <2>4, <2>5 DEF done_thread, SlotsLeft
<1>4. CASE AppCreates
  BY <1>2, <1>4, Constants DEF AppCreates
<1>5. CASE KernelRun \/ IdleThread \/ TimersThread \/ AppYields \/ AppKills \/ AppUnlocks
  BY <1>1, <1>5 DEF KernelRun, IdleThread, thread_suspend, SuspendRunning, TimersThread, Wait,
     WaitRunning, AppYields, thread_may_suspend, thread_delay, thread_terminate, AppKills,
     thread_kill, RemoveThread, PanicKill, AppUnlocks, UnlockResume
<1>6. CASE UpdateSchedule
  BY <1>1, <1>6 DEF UpdateSchedule, ResumePass, WaitingStart, WaitingTerminated, WaitingExpired,
     WaitingStays, WaitingReady, WaitingIteration, WaitingEnd, DelayedStart, DelayedExpired,
     DelayedEnd, SetPeriod, MayStay, MaySuspend, SuspendRunning
<1>7. CASE NewRunner \/ HouseStart \/ HouseEnd \/ SwitchContext \/ Interrupt \/ UNCHANGED vars
  BY <1>1, <1>7 DEF NewRunner, HouseStart, HouseEnd, SwitchContext, Interrupt, ClockTick, Signal, vars
<1> QED
  BY <1>3, <1>4, <1>5, <1>6, <1>7 DEF Next, ScheduleThread, Panicked

(* What is in the queues after boot is kept.                               *)
LEMMA InitKeptInv == Init => KeptInv /\ SlotsCounted
<1> SUFFICES ASSUME Init PROVE KeptInv /\ SlotsCounted
  OBVIOUS
<1>1. \A t \in Tid : ToSet(<<t>>) = {t}
  BY DEF ToSet
<1>2. THREAD_TID_IDLE \in Tid /\ THREAD_TID_TMRS \in Tid /\ THREAD_TID_TMRS # THREAD_TID_IDLE
  BY Constants DEF THREAD_TID_IDLE, THREAD_TID_TMRS
<1>3. waitq = <<>> /\ delayq = <<>> /\ alive = {THREAD_TID_IDLE, THREAD_TID_TMRS} /\ thread_num = 2
  BY DEF Init, SystemTids
<1>4. /\ ready[0] = <<THREAD_TID_TMRS>> /\ ready[3] = <<THREAD_TID_IDLE>>
      /\ prio[THREAD_TID_TMRS] = 0 /\ prio[THREAD_TID_IDLE] = 3 /\ \A t \in alive : state[t] = "READY"
  BY <1>2, <1>3 DEF Init, SystemTids, Prio, THREAD_PRIORITIES
<1>5. KeptInv
  BY <1>1, <1>2, <1>3, <1>4, EmptyQueue DEF KeptInv, KeptReady, KeptWaiting, KeptDead, Resumables
<1>6. Cardinality({THREAD_TID_IDLE, THREAD_TID_TMRS}) = 2
  <2>1. IsFiniteSet({THREAD_TID_IDLE}) /\ Cardinality({THREAD_TID_IDLE}) = 1
    BY FS_Singleton
  <2>2. Cardinality({THREAD_TID_IDLE} \cup {THREAD_TID_TMRS}) = 2
    BY <1>2, <2>1, FS_AddElement
  <2>3. {THREAD_TID_IDLE} \cup {THREAD_TID_TMRS} = {THREAD_TID_IDLE, THREAD_TID_TMRS}
    OBVIOUS
  <2> QED
    BY <2>2, <2>3
<1> QED
  BY <1>3, <1>5, <1>6 DEF SlotsCounted

(* The links of a thread that is in one queue, or in none.                 *)
LEMMA LinksCounted ==
    ASSUME QueueTypes, NoRepeats, NEW t \in Tid
    PROVE  /\ (\A n \in QueueName : t \notin ToSet(QueueAt(n))) => Cardinality(LinksOf(t)) = 0
           /\ \A n \in QueueName :
                t \in ToSet(QueueAt(n)) /\ (\A m \in QueueName : m # n => t \notin ToSet(QueueAt(m)))
                    => Cardinality(LinksOf(t)) = 1
<1>1. \A n \in QueueName : QueueAt(n) \in Seq(Tid) /\ Distinct(QueueAt(n))
  BY DEF QueueName, QueueAt, QueueTypes, NoRepeats, Prio, THREAD_PRIORITIES
<1>2. \A n \in QueueName :
        /\ DOMAIN QueueAt(n) = 1 .. Len(QueueAt(n))
        /\ t \in ToSet(QueueAt(n)) <=> \E j \in 1 .. Len(QueueAt(n)) : QueueAt(n)[j] = t
  BY <1>1, QueueMembers
<1> DEFINE L(n) == {<<n, j>> : j \in {k \in DOMAIN QueueAt(n) : QueueAt(n)[k] = t}}
<1>3. LinksOf(t) = UNION {L(n) : n \in QueueName}
  BY DEF LinksOf
<1>4. \A n \in QueueName : t \notin ToSet(QueueAt(n)) => L(n) = {}
  BY <1>2
<1>5. ASSUME NEW n \in QueueName, t \in ToSet(QueueAt(n)) PROVE \E l : L(n) = {l}
  <2>1. PICK j \in 1 .. Len(QueueAt(n)) : QueueAt(n)[j] = t
    BY <1>2, <1>5
  <2>2. {k \in DOMAIN QueueAt(n) : QueueAt(n)[k] = t} = {j}
    BY <1>1, <1>2, <2>1 DEF Distinct
  <2>3. L(n) = {<<n, j>>}
    BY <2>2
  <2> QED
    BY <2>3
<1> HIDE DEF L
<1>6. ASSUME \A n \in QueueName : t \notin ToSet(QueueAt(n)) PROVE Cardinality(LinksOf(t)) = 0
  <2>1. LinksOf(t) = {}
    BY <1>3, <1>4, <1>6
  <2> QED
    BY <2>1, FS_EmptySet
<1>7. ASSUME NEW n \in QueueName, t \in ToSet(QueueAt(n)),
             \A m \in QueueName : m # n => t \notin ToSet(QueueAt(m))
      PROVE  Cardinality(LinksOf(t)) = 1
  <2>1. PICK l : L(n) = {l}
    BY <1>5, <1>7
  <2>2. \A m \in QueueName : m # n => L(m) = {}
    BY <1>4, <1>7
  <2>3. LinksOf(t) = {l}
    BY <1>3, <2>1, <2>2
  <2> QED
    BY <2>3, FS_Singleton
<1> QED
  BY <1>6, <1>7

(* The seven queues by name.                                               *)
LEMMA QueueNames ==
    /\ Prio \subseteq QueueName /\ 4 \in QueueName /\ 5 \in QueueName /\ 6 \in QueueName
    /\ \A n \in QueueName : n \in Prio \/ n = 4 \/ n = 5 \/ n = 6
    /\ 4 \notin Prio /\ 5 \notin Prio /\ 6 \notin Prio
    /\ \A p \in Prio : QueueAt(p) = ready[p]
    /\ QueueAt(4) = waitq /\ QueueAt(5) = delayq /\ QueueAt(6) = deadq
BY DEF QueueName, QueueAt, Prio, THREAD_PRIORITIES

(* A thread that is placed and kept has one link, or none if it runs.      *)
LEMMA LinkedByState == TypeInv /\ PlaceInv /\ KeptInv => LinkedOnce
<1> SUFFICES ASSUME TypeInv, PlaceInv, KeptInv, NEW t \in Tid
             PROVE  Cardinality(LinksOf(t)) = IF t \in alive /\ state[t] # "RUNNING" THEN 1 ELSE 0
  BY DEF LinkedOnce
<1> USE DEF PlaceInv, Placed, KeptInv
<1>a. QueueTypes /\ ThreadTypes /\ NoRepeats
  BY DEF TypeInv, TypeOK
<1>1. CASE ~(t \in alive /\ state[t] # "RUNNING")
  <2>1. \A n \in QueueName : t \notin ToSet(QueueAt(n))
    BY <1>1, QueueNames DEF ReadyPlaced, WaitPlaced, DelayPlaced, DeadPlaced
  <2> QED
    BY <1>1, <1>a, <2>1, LinksCounted
<1>2. CASE t \in alive /\ state[t] # "RUNNING"
  <2>1. PICK n \in QueueName : /\ t \in ToSet(QueueAt(n))
                               /\ \A m \in QueueName : m # n => t \notin ToSet(QueueAt(m))
    <3>1. prio[t] \in Prio /\ state[t] \in {"WAITING", "READY", "DEAD"}
      BY <1>a, <1>2 DEF ThreadTypes, ThreadState
    <3>2. CASE t \in ToSet(waitq)
      <4>1. t \notin ToSet(delayq) /\ t \notin ToSet(deadq) /\ \A p \in Prio : t \notin ToSet(ready[p])
        BY <3>2 DEF WaitPlaced, DeadPlaced
      <4>2. \A m \in QueueName : m # 4 => t \notin ToSet(QueueAt(m))
        BY <4>1, QueueNames
      <4> QED
        BY <3>2, <4>2, QueueNames
    <3>3. CASE t \in ToSet(delayq)
      <4>1. t \notin ToSet(waitq) /\ t \notin ToSet(deadq) /\ \A p \in Prio : t \notin ToSet(ready[p])
        BY <3>3 DEF DelayPlaced, WaitPlaced, DeadPlaced, ReadyPlaced
      <4>2. \A m \in QueueName : m # 5 => t \notin ToSet(QueueAt(m))
        BY <4>1, QueueNames
      <4> QED
        BY <3>3, <4>2, QueueNames
    <3>4. CASE t \in ToSet(deadq)
      <4>1. t \notin ToSet(waitq) /\ t \notin ToSet(delayq) /\ \A p \in Prio : t \notin ToSet(ready[p])
        BY <3>4 DEF DelayPlaced, WaitPlaced, DeadPlaced, ReadyPlaced
      <4>2. \A m \in QueueName : m # 6 => t \notin ToSet(QueueAt(m))
        BY <4>1, QueueNames
      <4> QED
        BY <3>4, <4>2, QueueNames
    <3>5. CASE t \notin ToSet(waitq) /\ t \notin ToSet(delayq) /\ t \notin ToSet(deadq)
      <4>1. t \in ToSet(ready[prio[t]]) /\ \A p \in Prio : p # prio[t] => t \notin ToSet(ready[p])
        BY <1>2, <3>1, <3>5 DEF KeptReady, KeptWaiting, KeptDead, ReadyPlaced
      <4>2. prio[t] \in QueueName /\ \A m \in QueueName : m # prio[t] => t \notin ToSet(QueueAt(m))
        BY <3>1, <3>5, <4>1, QueueNames
      <4> QED
        BY <3>1, <4>1, <4>2, QueueNames
    <3> QED
      BY <3>2, <3>3, <3>4, <3>5
  <2> QED
    BY <1>2, <1>a, <2>1, LinksCounted
<1> QED
  BY <1>1, <1>2

(* In every instance whose threads kill neither a thread that waits for a  *)
(* mutex alone nor one that sleeps: no thread is linked twice or lost,     *)
(* thread_num counts the slots in use, and a killed thread never gets the  *)
(* processor again.                                                        *)
THEOREM ThreadsAreKept ==
    ASSUME SparesMutexWaiters, SparesSleepers
    PROVE  Spec => []ThreadsKept
<1> DEFINE All == TypeInv /\ PlaceInv /\ KeptInv /\ SlotsCounted
<1>1. Init => All
  BY InitTypeInv, InitPlaceInv, InitKeptInv
<1>2. All /\ [Next]_vars => All'
  BY NextTypeInv, NextPlaceInv, NextKeptInv, NextSlots
<1>3. All => ThreadsKept
  <2>1. PlaceInv => KilledNeverRuns
    BY DEF PlaceInv, RunnerInv, Holding, HoldPoints, KilledNeverRuns
  <2> QED
    BY <2>1, LinkedByState DEF ThreadsKept
<1> QED
  BY <1>1, <1>2, <1>3, PTL DEF Spec

(* A killed thread never runs needs the first of the two only.             *)
THEOREM KilledThreadsNeverRun ==
    ASSUME SparesMutexWaiters
    PROVE  Spec => [](KilledNeverRuns /\ SlotsCounted)
<1> DEFINE All == TypeInv /\ PlaceInv /\ SlotsCounted
<1>1. Init => All
  BY InitTypeInv, InitPlaceInv, InitKeptInv
<1>2. All /\ [Next]_vars => All'
  BY NextTypeInv, NextPlaceInv, NextSlots
<1>3. All => KilledNeverRuns /\ SlotsCounted
  BY DEF PlaceInv, RunnerInv, Holding, HoldPoints, KilledNeverRuns
<1> QED
  BY <1>1, <1>2, <1>3, PTL DEF Spec

=============================================================================
