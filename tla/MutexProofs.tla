----------------------------- MODULE MutexProofs -----------------------------
(***************************************************************************)
(* Proofs about Mutex for every number of threads and mutexes.             *)
(*                                                                         *)
(* The results are about lock calls without a timeout and threads that own *)
(* nothing when they end: a timed call that expires leaves its entry in    *)
(* the buffer, and an owner that ends leaves a mutex nobody unlocks, so    *)
(* neither hypothesis can be dropped.  The third, that threads are killed  *)
(* or slots are used again but not both, bounds the cancelled entries: a   *)
(* buffer they have filled answers EBUSY to a thread that owns nothing.    *)
(***************************************************************************)
EXTENDS Mutex, SequenceTheorems, FiniteSetTheorems, WellFoundedInduction, TLAPS

(* The lock calls are thread_lock_mutex: no timeout.                       *)
Untimed == Timeouts \subseteq {0}

(* The table of threads has as many slots as a buffer of waiters.          *)
TableFits == IsFiniteSet(Thread) /\ Cardinality(Thread) <= Slots

(* Entries that were cancelled are not followed by new threads.            *)
NoRefill == ~(Kills /\ Reuse)

(***************************************************************************)
(* The inductive invariant.                                                *)
(***************************************************************************)

(* The running thread is the one that has the processor, and is not        *)
(* marked; a marked thread is never asleep.                                *)
RunnerKnown ==
    /\ \A t \in Thread : status[t] = "RUNNING" <=> current = t
    /\ current \notin doomed
    /\ \A t \in doomed : status[t] # "WAITING"

(* A mutex belongs to a thread that lives and asked for it, and to no one  *)
(* who merely believes to hold it.                                         *)
Ownership ==
    /\ \A m \in Mtx : locker_tid[m] # NoThread => Live(locker_tid[m])
    /\ \A m \in Mtx, t \in Thread : Live(t) /\ m \in held[t] => locker_tid[m] = t
    /\ OwnerAsked

(* Inside the call a thread sleeps or has been given the mutex.            *)
InCall ==
    \A t \in Thread :
        Live(t) /\ calls[t] # NoMtx
            => status[t] = "WAITING" \/ locker_tid[calls[t]] = t

(* A thread that sleeps, sleeps for a mutex that someone else owns and     *)
(* whose buffer names it.                                                  *)
Sleeping ==
    \A t \in Thread :
        status[t] = "WAITING" =>
            /\ calls[t] # NoMtx /\ waits[t] = {"MUTEX"}
            /\ locker_tid[calls[t]] \notin {NoThread, t}
            /\ \E j \in DOMAIN ids[calls[t]] : ids[calls[t]][j] = t

(* No thread is named twice in a buffer.                                   *)
NamedOnce ==
    \A m \in Mtx : \A i, j \in DOMAIN ids[m] :
        ids[m][i] # NoThread /\ ids[m][i] = ids[m][j] => i = j

(* The list of mutexes has each of them once.                              *)
ListedOnce ==
    \A i, j \in DOMAIN mutexes_list : mutexes_list[i] = mutexes_list[j] => i = j

(* The threads an entry of the buffer was made for: those that wait and,   *)
(* while no slot is used again, those that are gone.                       *)
Accounted(m) ==
    {t \in Thread : \/ status[t] = "WAITING" /\ calls[t] = m
                    \/ ~Reuse /\ status[t] \in {"DEAD", "NONE"}}

BufferBounded == \A m \in Mtx : Len(ids[m]) <= Cardinality(Accounted(m))

MutexInv ==
    /\ MutexTypeOK /\ timed = {}
    /\ RunnerKnown /\ Ownership /\ InCall /\ Sleeping
    /\ EntriesWait /\ NamedOnce /\ ListedOnce
    /\ BufferBounded

(***************************************************************************)
(* What the searches of mutex.c find.                                      *)
(***************************************************************************)

(* A set of indices that is not empty has a least one.                     *)
LEMMA LeastIndex ==
    ASSUME NEW S, S \subseteq Nat, S # {}
    PROVE  \E m \in S : \A k \in S : m <= k
<1>1. IsWellFoundedOn(OpToRel(<, Nat), Nat)
  BY NatLessThanWellFounded
<1>2. PICK x \in S : \A y \in S : ~(<<y, x>> \in OpToRel(<, Nat))
  BY <1>1, WFMin
<1>3. \A y \in S : ~(y < x)
  BY <1>2 DEF OpToRel
<1> QED
  BY <1>3

(* unlock_mutex stops at the first entry that was not cancelled.           *)
LEMMA LiveIndexFound ==
    ASSUME NEW S, NEW s \in Seq(S), ~Cancelled(s)
    PROVE  /\ LiveIndex(s) \in DOMAIN s /\ s[LiveIndex(s)] # NoThread
           /\ \A k \in 1 .. LiveIndex(s) - 1 : s[k] = NoThread
<1> DEFINE I == {j \in DOMAIN s : s[j] # NoThread}
<1>1. I \subseteq Nat /\ I # {}
  BY DEF Cancelled
<1>2. PICK i \in I : \A k \in I : i <= k
  BY <1>1, LeastIndex
<1>3. \A k \in 1 .. i - 1 : s[k] = NoThread
  BY <1>2
<1>4. \E j \in DOMAIN s : s[j] # NoThread /\ \A k \in 1 .. j - 1 : s[k] = NoThread
  BY <1>2, <1>3
<1> QED
  BY <1>4 DEF LiveIndex

(* cancel_wait_on_mutex finds the entry of a thread that has one.          *)
LEMMA EntryFound ==
    ASSUME NEW m \in Mtx, NEW t, ids[m] \in Seq(Thread \cup {NoThread}),
           Contains(ids[m], t)
    PROVE  EntryOf(m, t) \in DOMAIN ids[m] /\ ids[m][EntryOf(m, t)] = t
<1> DEFINE I == {j \in DOMAIN ids[m] : ids[m][j] = t}
<1>1. I \subseteq Nat /\ I # {}
  BY DEF Contains
<1>2. PICK i \in I : \A k \in I : i <= k
  BY <1>1, LeastIndex
<1>3. \A k \in 1 .. i - 1 : ids[m][k] # t
  BY <1>2
<1>4. \E j \in DOMAIN ids[m] : ids[m][j] = t /\ \A k \in 1 .. j - 1 : ids[m][k] # t
  BY <1>2, <1>3
<1> QED
  BY <1>4 DEF EntryOf

(* cancel_wait_on_mutex finds a mutex of the list that names the thread.   *)
LEMMA FirstNamed ==
    ASSUME NEW t, mutexes_list \in Seq(Mtx), ListedOnce,
           \E m \in ToSet(mutexes_list) : Names(m, t)
    PROVE  FirstNaming(t) \in Mtx /\ Names(FirstNaming(t), t)
<1> DEFINE I == {j \in DOMAIN mutexes_list : Names(mutexes_list[j], t)}
<1>1. I \subseteq Nat /\ I # {}
  BY DEF ToSet
<1>2. PICK i \in I : \A k \in I : i <= k
  BY <1>1, LeastIndex
<1>3. \A j, k \in DOMAIN mutexes_list :
        mutexes_list[j] = mutexes_list[i] /\ k < j => ~Names(mutexes_list[k], t)
  BY <1>2 DEF ListedOnce
<1>4. mutexes_list[i] \in ToSet(mutexes_list) /\ Names(mutexes_list[i], t)
  BY <1>2 DEF ToSet
<1>5. \E m \in ToSet(mutexes_list) :
        /\ Names(m, t)
        /\ \A j, k \in DOMAIN mutexes_list :
                mutexes_list[j] = m /\ k < j => ~Names(mutexes_list[k], t)
  BY <1>3, <1>4
<1>6. FirstNaming(t) \in ToSet(mutexes_list) /\ Names(FirstNaming(t), t)
  BY <1>5 DEF FirstNaming
<1>7. ToSet(mutexes_list) \subseteq Mtx
  BY DEF ToSet
<1> QED
  BY <1>6, <1>7

(***************************************************************************)
(* Buffers.                                                                *)
(***************************************************************************)

(* What a buffer keeps when unlock_mutex has taken its next entry.         *)
LEMMA TakenBuffer ==
    ASSUME NEW S, NEW s \in Seq(S), NEW i \in DOMAIN s
    PROVE  LET r == SubSeq(s, i + 1, Len(s))
           IN  /\ r \in Seq(S) /\ Len(r) = Len(s) - i
               /\ DOMAIN r = 1 .. Len(s) - i
               /\ \A j \in DOMAIN r : r[j] = s[i + j] /\ i + j \in DOMAIN s
<1> DEFINE r == SubSeq(s, i + 1, Len(s))
<1>1. i \in Nat /\ Len(s) \in Nat /\ i <= Len(s) /\ DOMAIN s = 1 .. Len(s)
  OBVIOUS
<1>2. \A j \in i + 1 .. Len(s) : s[j] \in S
  BY <1>1
<1>3. /\ r \in Seq(S)
      /\ Len(r) = IF i + 1 <= Len(s) THEN Len(s) - (i + 1) + 1 ELSE 0
      /\ \A j \in 1 .. Len(s) - (i + 1) + 1 : r[j] = s[(i + 1) + j - 1]
  BY <1>1, <1>2, SubSeqProperties
<1>4. Len(r) = Len(s) - i
  BY <1>1, <1>3
<1>5. DOMAIN r = 1 .. Len(s) - i
  BY <1>3, <1>4
<1>6. ASSUME NEW j \in DOMAIN r PROVE r[j] = s[i + j] /\ i + j \in DOMAIN s
  BY <1>1, <1>3, <1>5
<1> QED
  BY <1>3, <1>4, <1>5, <1>6

(* A buffer whose every entry was cancelled names no thread that sleeps.   *)
LEMMA NobodyNamed ==
    ASSUME MutexInv, NEW m \in Mtx, Cancelled(ids[m])
    PROVE  \A t \in Thread : ~(status[t] = "WAITING" /\ calls[t] = m)
BY NoThreadAssumption DEF MutexInv, Sleeping, Cancelled

(* The next entry names a thread that sleeps for the mutex.                *)
LEMMA NextNamed ==
    ASSUME MutexInv, NEW m \in Mtx, ~Cancelled(ids[m])
    PROVE  /\ LiveIndex(ids[m]) \in DOMAIN ids[m]
           /\ \A k \in 1 .. LiveIndex(ids[m]) - 1 : ids[m][k] = NoThread
           /\ NextEntry(m) \in Thread /\ NextEntry(m) = ids[m][LiveIndex(ids[m])]
           /\ status[NextEntry(m)] = "WAITING" /\ calls[NextEntry(m)] = m
<1>1. ids[m] \in Seq(Thread \cup {NoThread})
  BY DEF MutexInv, MutexTypeOK
<1>2. /\ LiveIndex(ids[m]) \in DOMAIN ids[m]
      /\ ids[m][LiveIndex(ids[m])] # NoThread
      /\ \A k \in 1 .. LiveIndex(ids[m]) - 1 : ids[m][k] = NoThread
  BY <1>1, LiveIndexFound
<1>3. ids[m][LiveIndex(ids[m])] \in Thread \cup {NoThread}
  BY <1>1, <1>2
<1> QED
  BY <1>2, <1>3 DEF NextEntry, MutexInv, EntriesWait

(* The threads accounted for are finitely many.                            *)
LEMMA AccountedFinite ==
    ASSUME TableFits, NEW m
    PROVE  IsFiniteSet(Accounted(m)) /\ Cardinality(Accounted(m)) \in Nat
BY FS_Subset, FS_CardinalityType DEF TableFits, Accounted

(* A buffer that was not touched stays bounded while no thread it accounts *)
(* for is lost.                                                            *)
LEMMA BoundedStays ==
    ASSUME TableFits, NEW m \in Mtx, Len(ids[m]) <= Cardinality(Accounted(m)),
           ids[m] \in Seq(Thread \cup {NoThread}),
           ids'[m] = ids[m], Accounted(m) \subseteq Accounted(m)'
    PROVE  Len(ids'[m]) <= Cardinality(Accounted(m)')
<1>1. IsFiniteSet(Accounted(m)') /\ Cardinality(Accounted(m)') \in Nat
  BY FS_Subset, FS_CardinalityType DEF TableFits, Accounted
<1>2. Cardinality(Accounted(m)) <= Cardinality(Accounted(m)')
  BY <1>1, FS_Subset
<1> QED
  BY <1>1, <1>2, AccountedFinite

(* No buffer is full for a thread that neither owns the mutex nor waits:   *)
(* it and the owner are two threads without an entry.                      *)
LEMMA NeverFull ==
    ASSUME TableFits, MutexInv, NEW m \in Mtx, current \in Thread,
           locker_tid[m] \notin {NoThread, current}
    PROVE  ~BufferFull(m)
<1> DEFINE o == locker_tid[m]
           R == Thread \ {current}
<1>1. o \in Thread /\ Live(o) /\ status[current] = "RUNNING"
  BY DEF MutexInv, MutexTypeOK, Ownership, RunnerKnown
<1>2. o \notin Accounted(m) /\ current \notin Accounted(m)
  BY <1>1 DEF Accounted, Live, MutexInv, Sleeping
<1>3. IsFiniteSet(R) /\ Cardinality(R) = Cardinality(Thread) - 1
  BY FS_RemoveElement DEF TableFits
<1>4. IsFiniteSet(R \ {o}) /\ Cardinality(R \ {o}) = Cardinality(Thread) - 2
  <2>1. o \in R
    BY <1>1
  <2> HIDE DEF R, o
  <2>2. IsFiniteSet(R \ {o}) /\ Cardinality(R \ {o}) = Cardinality(R) - 1
    BY <2>1, <1>3, FS_RemoveElement
  <2>3. Cardinality(Thread) \in Nat
    BY FS_CardinalityType DEF TableFits
  <2> QED
    BY <2>2, <2>3, <1>3
<1>5. Accounted(m) \in SUBSET (R \ {o})
  BY <1>2 DEF Accounted
<1>6. Cardinality(Accounted(m)) <= Cardinality(Thread) - 2
  BY <1>4, <1>5, FS_Subset
<1>7. Len(ids[m]) \in Nat /\ Len(ids[m]) <= Cardinality(Accounted(m))
  BY DEF MutexInv, MutexTypeOK, BufferBounded
<1>8. Cardinality(Thread) \in Nat /\ Cardinality(Thread) <= Slots
  BY FS_CardinalityType DEF TableFits
<1> QED
  BY <1>6, <1>7, <1>8, AccountedFinite, SlotsAssumption DEF BufferFull

(***************************************************************************)
(* Every step keeps the invariant.                                         *)
(***************************************************************************)

LEMMA InitMutexInv ==
    ASSUME TableFits PROVE Init => MutexInv
<1> SUFFICES ASSUME Init PROVE MutexInv
  OBVIOUS
<1>1. MutexTypeOK /\ timed = {}
  BY DEF Init, ThreadsInit, MutexTypeOK, ThreadsTypeOK, Status, WaitFlag
<1>2. RunnerKnown /\ Ownership /\ InCall /\ Sleeping
  BY NoThreadAssumption
     DEF Init, ThreadsInit, RunnerKnown, Ownership, OwnerAsked, InCall, Sleeping, Live
<1>3. EntriesWait /\ NamedOnce /\ ListedOnce
  BY DEF Init, EntriesWait, NamedOnce, ListedOnce
<1>4. BufferBounded
  BY AccountedFinite DEF Init, BufferBounded
<1> QED
  BY <1>1, <1>2, <1>3, <1>4 DEF MutexInv

(* thread_create_mutex and thread_destroy_mutex change the list alone.     *)
LEMMA ListKept ==
    ASSUME MutexInv, NEW m \in Mtx,
           thread_create_mutex(m) \/ thread_destroy_mutex(m)
    PROVE  MutexInv'
<1>1. /\ UNCHANGED <<threadsVars, locker_tid, ids, calls, timed, held>>
      /\ ret' = "none"
  BY DEF thread_create_mutex, thread_destroy_mutex
<1>2. mutexes_list' \in Seq(Mtx) /\ ListedOnce'
  <2>1. CASE thread_create_mutex(m)
    <3> DEFINE n == Len(mutexes_list)
    <3>1. /\ mutexes_list \in Seq(Mtx) /\ n \in Nat /\ mutexes_list' = <<m>> \o mutexes_list
          /\ \A j \in 1 .. n : mutexes_list[j] # m
          /\ \A j, k \in 1 .. n : mutexes_list[j] = mutexes_list[k] => j = k
      BY <2>1 DEF thread_create_mutex, Contains, ListedOnce, MutexInv, MutexTypeOK
    <3>2. /\ mutexes_list' \in Seq(Mtx) /\ Len(mutexes_list') = n + 1
          /\ mutexes_list'[1] = m
          /\ \A j \in 2 .. n + 1 : j - 1 \in 1 .. n /\ mutexes_list'[j] = mutexes_list[j - 1]
      BY <3>1
    <3>3. DOMAIN mutexes_list' = 1 .. n + 1
      BY <3>1, <3>2
    <3>4. ASSUME NEW j \in 1 .. n + 1, NEW k \in 1 .. n + 1, mutexes_list'[j] = mutexes_list'[k]
          PROVE  j = k
      <4>1. CASE j = 1 \/ k = 1
        BY <3>1, <3>2, <3>4, <4>1
      <4>2. CASE j # 1 /\ k # 1
        <5>1. j \in 2 .. n + 1 /\ k \in 2 .. n + 1
          BY <3>1, <4>2
        <5>2. mutexes_list[j - 1] = mutexes_list[k - 1] /\ j - 1 \in 1 .. n /\ k - 1 \in 1 .. n
          BY <3>2, <3>4, <5>1
        <5>3. j - 1 = k - 1
          BY <3>1, <5>2
        <5> QED
          BY <5>1, <5>3
      <4> QED
        BY <4>1, <4>2
    <3> QED
      BY <3>2, <3>3, <3>4 DEF ListedOnce
  <2>2. CASE thread_destroy_mutex(m)
    <3>1. PICK i \in DOMAIN mutexes_list :
              mutexes_list' = SubSeq(mutexes_list, 1, i - 1)
                                \o SubSeq(mutexes_list, i + 1, Len(mutexes_list))
      BY <2>2 DEF thread_destroy_mutex, RemoveAt
    <3> DEFINE n == Len(mutexes_list)
               a == SubSeq(mutexes_list, 1, i - 1)
               b == SubSeq(mutexes_list, i + 1, n)
    <3>2. /\ mutexes_list \in Seq(Mtx) /\ n \in Nat /\ DOMAIN mutexes_list = 1 .. n
          /\ i \in Nat /\ 1 <= i /\ i <= n
      <4>1. mutexes_list \in Seq(Mtx)
        BY DEF MutexInv, MutexTypeOK
      <4> QED
        BY <3>1, <4>1
    <3>3. /\ a \in Seq(Mtx) /\ Len(a) = i - 1
          /\ \A j \in 1 .. i - 1 : a[j] = mutexes_list[j]
      BY <3>2, SubSeqProperties
    <3>4. /\ b \in Seq(Mtx) /\ Len(b) = n - i
          /\ \A j \in 1 .. n - i : b[j] = mutexes_list[i + j]
      BY <3>2, TakenBuffer
    <3> HIDE DEF a, b, n
    <3>5. /\ a \o b \in Seq(Mtx) /\ Len(a \o b) = n - 1
          /\ \A j \in 1 .. n - 1 :
                (a \o b)[j] = IF j < i THEN mutexes_list[j] ELSE mutexes_list[j + 1]
      <4>1. /\ a \o b \in Seq(Mtx) /\ Len(a \o b) = Len(a) + Len(b)
            /\ \A j \in 1 .. Len(a) + Len(b) :
                (a \o b)[j] = IF j <= Len(a) THEN a[j] ELSE b[j - Len(a)]
        BY <3>3, <3>4, ConcatProperties
      <4>2. ASSUME NEW j \in 1 .. n - 1, ~(j < i)
            PROVE  (a \o b)[j] = mutexes_list[j + 1]
        <5>1. j - (i - 1) \in 1 .. n - i /\ i + (j - (i - 1)) = j + 1
          BY <3>2, <4>2
        <5>2. b[j - (i - 1)] = mutexes_list[i + (j - (i - 1))]
          BY <3>4, <5>1
        <5>3. j \in 1 .. Len(a) + Len(b) /\ ~(j <= Len(a)) /\ Len(a) = i - 1
          BY <3>2, <3>3, <3>4, <4>2
        <5> QED
          BY <4>1, <5>1, <5>2, <5>3
      <4> QED
        BY <3>2, <3>3, <3>4, <4>1, <4>2
    <3>6. mutexes_list' = a \o b
      BY <3>1 DEF a, b, n
    <3> QED
      <4>1. DOMAIN mutexes_list' = 1 .. n - 1
        BY <3>2, <3>5, <3>6
      <4>2. \A j, k \in 1 .. n : mutexes_list[j] = mutexes_list[k] => j = k
        BY <3>2 DEF ListedOnce, MutexInv
      <4>3. ASSUME NEW j \in 1 .. n - 1, NEW k \in 1 .. n - 1, mutexes_list'[j] = mutexes_list'[k]
            PROVE  j = k
        <5> DEFINE old(x) == IF x < i THEN x ELSE x + 1
        <5>1. \A x \in 1 .. n - 1 : old(x) \in 1 .. n /\ mutexes_list'[x] = mutexes_list[old(x)]
          <6> TAKE x \in 1 .. n - 1
          <6>1. x \in Int /\ i \in Int /\ n \in Int /\ 1 <= x /\ x <= n - 1
            BY <3>2
          <6>2. mutexes_list'[x] = IF x < i THEN mutexes_list[x] ELSE mutexes_list[x + 1]
            BY <3>5, <3>6
          <6> QED
            BY <6>1, <6>2
        <5>2. /\ old(j) \in 1 .. n /\ mutexes_list'[j] = mutexes_list[old(j)]
              /\ old(k) \in 1 .. n /\ mutexes_list'[k] = mutexes_list[old(k)]
          BY <5>1
        <5>3. old(j) = old(k)
          <6> HIDE DEF old
          <6> QED
            BY <4>2, <4>3, <5>2
        <5> QED
          BY <3>2, <5>3
      <4> QED
        BY <3>5, <3>6, <4>1, <4>3 DEF ListedOnce
  <2> QED
    BY <2>1, <2>2
<1>3. MutexTypeOK' /\ timed' = {}
  BY <1>1, <1>2 DEF MutexInv, MutexTypeOK, ThreadsTypeOK, threadsVars
<1> QED
  BY <1>1, <1>2, <1>3
     DEF MutexInv, threadsVars, RunnerKnown, Ownership, OwnerAsked, InCall, Sleeping,
         Live, EntriesWait, NamedOnce, BufferBounded, Accounted

(* A lock call that does not wait leaves its caller the owner.             *)
LEMMA LockKept ==
    ASSUME TableFits, MutexInv, NEW m \in Mtx, LockFree(m) \/ LockRefused(m)
    PROVE  MutexInv'
<1>1. current \in Thread /\ status[current] = "RUNNING" /\ Live(current)
  BY DEF LockFree, LockRefused, MutexInv, MutexTypeOK, ThreadsTypeOK, RunnerKnown, Live
<1>2. locker_tid' = [locker_tid EXCEPT ![m] = current]
  BY <1>1, NeverFull DEF LockFree, LockRefused, MutexInv, MutexTypeOK
<1>3. /\ UNCHANGED <<threadsVars, mutexes_list, ids, calls, timed>>
      /\ held' = [held EXCEPT ![current] = @ \cup {m}] /\ ret' = "EBUSY"
      /\ locker_tid[m] \in {NoThread, current} /\ calls[current] = NoMtx
  BY <1>1, NeverFull DEF LockFree, LockRefused, InApp
<1>4. MutexTypeOK' /\ timed' = {} /\ RunnerKnown'
  BY <1>1, <1>2, <1>3
     DEF MutexInv, MutexTypeOK, ThreadsTypeOK, threadsVars, RunnerKnown
<1>5. Ownership'
  BY <1>1, <1>2, <1>3, NoThreadAssumption
     DEF MutexInv, MutexTypeOK, Ownership, OwnerAsked, Live, threadsVars
<1>6. InCall' /\ Sleeping'
  <2>1. \A t \in Thread : Live(t)' <=> Live(t)
    BY <1>3 DEF Live, threadsVars
  <2>2. \A t \in Thread : status[t] = "WAITING" => t # current
    BY <1>1
  <2> QED
    BY <1>1, <1>2, <1>3, <2>1, <2>2, NoThreadAssumption
     DEF MutexInv, MutexTypeOK, InCall, Sleeping, Live, threadsVars
<1>7. EntriesWait' /\ NamedOnce' /\ ListedOnce' /\ BufferBounded'
  BY <1>3 DEF MutexInv, EntriesWait, NamedOnce, ListedOnce, BufferBounded, Accounted,
              threadsVars
<1> QED
  BY <1>4, <1>5, <1>6, <1>7 DEF MutexInv

(* A lock call that waits adds one entry, for a thread that was running.   *)
LEMMA WaitKept ==
    ASSUME Untimed, TableFits, MutexInv, NEW m \in Mtx, NEW msecs \in Timeouts,
           LockWaits(m, msecs)
    PROVE  MutexInv'
<1> DEFINE c == current
<1>1. c \in Thread /\ status[c] = "RUNNING" /\ Live(c) /\ calls[c] = NoMtx
  BY DEF LockWaits, InApp, MutexInv, MutexTypeOK, ThreadsTypeOK, RunnerKnown, Live
<1>2. msecs = 0
  BY DEF Untimed
<1>3. /\ status' = [status EXCEPT ![c] = "WAITING"] /\ current' = NoThread
      /\ waits' = [waits EXCEPT ![c] = {"MUTEX"}]
      /\ wake' = [wake EXCEPT ![c] = 0]
      /\ UNCHANGED <<doomed, now, mutexes_list, locker_tid, held>>
      /\ ids' = [ids EXCEPT ![m] = Append(ids[m], c)]
      /\ calls' = [calls EXCEPT ![c] = m] /\ timed' = timed \ {c} /\ ret' = "none"
      /\ locker_tid[m] \notin {NoThread, c}
  BY <1>2 DEF LockWaits, Block, QueueCaller
<1>4. ids[m] \in Seq(Thread \cup {NoThread})
  BY DEF MutexInv, MutexTypeOK
<1>5. /\ ids'[m] \in Seq(Thread \cup {NoThread}) /\ Len(ids'[m]) = Len(ids[m]) + 1
      /\ DOMAIN ids'[m] = 1 .. Len(ids[m]) + 1
      /\ \A j \in DOMAIN ids[m] : ids'[m][j] = ids[m][j]
      /\ ids'[m][Len(ids[m]) + 1] = c
      /\ \A k \in Mtx \ {m} : ids'[k] = ids[k]
  <2>1. ids'[m] = Append(ids[m], c) /\ \A k \in Mtx \ {m} : ids'[k] = ids[k]
    BY <1>3 DEF MutexInv, MutexTypeOK
  <2> QED
    BY <1>1, <1>4, <2>1
<1>6. MutexTypeOK' /\ timed' = {}
  <2>1. ids' \in [Mtx -> Seq(Thread \cup {NoThread})]
    BY <1>3, <1>5 DEF MutexInv, MutexTypeOK
  <2>2. calls' \in [Thread -> Mtx \cup {NoMtx}]
    BY <1>1, <1>3 DEF MutexInv, MutexTypeOK
  <2>3. ThreadsTypeOK'
    BY <1>1, <1>3 DEF MutexInv, MutexTypeOK, ThreadsTypeOK, Status, WaitFlag
  <2> QED
    BY <1>3, <2>1, <2>2, <2>3 DEF MutexInv, MutexTypeOK
<1>7. \A t \in Thread : Live(t)' <=> Live(t)
  BY <1>1, <1>3 DEF Live, MutexInv, MutexTypeOK, ThreadsTypeOK
<1>8. RunnerKnown'
  BY <1>1, <1>3, NoThreadAssumption
     DEF MutexInv, MutexTypeOK, ThreadsTypeOK, RunnerKnown
<1>9. Ownership'
  <2>1. \A k \in Mtx : locker_tid[k] # NoThread => locker_tid[k] \in Thread
    BY DEF MutexInv, MutexTypeOK
  <2>2. \A k \in Mtx, t \in Thread :
            locker_tid[k] = t /\ Live(t) => k \in held[t] \/ calls'[t] = k
    BY <1>1, <1>3, MtxAssumption DEF MutexInv, MutexTypeOK, Ownership, OwnerAsked
  <2> QED
    BY <1>3, <1>7, <2>1, <2>2 DEF MutexInv, Ownership, OwnerAsked
<1>10. InCall'
  BY <1>1, <1>3, <1>7 DEF MutexInv, MutexTypeOK, ThreadsTypeOK, InCall
<1>11. Sleeping'
  <2> SUFFICES ASSUME NEW t \in Thread, status'[t] = "WAITING"
               PROVE  /\ calls'[t] # NoMtx /\ waits'[t] = {"MUTEX"}
                      /\ locker_tid'[calls'[t]] \notin {NoThread, t}
                      /\ \E j \in DOMAIN ids'[calls'[t]] : ids'[calls'[t]][j] = t
    BY DEF Sleeping
  <2>1. CASE t = c
    <3>1. calls'[t] = m /\ waits'[t] = {"MUTEX"} /\ locker_tid'[m] \notin {NoThread, t}
      BY <1>1, <1>3, <2>1 DEF MutexInv, MutexTypeOK, ThreadsTypeOK
    <3>2. Len(ids[m]) + 1 \in DOMAIN ids'[m] /\ ids'[m][Len(ids[m]) + 1] = t
      BY <1>4, <1>5, <2>1
    <3> QED
      BY <3>1, <3>2, MtxAssumption
  <2>2. CASE t # c
    <3>1. /\ calls'[t] = calls[t] /\ waits'[t] = waits[t] /\ status[t] = "WAITING"
          /\ calls[t] \in Mtx \cup {NoMtx}
      BY <1>3, <2>2 DEF MutexInv, MutexTypeOK, ThreadsTypeOK
    <3>2. /\ calls[t] # NoMtx /\ waits[t] = {"MUTEX"}
          /\ locker_tid[calls[t]] \notin {NoThread, t}
          /\ \E j \in DOMAIN ids[calls[t]] : ids[calls[t]][j] = t
      BY <3>1 DEF MutexInv, Sleeping
    <3>3. \A j \in DOMAIN ids[m] : j \in DOMAIN ids'[m]
      BY <1>4, <1>5
    <3> QED
      BY <1>3, <1>5, <3>1, <3>2, <3>3
  <2> QED
    BY <2>1, <2>2
<1>12. EntriesWait' /\ NamedOnce' /\ ListedOnce'
  <2>1. \A k \in Mtx : \A j \in DOMAIN ids[k] :
            ids[k][j] # NoThread =>
                /\ ids[k][j] \in Thread /\ ids[k][j] # c
                /\ status'[ids[k][j]] = "WAITING" /\ calls'[ids[k][j]] = k
    <3> SUFFICES ASSUME NEW k \in Mtx, NEW j \in DOMAIN ids[k], ids[k][j] # NoThread
                 PROVE  /\ ids[k][j] \in Thread /\ ids[k][j] # c
                        /\ status'[ids[k][j]] = "WAITING" /\ calls'[ids[k][j]] = k
      OBVIOUS
    <3>1. ids[k] \in Seq(Thread \cup {NoThread})
      BY DEF MutexInv, MutexTypeOK
    <3>2. ids[k][j] \in Thread
      BY <3>1
    <3>3. status[ids[k][j]] = "WAITING" /\ calls[ids[k][j]] = k
      BY DEF MutexInv, EntriesWait
    <3> QED
      BY <1>1, <1>3, <3>2, <3>3 DEF MutexInv, MutexTypeOK, ThreadsTypeOK
  <2>2. status'[c] = "WAITING" /\ calls'[c] = m
    BY <1>1, <1>3 DEF MutexInv, MutexTypeOK, ThreadsTypeOK
  <2>3. \A j \in DOMAIN ids'[m] : j \in DOMAIN ids[m] \/ j = Len(ids[m]) + 1
    BY <1>4, <1>5
  <2>4. EntriesWait'
    BY <1>5, <2>1, <2>2, <2>3 DEF EntriesWait
  <2>5. NamedOnce'
    <3> SUFFICES ASSUME NEW k \in Mtx, NEW i \in DOMAIN ids'[k], NEW j \in DOMAIN ids'[k],
                        ids'[k][i] # NoThread, ids'[k][i] = ids'[k][j]
                 PROVE  i = j
      BY DEF NamedOnce
    <3>1. CASE k # m
      BY <1>5, <3>1 DEF MutexInv, NamedOnce
    <3>2. CASE k = m
      <4>1. \A x \in DOMAIN ids[m] : ids[m][x] # c
        BY <1>1, <2>1, NoThreadAssumption
      <4>2. CASE i \in DOMAIN ids[m] /\ j \in DOMAIN ids[m]
        BY <1>5, <3>2, <4>2 DEF MutexInv, NamedOnce
      <4> QED
        BY <1>5, <2>3, <3>2, <4>1, <4>2
    <3> QED
      BY <3>1, <3>2
  <2> QED
    BY <1>3, <2>4, <2>5 DEF MutexInv, ListedOnce
<1>13. BufferBounded'
  <2> SUFFICES ASSUME NEW k \in Mtx PROVE Len(ids'[k]) <= Cardinality(Accounted(k)')
    BY DEF BufferBounded
  <2>1. Len(ids[k]) <= Cardinality(Accounted(k)) /\ ids[k] \in Seq(Thread \cup {NoThread})
    BY DEF MutexInv, BufferBounded, MutexTypeOK
  <2>2. CASE k # m
    <3>1. Accounted(k) \subseteq Accounted(k)'
      BY <1>1, <1>3 DEF Accounted, MutexInv, MutexTypeOK, ThreadsTypeOK
    <3> QED
      BY <1>5, <2>1, <2>2, <3>1, BoundedStays
  <2>3. CASE k = m
    <3>1. Accounted(m)' = Accounted(m) \cup {c} /\ c \notin Accounted(m)
      BY <1>1, <1>3 DEF Accounted, MutexInv, MutexTypeOK, ThreadsTypeOK
    <3>2. Cardinality(Accounted(m)') = Cardinality(Accounted(m)) + 1
      BY <3>1, AccountedFinite, FS_AddElement
    <3> QED
      BY <1>5, <2>1, <2>3, <3>2, AccountedFinite
  <2> QED
    BY <2>2, <2>3
<1> QED
  BY <1>6, <1>8, <1>9, <1>10, <1>11, <1>12, <1>13 DEF MutexInv

(* The call that returns has been given the mutex.                         *)
LEMMA ReturnKept ==
    ASSUME TableFits, MutexInv, LockReturns
    PROVE  MutexInv'
<1> DEFINE c == current
           m == calls[current]
<1>1. c \in Thread /\ status[c] = "RUNNING" /\ Live(c) /\ m \in Mtx
  BY DEF LockReturns, MutexInv, MutexTypeOK, ThreadsTypeOK, RunnerKnown, Live
<1>2. locker_tid[m] = c
  BY <1>1 DEF MutexInv, InCall, LockReturns
<1>3. /\ held' = [held EXCEPT ![c] = @ \cup {m}] /\ ret' = "EOK"
      /\ calls' = [calls EXCEPT ![c] = NoMtx]
      /\ UNCHANGED <<threadsVars, mutexes_list, locker_tid, ids, timed>>
  BY DEF LockReturns, MutexInv
<1> HIDE DEF m
<1>4. MutexTypeOK' /\ timed' = {} /\ RunnerKnown'
  BY <1>1, <1>3 DEF MutexInv, MutexTypeOK, ThreadsTypeOK, threadsVars, RunnerKnown
<1>5. Ownership'
  BY <1>1, <1>2, <1>3
     DEF MutexInv, MutexTypeOK, Ownership, OwnerAsked, Live, threadsVars, m
<1>6. InCall' /\ Sleeping'
  BY <1>1, <1>3 DEF MutexInv, MutexTypeOK, InCall, Sleeping, Live, threadsVars
<1>7. EntriesWait'
  <2> SUFFICES ASSUME NEW k \in Mtx, NEW j \in DOMAIN ids[k], ids[k][j] # NoThread
               PROVE  status[ids[k][j]] = "WAITING" /\ calls'[ids[k][j]] = k
    BY <1>3 DEF EntriesWait, threadsVars
  <2>1. ids[k][j] \in Thread /\ status[ids[k][j]] = "WAITING" /\ calls[ids[k][j]] = k
    <3>1. ids[k] \in Seq(Thread \cup {NoThread})
      BY DEF MutexInv, MutexTypeOK
    <3> QED
      BY <3>1 DEF MutexInv, EntriesWait
  <2> QED
    BY <1>1, <1>3, <2>1 DEF MutexInv, MutexTypeOK
<1>8. NamedOnce' /\ ListedOnce'
  BY <1>3 DEF MutexInv, NamedOnce, ListedOnce
<1>9. BufferBounded'
  <2> SUFFICES ASSUME NEW k \in Mtx PROVE Len(ids'[k]) <= Cardinality(Accounted(k)')
    BY DEF BufferBounded
  <2>1. Accounted(k) \subseteq Accounted(k)'
    BY <1>1, <1>3 DEF Accounted, threadsVars, MutexInv, MutexTypeOK
  <2> QED
    BY <1>3, <2>1, BoundedStays DEF MutexInv, BufferBounded, MutexTypeOK
<1> QED
  BY <1>4, <1>5, <1>6, <1>7, <1>8, <1>9 DEF MutexInv

(* An unlock of a mutex for which nobody waits.                            *)
LEMMA ReleaseKept ==
    ASSUME TableFits, MutexInv, NEW m \in Mtx, thread_unlock_mutex(m),
           Cancelled(ids[m])
    PROVE  MutexInv'
<1> DEFINE c == current
<1>1. /\ c \in Thread /\ status[c] = "RUNNING" /\ Live(c) /\ calls[c] = NoMtx
      /\ locker_tid[m] = c
  BY DEF thread_unlock_mutex, MayUnlock, InApp, MutexInv, MutexTypeOK, ThreadsTypeOK,
         RunnerKnown, Live
<1>2. /\ locker_tid' = [locker_tid EXCEPT ![m] = NoThread]
      /\ ids' = [ids EXCEPT ![m] = <<>>]
      /\ held' = [held EXCEPT ![c] = @ \ {m}] /\ ret' = "none"
      /\ UNCHANGED <<mutexes_list, calls, timed>>
  BY DEF thread_unlock_mutex, unlock_mutex
<1>3. UNCHANGED threadsVars
  <2>1. locker_tid'[m] = NoThread
    BY <1>2 DEF MutexInv, MutexTypeOK
  <2>2. WakeOwner(m) = {}
    BY <2>1, NoThreadAssumption DEF WakeOwner
  <2>3. Resumable("MUTEX", WakeOwner(m)) = {}
    BY <2>2 DEF Resumable
  <2>4. /\ status' = [t \in Thread |-> status[t]] /\ waits' = [t \in Thread |-> waits[t]]
        /\ wake' = [t \in Thread |-> wake[t]] /\ UNCHANGED <<current, doomed, now>>
    BY <2>3 DEF thread_unlock_mutex, Wake
  <2> QED
    BY <2>4 DEF threadsVars, MutexInv, MutexTypeOK, ThreadsTypeOK
<1>4. \A t \in Thread : ~(status[t] = "WAITING" /\ calls[t] = m)
  BY NobodyNamed
<1>5. ids'[m] = <<>> /\ \A k \in Mtx \ {m} : ids'[k] = ids[k]
  BY <1>2 DEF MutexInv, MutexTypeOK
<1>6. MutexTypeOK' /\ timed' = {} /\ RunnerKnown'
  <2>1. ids' \in [Mtx -> Seq(Thread \cup {NoThread})]
    BY <1>2 DEF MutexInv, MutexTypeOK
  <2> QED
    BY <1>1, <1>2, <1>3, <2>1
       DEF MutexInv, MutexTypeOK, ThreadsTypeOK, threadsVars, RunnerKnown
<1>7. Ownership'
  BY <1>1, <1>2, <1>3, NoThreadAssumption
     DEF MutexInv, MutexTypeOK, Ownership, OwnerAsked, Live, threadsVars
<1>8. InCall'
  <2> SUFFICES ASSUME NEW t \in Thread, Live(t), calls[t] # NoMtx
               PROVE  status[t] = "WAITING" \/ locker_tid'[calls[t]] = t
    BY <1>2, <1>3 DEF InCall, Live, threadsVars
  <2>1. calls[t] \in Mtx /\ (status[t] = "WAITING" \/ locker_tid[calls[t]] = t)
    BY DEF MutexInv, MutexTypeOK, InCall
  <2> QED
    BY <1>1, <1>2, <2>1 DEF MutexInv, MutexTypeOK
<1>9. Sleeping'
  <2> SUFFICES ASSUME NEW t \in Thread, status[t] = "WAITING"
               PROVE  /\ calls[t] # NoMtx /\ waits[t] = {"MUTEX"}
                      /\ locker_tid'[calls[t]] \notin {NoThread, t}
                      /\ \E j \in DOMAIN ids'[calls[t]] : ids'[calls[t]][j] = t
    BY <1>2, <1>3 DEF Sleeping, threadsVars
  <2>1. /\ calls[t] \in Mtx \ {m} /\ calls[t] # NoMtx /\ waits[t] = {"MUTEX"}
        /\ locker_tid[calls[t]] \notin {NoThread, t}
        /\ \E j \in DOMAIN ids[calls[t]] : ids[calls[t]][j] = t
    BY <1>4 DEF MutexInv, MutexTypeOK, Sleeping
  <2> QED
    BY <1>2, <1>5, <2>1 DEF MutexInv, MutexTypeOK
<1>10. EntriesWait' /\ NamedOnce' /\ ListedOnce'
  BY <1>2, <1>3, <1>5
     DEF MutexInv, EntriesWait, NamedOnce, ListedOnce, threadsVars
<1>11. BufferBounded'
  <2> SUFFICES ASSUME NEW k \in Mtx PROVE Len(ids'[k]) <= Cardinality(Accounted(k)')
    BY DEF BufferBounded
  <2>1. Accounted(k)' = Accounted(k)
    BY <1>2, <1>3 DEF Accounted, threadsVars
  <2>2. CASE k = m
    BY <1>5, <2>1, <2>2, AccountedFinite
  <2>3. CASE k # m
    BY <1>5, <2>1, <2>3, BoundedStays DEF MutexInv, BufferBounded, MutexTypeOK
  <2> QED
    BY <2>2, <2>3
<1> QED
  BY <1>6, <1>7, <1>8, <1>9, <1>10, <1>11 DEF MutexInv

(* An unlock that hands the mutex to the next thread of the buffer.        *)
LEMMA HandOverKept ==
    ASSUME TableFits, MutexInv, NEW m \in Mtx, thread_unlock_mutex(m),
           ~Cancelled(ids[m])
    PROVE  MutexInv'
<1> DEFINE c == current
           u == NextEntry(m)
           i == LiveIndex(ids[m])
<1>1. /\ c \in Thread /\ status[c] = "RUNNING" /\ Live(c) /\ calls[c] = NoMtx
      /\ locker_tid[m] = c
  BY DEF thread_unlock_mutex, MayUnlock, InApp, MutexInv, MutexTypeOK, ThreadsTypeOK,
         RunnerKnown, Live
<1>2. /\ i \in DOMAIN ids[m] /\ \A k \in 1 .. i - 1 : ids[m][k] = NoThread
      /\ u \in Thread /\ u = ids[m][i] /\ status[u] = "WAITING" /\ calls[u] = m
  BY NextNamed
<1>3. waits[u] = {"MUTEX"} /\ Live(u) /\ u # c
  BY <1>1, <1>2 DEF MutexInv, Sleeping, RunnerKnown, Live
<1>4. /\ locker_tid' = [locker_tid EXCEPT ![m] = u]
      /\ ids' = [ids EXCEPT ![m] = SubSeq(ids[m], i + 1, Len(ids[m]))]
      /\ held' = [held EXCEPT ![c] = @ \ {m}] /\ ret' = "none"
      /\ UNCHANGED <<mutexes_list, calls, timed>>
  BY <1>2 DEF thread_unlock_mutex, unlock_mutex
<1> HIDE DEF u, i
<1>5. /\ status' = [status EXCEPT ![u] = "READY"]
      /\ waits' = [waits EXCEPT ![u] = {}]
      /\ wake' = [wake EXCEPT ![u] = 0]
      /\ UNCHANGED <<current, doomed, now>>
  <2>1. locker_tid'[m] = u
    BY <1>4 DEF MutexInv, MutexTypeOK
  <2>2. WakeOwner(m) = {u}
    BY <1>2, <2>1 DEF WakeOwner
  <2>3. Resumable("MUTEX", WakeOwner(m)) = {u}
    BY <1>2, <1>3, <2>2 DEF Resumable
  <2>4. /\ status' = [t \in Thread |-> IF t \in {u} THEN "READY" ELSE status[t]]
        /\ waits' = [t \in Thread |-> IF t \in {u} THEN {} ELSE waits[t]]
        /\ wake' = [t \in Thread |-> IF t \in {u} THEN 0 ELSE wake[t]]
        /\ UNCHANGED <<current, doomed, now>>
    BY <2>3 DEF thread_unlock_mutex, Wake
  <2> QED
    BY <1>2, <2>4 DEF MutexInv, MutexTypeOK, ThreadsTypeOK
<1>6. ids[m] \in Seq(Thread \cup {NoThread}) /\ i \in Nat /\ 1 <= i
  <2>1. ids[m] \in Seq(Thread \cup {NoThread})
    BY DEF MutexInv, MutexTypeOK
  <2> QED
    BY <1>2, <2>1
<1>7. /\ ids'[m] = SubSeq(ids[m], i + 1, Len(ids[m]))
      /\ \A k \in Mtx \ {m} : ids'[k] = ids[k]
  BY <1>4 DEF MutexInv, MutexTypeOK
<1>8. /\ ids'[m] \in Seq(Thread \cup {NoThread}) /\ Len(ids'[m]) = Len(ids[m]) - i
      /\ DOMAIN ids'[m] = 1 .. Len(ids[m]) - i
      /\ \A j \in DOMAIN ids'[m] : ids'[m][j] = ids[m][i + j] /\ i + j \in DOMAIN ids[m]
  <2>1. LET r == SubSeq(ids[m], i + 1, Len(ids[m]))
        IN  /\ r \in Seq(Thread \cup {NoThread}) /\ Len(r) = Len(ids[m]) - i
            /\ DOMAIN r = 1 .. Len(ids[m]) - i
            /\ \A j \in DOMAIN r : r[j] = ids[m][i + j] /\ i + j \in DOMAIN ids[m]
    BY <1>2, <1>6, TakenBuffer
  <2> QED
    BY <1>7, <2>1
<1>9. MutexTypeOK' /\ timed' = {} /\ RunnerKnown'
  <2>1. ids' \in [Mtx -> Seq(Thread \cup {NoThread})]
    BY <1>4, <1>8 DEF MutexInv, MutexTypeOK
  <2>2. ThreadsTypeOK'
    BY <1>2, <1>5 DEF MutexInv, MutexTypeOK, ThreadsTypeOK, Status
  <2>3. RunnerKnown'
    BY <1>1, <1>2, <1>3, <1>5
       DEF MutexInv, MutexTypeOK, ThreadsTypeOK, RunnerKnown, Live
  <2> QED
    BY <1>1, <1>2, <1>4, <2>1, <2>2, <2>3 DEF MutexInv, MutexTypeOK
<1>10. \A t \in Thread : Live(t)' <=> Live(t)
  BY <1>2, <1>3, <1>5 DEF Live, MutexInv, MutexTypeOK, ThreadsTypeOK
<1>11. Ownership'
  <2>1. \A k \in Mtx : locker_tid'[k] # NoThread => Live(locker_tid[k])'
    <3>1. \A k \in Mtx : locker_tid'[k] # NoThread =>
              locker_tid'[k] \in Thread /\ Live(locker_tid[k])'
      BY <1>2, <1>3, <1>4, <1>5 DEF MutexInv, MutexTypeOK, ThreadsTypeOK, Ownership, Live
    <3> QED
      BY <3>1
  <2>2. \A k \in Mtx, t \in Thread : Live(t)' /\ k \in held'[t] => locker_tid'[k] = t
    BY <1>1, <1>4, <1>10 DEF MutexInv, MutexTypeOK, Ownership
  <2>3. \A k \in Mtx, t \in Thread :
            locker_tid'[k] = t /\ Live(t)' => k \in held'[t] \/ calls'[t] = k
    BY <1>1, <1>2, <1>4, <1>10 DEF MutexInv, MutexTypeOK, Ownership, OwnerAsked
  <2> QED
    BY <2>1, <2>2, <2>3 DEF Ownership, OwnerAsked
<1>12. InCall'
  <2> SUFFICES ASSUME NEW t \in Thread, Live(t), calls[t] # NoMtx
               PROVE  status'[t] = "WAITING" \/ locker_tid'[calls[t]] = t
    BY <1>4, <1>10 DEF InCall
  <2>1. calls[t] \in Mtx /\ (status[t] = "WAITING" \/ locker_tid[calls[t]] = t)
    BY DEF MutexInv, MutexTypeOK, InCall
  <2> QED
    BY <1>1, <1>2, <1>4, <1>5, <2>1 DEF MutexInv, MutexTypeOK, ThreadsTypeOK
<1>13. Sleeping'
  <2> SUFFICES ASSUME NEW t \in Thread, status'[t] = "WAITING"
               PROVE  /\ calls'[t] # NoMtx /\ waits'[t] = {"MUTEX"}
                      /\ locker_tid'[calls'[t]] \notin {NoThread, t}
                      /\ \E j \in DOMAIN ids'[calls'[t]] : ids'[calls'[t]][j] = t
    BY DEF Sleeping
  <2>0. calls' = calls
    BY <1>4
  <2>1. t # u /\ status[t] = "WAITING" /\ waits'[t] = waits[t]
    BY <1>2, <1>5 DEF MutexInv, MutexTypeOK, ThreadsTypeOK
  <2>2. /\ calls[t] \in Mtx /\ calls[t] # NoMtx /\ waits[t] = {"MUTEX"}
        /\ locker_tid[calls[t]] \notin {NoThread, t}
        /\ \E j \in DOMAIN ids[calls[t]] : ids[calls[t]][j] = t
    BY <2>1 DEF MutexInv, MutexTypeOK, Sleeping
  <2>3. CASE calls[t] # m
    BY <1>4, <1>7, <2>0, <2>1, <2>2, <2>3 DEF MutexInv, MutexTypeOK
  <2>4. CASE calls[t] = m
    <3>1. PICK j \in DOMAIN ids[m] : ids[m][j] = t
      BY <2>2, <2>4
    <3>2. j > i /\ j \in Nat /\ j <= Len(ids[m])
      BY <1>2, <1>6, <2>1, <3>1, NoThreadAssumption
    <3>3. j - i \in DOMAIN ids'[m] /\ i + (j - i) = j
      BY <1>6, <1>8, <3>2
    <3>4. ids'[m][j - i] = t
      BY <1>8, <3>1, <3>3
    <3>5. locker_tid'[m] \notin {NoThread, t}
      BY <1>2, <1>4, <2>1, NoThreadAssumption DEF MutexInv, MutexTypeOK
    <3> QED
      BY <2>0, <2>1, <2>2, <2>4, <3>3, <3>4, <3>5
  <2> QED
    BY <2>3, <2>4
<1>14. NamedOnce' /\ ListedOnce'
  <2>1. \A x, y \in DOMAIN ids'[m] :
            ids'[m][x] # NoThread /\ ids'[m][x] = ids'[m][y] => x = y
    <3> SUFFICES ASSUME NEW x \in DOMAIN ids'[m], NEW y \in DOMAIN ids'[m],
                        ids'[m][x] # NoThread, ids'[m][x] = ids'[m][y]
                 PROVE  x = y
      OBVIOUS
    <3>1. i + x = i + y
      BY <1>8 DEF MutexInv, NamedOnce
    <3> QED
      BY <1>6, <1>8, <3>1
  <2>2. \A k \in Mtx \ {m} : \A x, y \in DOMAIN ids'[k] :
            ids'[k][x] # NoThread /\ ids'[k][x] = ids'[k][y] => x = y
    BY <1>7 DEF MutexInv, NamedOnce
  <2>3. NamedOnce'
    BY <2>1, <2>2 DEF NamedOnce
  <2> QED
    BY <1>4, <2>3 DEF MutexInv, ListedOnce
<1>15. EntriesWait'
  <2>1. ASSUME NEW k \in Mtx, NEW j \in DOMAIN ids[k], ids[k][j] # NoThread,
               ids[k][j] # u
        PROVE  status'[ids[k][j]] = "WAITING" /\ calls'[ids[k][j]] = k
    <3>1. ids[k] \in Seq(Thread \cup {NoThread})
      BY DEF MutexInv, MutexTypeOK
    <3>2. ids[k][j] \in Thread
      BY <2>1, <3>1
    <3>3. status[ids[k][j]] = "WAITING" /\ calls[ids[k][j]] = k
      BY <2>1 DEF MutexInv, EntriesWait
    <3> QED
      BY <1>4, <1>5, <2>1, <3>2, <3>3 DEF MutexInv, MutexTypeOK, ThreadsTypeOK
  <2>2. ASSUME NEW k \in Mtx \ {m}, NEW j \in DOMAIN ids[k], ids[k][j] # NoThread
        PROVE  ids[k][j] # u
    BY <1>2, <2>2 DEF MutexInv, EntriesWait
  <2>3. ASSUME NEW j \in DOMAIN ids[m], j > i, ids[m][j] # NoThread
        PROVE  ids[m][j] # u
    BY <1>2, <1>6, <2>3 DEF MutexInv, NamedOnce
  <2>4. \A j \in DOMAIN ids'[m] : i + j > i
    BY <1>6, <1>8
  <2>5. ASSUME NEW k \in Mtx \ {m}, NEW j \in DOMAIN ids'[k], ids'[k][j] # NoThread
        PROVE  status'[ids'[k][j]] = "WAITING" /\ calls'[ids'[k][j]] = k
    BY <1>7, <2>1, <2>2, <2>5
  <2>6. ASSUME NEW j \in DOMAIN ids'[m], ids'[m][j] # NoThread
        PROVE  status'[ids'[m][j]] = "WAITING" /\ calls'[ids'[m][j]] = m
    BY <1>8, <2>1, <2>3, <2>4, <2>6
  <2> QED
    BY <2>5, <2>6 DEF EntriesWait
<1>16. BufferBounded'
  <2> SUFFICES ASSUME NEW k \in Mtx PROVE Len(ids'[k]) <= Cardinality(Accounted(k)')
    BY DEF BufferBounded
  <2>1. CASE k = m
    <3>1. Accounted(m)' = Accounted(m) \ {u} /\ u \in Accounted(m)
      BY <1>2, <1>4, <1>5 DEF Accounted, MutexInv, MutexTypeOK, ThreadsTypeOK
    <3>2. Cardinality(Accounted(m)') = Cardinality(Accounted(m)) - 1
      BY <3>1, AccountedFinite, FS_RemoveElement
    <3>3. Len(ids[m]) <= Cardinality(Accounted(m)) /\ Len(ids[m]) \in Nat
      BY <1>6 DEF MutexInv, BufferBounded
    <3> QED
      BY <1>6, <1>8, <2>1, <3>2, <3>3, AccountedFinite
  <2>2. CASE k # m
    <3>1. Accounted(k) \subseteq Accounted(k)'
      BY <1>2, <1>4, <1>5, <2>2 DEF Accounted, MutexInv, MutexTypeOK, ThreadsTypeOK
    <3> QED
      BY <1>7, <2>2, <3>1, BoundedStays DEF MutexInv, BufferBounded, MutexTypeOK
  <2> QED
    BY <2>1, <2>2
<1> QED
  BY <1>9, <1>11, <1>12, <1>13, <1>14, <1>15, <1>16 DEF MutexInv

(* A kill of a thread that sleeps cancels its entry and leaves the others. *)
LEMMA CancelKept ==
    ASSUME ~Untidy, TableFits, NoRefill, MutexInv, NEW v \in Thread, thread_kill(v),
           status[v] = "WAITING"
    PROVE  MutexInv'
<1> DEFINE m == FirstNaming(v)
           i == EntryOf(m, v)
<1>1. /\ waits[v] = {"MUTEX"} /\ calls[v] \in Mtx /\ \A k \in Mtx : locker_tid[k] # v
      /\ v \notin doomed /\ ~Reuse
  BY DEF MutexInv, MutexTypeOK, Sleeping, thread_kill, Owns, RunnerKnown, NoRefill
<1>2. m \in Mtx /\ Names(m, v)
  BY <1>1, FirstNamed DEF thread_kill, MutexInv, MutexTypeOK
<1> HIDE DEF m
<1>3. /\ ids[m] \in Seq(Thread \cup {NoThread}) /\ Contains(ids[m], v)
      /\ locker_tid[m] # v
  BY <1>1, <1>2 DEF Names, MutexInv, MutexTypeOK
<1>4. i \in DOMAIN ids[m] /\ ids[m][i] = v
  BY <1>2, <1>3, EntryFound
<1>5. calls[v] = m
  BY <1>2, <1>4, NoThreadAssumption DEF MutexInv, EntriesWait
<1>6. /\ ids' = [ids EXCEPT ![m][i] = NoThread] /\ ret' = "none"
      /\ UNCHANGED <<locker_tid, mutexes_list, calls, timed, held>>
  BY <1>1, <1>3 DEF thread_kill, cancel_wait_on_mutex, CancelMark, m
<1>7. /\ doomed' = doomed \cup {v} /\ status' = [status EXCEPT ![v] = "DEAD"]
      /\ waits' = [waits EXCEPT ![v] = {}] /\ UNCHANGED <<current, wake, now>>
      /\ v # current
  BY <1>1 DEF thread_kill, Kill, MutexInv, MutexTypeOK, ThreadsTypeOK
<1> HIDE DEF i
<1>8. /\ ids'[m] \in Seq(Thread \cup {NoThread}) /\ Len(ids'[m]) = Len(ids[m])
      /\ DOMAIN ids'[m] = DOMAIN ids[m]
      /\ \A j \in DOMAIN ids[m] : ids'[m][j] = IF j = i THEN NoThread ELSE ids[m][j]
      /\ \A k \in Mtx \ {m} : ids'[k] = ids[k]
  <2>1. ids'[m] = [ids[m] EXCEPT ![i] = NoThread] /\ \A k \in Mtx \ {m} : ids'[k] = ids[k]
    BY <1>2, <1>6 DEF MutexInv, MutexTypeOK
  <2>2. i \in 1 .. Len(ids[m])
    BY <1>3, <1>4
  <2>3. /\ [ids[m] EXCEPT ![i] = NoThread] \in Seq(Thread \cup {NoThread})
        /\ Len([ids[m] EXCEPT ![i] = NoThread]) = Len(ids[m])
    BY <1>3, <2>2, ExceptSeq
  <2>4. \A j \in DOMAIN ids[m] :
            [ids[m] EXCEPT ![i] = NoThread][j] = IF j = i THEN NoThread ELSE ids[m][j]
    OBVIOUS
  <2> QED
    BY <1>3, <2>1, <2>3, <2>4
<1>9. MutexTypeOK' /\ timed' = {} /\ RunnerKnown'
  <2>1. ids' \in [Mtx -> Seq(Thread \cup {NoThread})]
    BY <1>2, <1>6, <1>8 DEF MutexInv, MutexTypeOK
  <2>2. ThreadsTypeOK'
    BY <1>7 DEF MutexInv, MutexTypeOK, ThreadsTypeOK, Status
  <2>3. RunnerKnown'
    BY <1>7 DEF MutexInv, MutexTypeOK, ThreadsTypeOK, RunnerKnown
  <2> QED
    BY <1>6, <2>1, <2>2, <2>3 DEF MutexInv, MutexTypeOK
<1>10. \A t \in Thread : Live(t)' <=> t # v /\ Live(t)
  BY <1>7 DEF Live, MutexInv, MutexTypeOK, ThreadsTypeOK
<1>11. Ownership' /\ InCall'
  <2>1. \A k \in Mtx : locker_tid[k] # NoThread =>
              locker_tid[k] \in Thread /\ locker_tid[k] # v
    BY <1>1 DEF MutexInv, MutexTypeOK
  <2>2. \A t \in Thread \ {v} : status'[t] = status[t]
    BY <1>7 DEF MutexInv, MutexTypeOK, ThreadsTypeOK
  <2>3. Ownership'
    BY <1>6, <1>10, <2>1 DEF MutexInv, Ownership, OwnerAsked
  <2>4. InCall'
    BY <1>6, <1>10, <2>2 DEF MutexInv, InCall
  <2> QED
    BY <2>3, <2>4
<1>12. Sleeping'
  <2> SUFFICES ASSUME NEW t \in Thread, status'[t] = "WAITING"
               PROVE  /\ calls'[t] # NoMtx /\ waits'[t] = {"MUTEX"}
                      /\ locker_tid'[calls'[t]] \notin {NoThread, t}
                      /\ \E j \in DOMAIN ids'[calls'[t]] : ids'[calls'[t]][j] = t
    BY DEF Sleeping
  <2>1. t # v /\ status[t] = "WAITING" /\ waits'[t] = waits[t] /\ calls' = calls
    BY <1>6, <1>7 DEF MutexInv, MutexTypeOK, ThreadsTypeOK
  <2>2. /\ calls[t] \in Mtx /\ calls[t] # NoMtx /\ waits[t] = {"MUTEX"}
        /\ locker_tid[calls[t]] \notin {NoThread, t}
    BY <2>1 DEF MutexInv, MutexTypeOK, Sleeping
  <2>3. PICK j \in DOMAIN ids[calls[t]] : ids[calls[t]][j] = t
    BY <2>1 DEF MutexInv, Sleeping
  <2>4. j \in DOMAIN ids'[calls[t]] /\ ids'[calls[t]][j] = t
    BY <1>4, <1>8, <2>1, <2>2, <2>3
  <2> QED
    BY <1>6, <2>1, <2>2, <2>4
<1>13. EntriesWait'
  <2> SUFFICES ASSUME NEW k \in Mtx, NEW j \in DOMAIN ids'[k], ids'[k][j] # NoThread
               PROVE  status'[ids'[k][j]] = "WAITING" /\ calls'[ids'[k][j]] = k
    BY DEF EntriesWait
  <2>1. j \in DOMAIN ids[k] /\ ids'[k][j] = ids[k][j] /\ ~(k = m /\ j = i)
    BY <1>8
  <2>2. status[ids[k][j]] = "WAITING" /\ calls[ids[k][j]] = k
    BY <2>1 DEF MutexInv, EntriesWait
  <2>3. ids[k][j] # v
    BY <1>2, <1>4, <1>5, <2>1, <2>2, NoThreadAssumption DEF MutexInv, NamedOnce
  <2> QED
    BY <1>6, <1>7, <2>1, <2>2, <2>3 DEF MutexInv, MutexTypeOK, ThreadsTypeOK
<1>14. NamedOnce' /\ ListedOnce'
  <2>1. \A k \in Mtx : \A x \in DOMAIN ids'[k] :
            ids'[k][x] # NoThread => x \in DOMAIN ids[k] /\ ids'[k][x] = ids[k][x]
    BY <1>8
  <2>2. \A k \in Mtx : DOMAIN ids'[k] = DOMAIN ids[k]
    BY <1>8
  <2>3. NamedOnce'
    BY <2>1, <2>2 DEF MutexInv, NamedOnce
  <2> QED
    BY <1>6, <2>3 DEF MutexInv, ListedOnce
<1>15. BufferBounded'
  <2> SUFFICES ASSUME NEW k \in Mtx PROVE Len(ids'[k]) <= Cardinality(Accounted(k)')
    BY DEF BufferBounded
  <2>1. Accounted(k) \subseteq Accounted(k)'
    BY <1>1, <1>6, <1>7 DEF Accounted, MutexInv, MutexTypeOK, ThreadsTypeOK
  <2>2. IsFiniteSet(Accounted(k)') /\ Cardinality(Accounted(k)') \in Nat
    BY FS_Subset, FS_CardinalityType DEF TableFits, Accounted
  <2>3. Cardinality(Accounted(k)) <= Cardinality(Accounted(k)')
    BY <2>1, <2>2, FS_Subset
  <2>4. Len(ids'[k]) = Len(ids[k]) /\ Len(ids[k]) \in Nat
    <3>1. ids[k] \in Seq(Thread \cup {NoThread})
      BY DEF MutexInv, MutexTypeOK
    <3> QED
      BY <1>8, <3>1
  <2>5. Len(ids[k]) <= Cardinality(Accounted(k))
    BY DEF MutexInv, BufferBounded
  <2> QED
    BY <2>2, <2>3, <2>4, <2>5, AccountedFinite
<1> QED
  BY <1>9, <1>11, <1>12, <1>13, <1>14, <1>15 DEF MutexInv

(* Steps that touch neither the mutexes nor the calls nor the threads that *)
(* sleep, and that end or mark only threads that own nothing.              *)
LEMMA QuietKept ==
    ASSUME TableFits, MutexInv, ThreadsTypeOK', RunnerKnown', NEW e \in Thread,
           ret' = "none", UNCHANGED <<mutexes_list, locker_tid, ids, timed>>,
           \A t \in Thread \ {e} :
               /\ calls'[t] = calls[t] /\ held'[t] = held[t]
               /\ status'[t] = status[t]
               /\ (t \in doomed' <=> t \in doomed)
               /\ waits'[t] = waits[t],
           calls' \in [Thread -> Mtx \cup {NoMtx}], held' \in [Thread -> SUBSET Mtx],
           status[e] # "WAITING" /\ status'[e] # "WAITING",
           Live(e)' => \/ Live(e) /\ calls'[e] = calls[e] /\ held'[e] = held[e]
                       \/ calls'[e] = NoMtx /\ held'[e] = {} /\ ~Live(e),
           Live(e) /\ ~Live(e)' => Owns(e) = {},
           status[e] \in {"DEAD", "NONE"} /\ ~Reuse => status'[e] \in {"DEAD", "NONE"}
    PROVE  MutexInv'
<1>1. \A t \in Thread \ {e} :
          /\ Live(t)' <=> Live(t)
          /\ status'[t] = "WAITING" <=> status[t] = "WAITING"
          /\ status'[t] \in {"DEAD", "NONE"} <=> status[t] \in {"DEAD", "NONE"}
  BY DEF Live
<1>2. MutexTypeOK' /\ timed' = {}
  BY DEF MutexInv, MutexTypeOK
<1>3. \A k \in Mtx : locker_tid[k] # NoThread => locker_tid[k] \in Thread
  BY DEF MutexInv, MutexTypeOK
<1>4. \A k \in Mtx : locker_tid[k] = e => Live(e) /\ Live(e)'
  BY NoThreadAssumption DEF MutexInv, Ownership, Owns
<1>5. Ownership'
  <2>1. \A k \in Mtx : locker_tid[k] # NoThread => Live(locker_tid[k])
    BY DEF MutexInv, Ownership
  <2>2. \A k \in Mtx : locker_tid'[k] # NoThread => Live(locker_tid[k])'
    <3> SUFFICES ASSUME NEW k \in Mtx, NEW o \in Thread, locker_tid[k] = o
                 PROVE  Live(o)'
      BY <1>3
    <3> QED
      BY <1>1, <1>4, <2>1, NoThreadAssumption
  <2>3. \A k \in Mtx, t \in Thread : Live(t)' /\ k \in held'[t] => locker_tid'[k] = t
    BY <1>1 DEF MutexInv, Ownership
  <2>4. \A k \in Mtx, t \in Thread :
            locker_tid'[k] = t /\ Live(t)' => k \in held'[t] \/ calls'[t] = k
    BY <1>1, <1>4 DEF MutexInv, Ownership, OwnerAsked
  <2> QED
    BY <2>2, <2>3, <2>4 DEF Ownership, OwnerAsked
<1>6. InCall'
  BY <1>1 DEF MutexInv, InCall
<1>7. Sleeping'
  <2> SUFFICES ASSUME NEW t \in Thread, status'[t] = "WAITING"
               PROVE  /\ calls'[t] # NoMtx /\ waits'[t] = {"MUTEX"}
                      /\ locker_tid'[calls'[t]] \notin {NoThread, t}
                      /\ \E j \in DOMAIN ids'[calls'[t]] : ids'[calls'[t]][j] = t
    BY DEF Sleeping
  <2>1. t # e /\ status[t] = "WAITING" /\ waits'[t] = waits[t] /\ calls'[t] = calls[t]
    BY <1>1
  <2> QED
    BY <2>1 DEF MutexInv, Sleeping
<1>8. EntriesWait'
  <2> SUFFICES ASSUME NEW k \in Mtx, NEW j \in DOMAIN ids[k], ids[k][j] # NoThread
               PROVE  status'[ids[k][j]] = "WAITING" /\ calls'[ids[k][j]] = k
    BY DEF EntriesWait
  <2>1. ids[k] \in Seq(Thread \cup {NoThread})
    BY DEF MutexInv, MutexTypeOK
  <2>2. ids[k][j] \in Thread /\ status[ids[k][j]] = "WAITING" /\ calls[ids[k][j]] = k
    BY <2>1 DEF MutexInv, EntriesWait
  <2> QED
    BY <1>1, <2>2
<1>9. NamedOnce' /\ ListedOnce'
  BY DEF MutexInv, NamedOnce, ListedOnce
<1>10. BufferBounded'
  <2> SUFFICES ASSUME NEW k \in Mtx PROVE Len(ids'[k]) <= Cardinality(Accounted(k)')
    BY DEF BufferBounded
  <2>1. Accounted(k) \subseteq Accounted(k)'
    BY <1>1 DEF Accounted
  <2> QED
    BY <2>1, BoundedStays DEF MutexInv, BufferBounded, MutexTypeOK
<1> QED
  BY <1>2, <1>5, <1>6, <1>7, <1>8, <1>9, <1>10 DEF MutexInv

(* Steps that leave the threads and the mutexes alone.                     *)
LEMMA IdleKept ==
    ASSUME MutexInv, UNCHANGED <<current, status, waits, wake, doomed>>, now' \in Nat,
           UNCHANGED <<mutexes_list, locker_tid, ids, calls, timed, held>>,
           ret' \in {"none", ret}
    PROVE  MutexInv'
<1>1. MutexTypeOK' /\ timed' = {} /\ RunnerKnown'
  BY DEF MutexInv, MutexTypeOK, ThreadsTypeOK, RunnerKnown
<1>2. Ownership' /\ InCall' /\ Sleeping'
  BY DEF MutexInv, Ownership, OwnerAsked, InCall, Sleeping, Live
<1>3. EntriesWait' /\ NamedOnce' /\ ListedOnce'
  BY DEF MutexInv, EntriesWait, NamedOnce, ListedOnce
<1>4. BufferBounded'
  BY DEF MutexInv, BufferBounded, Accounted
<1> QED
  BY <1>1, <1>2, <1>3, <1>4 DEF MutexInv

(* Every step keeps the invariant; one step of the proof per action.       *)
LEMMA NextMutexInv ==
    ASSUME ~Untidy, Untimed, TableFits, NoRefill
    PROVE  MutexInv /\ [Next]_vars => MutexInv'
<1> SUFFICES ASSUME MutexInv, [Next]_vars PROVE MutexInv'
  OBVIOUS
<1> USE DEF InApp
<1>0. ThreadsTypeOK /\ RunnerKnown /\ MutexTypeOK
  BY DEF MutexInv, MutexTypeOK
<1>1. CASE \E m \in Mtx : thread_create_mutex(m) \/ thread_destroy_mutex(m)
  BY <1>1, ListKept
<1>2. CASE \E m \in Mtx : LockFree(m) \/ LockRefused(m)
  BY <1>2, LockKept
<1>3. CASE \E m \in Mtx : thread_unlock_mutex(m)
  BY <1>3, ReleaseKept, HandOverKept
<1>4. CASE \E m \in Mtx : \E msecs \in Timeouts : LockWaits(m, msecs)
  BY <1>4, WaitKept
<1>5. CASE LockReturns
  BY <1>5, ReturnKept
<1>6. ASSUME NEW v \in Thread, thread_kill(v) PROVE MutexInv'
  <2>1. CASE status[v] = "WAITING"
    BY <1>6, <2>1, CancelKept
  <2>2. CASE status[v] # "WAITING"
    <3>1. /\ status[v] = "READY" /\ v # current /\ doomed' = doomed \cup {v}
          /\ status' = status /\ waits' = waits /\ UNCHANGED <<current, wake, now>>
          /\ UNCHANGED <<mutexes_list, locker_tid, ids, calls, timed, held>>
          /\ ret' = "none" /\ Owns(v) = {}
      BY <1>0, <1>6, <2>2 DEF thread_kill, Kill, ThreadsTypeOK
    <3>2. ThreadsTypeOK' /\ RunnerKnown'
      BY <1>0, <3>1 DEF ThreadsTypeOK, RunnerKnown
    <3>3. calls' \in [Thread -> Mtx \cup {NoMtx}] /\ held' \in [Thread -> SUBSET Mtx]
      BY <1>0, <3>1 DEF MutexTypeOK
    <3>4. ~Live(v)'
      BY <3>1 DEF Live
    <3> QED
      BY <3>1, <3>2, <3>3, <3>4, QuietKept
  <2> QED
    BY <2>1, <2>2
<1>7. ASSUME NEW v \in Thread, thread_create(v) PROVE MutexInv'
  <2>1. /\ status[v] = "NONE" /\ status' = [status EXCEPT ![v] = "READY"]
        /\ calls' = [calls EXCEPT ![v] = NoMtx] /\ held' = [held EXCEPT ![v] = {}]
        /\ timed' = timed /\ ret' = "none" /\ Reuse
        /\ UNCHANGED <<current, waits, wake, doomed, now, mutexes_list, locker_tid, ids>>
    BY <1>7 DEF thread_create, Create, MutexInv
  <2>2. ThreadsTypeOK' /\ RunnerKnown'
    BY <1>0, <2>1 DEF ThreadsTypeOK, RunnerKnown, Status
  <2>3. calls' \in [Thread -> Mtx \cup {NoMtx}] /\ held' \in [Thread -> SUBSET Mtx]
    BY <1>0, <2>1 DEF MutexTypeOK
  <2>4. ~Live(v) /\ calls'[v] = NoMtx /\ held'[v] = {} /\ status'[v] = "READY"
    BY <1>0, <2>1 DEF Live, MutexTypeOK, ThreadsTypeOK
  <2>5. \A t \in Thread \ {v} :
            status'[t] = status[t] /\ calls'[t] = calls[t] /\ held'[t] = held[t]
    BY <1>0, <2>1 DEF MutexTypeOK, ThreadsTypeOK
  <2> QED
    BY <2>1, <2>2, <2>3, <2>4, <2>5, QuietKept
<1>8. CASE thread_suspend
  <2>1. PICK c \in Thread :
        /\ c = current /\ status[c] = "RUNNING" /\ ret' = "none"
        /\ status' = [status EXCEPT ![c] = "READY"] /\ current' = NoThread
        /\ UNCHANGED <<waits, wake, doomed, now>>
        /\ UNCHANGED <<mutexes_list, locker_tid, ids, calls, timed, held>>
    BY <1>0, <1>8 DEF thread_suspend, Yield, ThreadsTypeOK, RunnerKnown
  <2>2. ThreadsTypeOK' /\ RunnerKnown'
    BY <1>0, <2>1, NoThreadAssumption DEF ThreadsTypeOK, RunnerKnown, Status
  <2>3. /\ status'[c] = "READY" /\ Live(c)' /\ Live(c)
        /\ \A t \in Thread \ {c} : status'[t] = status[t]
    BY <1>0, <2>1 DEF ThreadsTypeOK, Live, RunnerKnown
  <2>4. calls' \in [Thread -> Mtx \cup {NoMtx}] /\ held' \in [Thread -> SUBSET Mtx]
    BY <1>0, <2>1 DEF MutexTypeOK
  <2>5. /\ Live(c) /\ calls'[c] = calls[c] /\ held'[c] = held[c]
        /\ status[c] # "WAITING" /\ status'[c] # "WAITING"
        /\ status[c] \notin {"DEAD", "NONE"}
    BY <2>1, <2>3
  <2>6. \A t \in Thread \ {c} :
            /\ calls'[t] = calls[t] /\ held'[t] = held[t]
            /\ status'[t] = status[t]
            /\ (t \in doomed' <=> t \in doomed) /\ waits'[t] = waits[t]
    BY <2>1, <2>3
  <2> QED
    BY <2>1, <2>2, <2>3, <2>4, <2>5, <2>6, QuietKept
<1>9. CASE thread_terminate
  <2>1. PICK c \in Thread :
        /\ c = current /\ status[c] = "RUNNING" /\ ret' = "none"
        /\ status' = [status EXCEPT ![c] = "DEAD"] /\ current' = NoThread
        /\ UNCHANGED <<waits, wake, doomed, now>> /\ Owns(c) = {}
        /\ UNCHANGED <<mutexes_list, locker_tid, ids, calls, timed, held>>
    BY <1>0, <1>9 DEF thread_terminate, Exit, ThreadsTypeOK, RunnerKnown
  <2>2. ThreadsTypeOK' /\ RunnerKnown'
    BY <1>0, <2>1, NoThreadAssumption DEF ThreadsTypeOK, RunnerKnown, Status
  <2>3. /\ status'[c] = "DEAD" /\ ~Live(c)'
        /\ \A t \in Thread \ {c} : status'[t] = status[t]
    BY <1>0, <2>1 DEF ThreadsTypeOK, Live, RunnerKnown
  <2>4. calls' \in [Thread -> Mtx \cup {NoMtx}] /\ held' \in [Thread -> SUBSET Mtx]
    BY <1>0, <2>1 DEF MutexTypeOK
  <2> QED
    BY <2>1, <2>2, <2>3, <2>4, QuietKept
<1>10. CASE Scheduling
  <2>0. /\ ret' = "none"
        /\ UNCHANGED <<mutexes_list, locker_tid, ids, calls, timed, held>>
        /\ calls' \in [Thread -> Mtx \cup {NoMtx}] /\ held' \in [Thread -> SUBSET Mtx]
    BY <1>0, <1>10 DEF Scheduling, MutexTypeOK
  <2>1. CASE Tick
    <3>1. now' \in Nat
      BY <1>0, <2>1, BoundAssumption DEF Tick, ThreadsTypeOK
    <3> QED
      BY <2>0, <2>1, <3>1, IdleKept DEF Tick
  <2>2. ASSUME NEW v \in Thread, Background(v) PROVE MutexInv'
    <3>1. ~Timeout(v)
      BY DEF MutexInv, Sleeping, Timeout
    <3>2. CASE Bury(v)
      <4>1. /\ status[v] = "READY" /\ v \in doomed
            /\ status' = [status EXCEPT ![v] = "DEAD"]
            /\ UNCHANGED <<current, waits, wake, doomed, now>>
        BY <1>0, <3>2 DEF Bury, RunnerKnown
      <4>2. ThreadsTypeOK' /\ RunnerKnown'
        BY <1>0, <4>1 DEF ThreadsTypeOK, RunnerKnown, Status
      <4>3. /\ status'[v] = "DEAD" /\ ~Live(v) /\ ~Live(v)'
            /\ \A t \in Thread \ {v} : status'[t] = status[t]
        BY <1>0, <4>1 DEF ThreadsTypeOK, Live
      <4> QED
        BY <2>0, <4>1, <4>2, <4>3, QuietKept
    <3>3. CASE Reap(v)
      <4>1. /\ status[v] = "DEAD" /\ status' = [status EXCEPT ![v] = "NONE"]
            /\ waits' = [waits EXCEPT ![v] = {}] /\ wake' = [wake EXCEPT ![v] = 0]
            /\ doomed' = doomed \ {v} /\ UNCHANGED <<current, now>>
        BY <3>3 DEF Reap
      <4>2. ThreadsTypeOK' /\ RunnerKnown'
        BY <1>0, <4>1 DEF ThreadsTypeOK, RunnerKnown, Status
      <4>3. /\ status'[v] = "NONE" /\ ~Live(v) /\ ~Live(v)'
            /\ \A t \in Thread \ {v} :
                status'[t] = status[t] /\ waits'[t] = waits[t]
        BY <1>0, <4>1 DEF ThreadsTypeOK, Live
      <4> QED
        BY <2>0, <4>1, <4>2, <4>3, QuietKept
    <3>4. CASE Dispatch(v)
      <4>1. /\ status[v] = "READY" /\ v \notin doomed /\ current = NoThread
            /\ status' = [status EXCEPT ![v] = "RUNNING"] /\ current' = v
            /\ UNCHANGED <<waits, wake, doomed, now>>
        BY <3>4 DEF Dispatch
      <4>2. ThreadsTypeOK' /\ RunnerKnown'
        BY <1>0, <4>1, NoThreadAssumption DEF ThreadsTypeOK, RunnerKnown, Status
      <4>3. /\ status'[v] = "RUNNING" /\ Live(v)' /\ Live(v)
            /\ \A t \in Thread \ {v} : status'[t] = status[t]
        BY <1>0, <4>1 DEF ThreadsTypeOK, Live
      <4>4. /\ Live(v) /\ calls'[v] = calls[v] /\ held'[v] = held[v]
            /\ status[v] # "WAITING" /\ status'[v] # "WAITING"
            /\ status[v] \notin {"DEAD", "NONE"}
        BY <2>0, <4>1, <4>3
      <4>5. \A t \in Thread \ {v} :
                /\ calls'[t] = calls[t] /\ held'[t] = held[t]
                /\ status'[t] = status[t]
                /\ (t \in doomed' <=> t \in doomed) /\ waits'[t] = waits[t]
        BY <2>0, <4>1, <4>3
      <4> QED
        BY <2>0, <4>2, <4>3, <4>4, <4>5, QuietKept
    <3> QED
      BY <2>2, <3>1, <3>2, <3>3, <3>4 DEF Background
  <2> QED
    BY <1>10, <2>1, <2>2 DEF Scheduling
<1>11. CASE UNCHANGED vars
  BY <1>0, <1>11, IdleKept DEF vars, threadsVars, mutexVars, ThreadsTypeOK
<1> QED
  BY <1>1, <1>2, <1>3, <1>4, <1>5, <1>6, <1>7, <1>8, <1>9, <1>10, <1>11 DEF Next

(***************************************************************************)
(* The theorems.                                                           *)
(***************************************************************************)

(* The invariant says what the runs check.                                 *)
LEMMA InvImpliesProperties ==
    MutexInv => MutualExclusion /\ WaitersKept /\ OwnerAsked
<1> SUFFICES ASSUME MutexInv PROVE MutualExclusion /\ WaitersKept /\ OwnerAsked
  OBVIOUS
<1>1. MutualExclusion
  BY DEF MutexInv, Ownership, MutualExclusion
<1>2. OwnerAwake
  BY DEF MutexInv, Sleeping, OwnerAwake
<1>3. WaiterQueued
  <2> SUFFICES ASSUME NEW t \in Thread, status[t] = "WAITING"
               PROVE  /\ locker_tid[calls[t]] # NoThread
                      /\ Cardinality({j \in DOMAIN ids[calls[t]] : ids[calls[t]][j] = t}) = 1
    BY DEF WaiterQueued
  <2>1. /\ locker_tid[calls[t]] # NoThread /\ calls[t] \in Mtx
        /\ \E j \in DOMAIN ids[calls[t]] : ids[calls[t]][j] = t
    BY DEF MutexInv, Sleeping, MutexTypeOK
  <2>2. PICK j \in DOMAIN ids[calls[t]] : ids[calls[t]][j] = t
    BY <2>1
  <2>3. {i \in DOMAIN ids[calls[t]] : ids[calls[t]][i] = t} = {j}
    BY <2>1, <2>2, NoThreadAssumption DEF MutexInv, NamedOnce
  <2> QED
    BY <2>1, <2>3, FS_Singleton
<1> QED
  BY <1>1, <1>2, <1>3 DEF MutexInv, WaitersKept, Ownership

(* No two living threads hold one mutex, whatever the number of threads    *)
(* and mutexes and however often threads are killed or slots used again.   *)
THEOREM MutexesExclude ==
    ASSUME ~Untidy, Untimed, TableFits, NoRefill
    PROVE  Spec => []MutualExclusion
<1>1. Init => MutexInv
  BY InitMutexInv
<1>2. MutexInv /\ [Next]_vars => MutexInv'
  BY NextMutexInv
<1>3. MutexInv => MutualExclusion
  BY InvImpliesProperties
<1> QED
  BY <1>1, <1>2, <1>3, PTL DEF Spec

(* The owner unlock_mutex chooses is awake, a thread that waits has one    *)
(* entry in the buffer of its mutex, and every entry names a thread that   *)
(* waits for it.                                                           *)
THEOREM MutexWaitersAreKept ==
    ASSUME ~Untidy, Untimed, TableFits, NoRefill
    PROVE  Spec => []WaitersKept
<1>1. Init => MutexInv
  BY InitMutexInv
<1>2. MutexInv /\ [Next]_vars => MutexInv'
  BY NextMutexInv
<1>3. MutexInv => WaitersKept
  BY InvImpliesProperties
<1> QED
  BY <1>1, <1>2, <1>3, PTL DEF Spec

(* Without timeouts, an owner is always a thread that asked for the mutex. *)
THEOREM OwnersAsked ==
    ASSUME ~Untidy, Untimed, TableFits, NoRefill
    PROVE  Spec => []OwnerAsked
<1>1. Init => MutexInv
  BY InitMutexInv
<1>2. MutexInv /\ [Next]_vars => MutexInv'
  BY NextMutexInv
<1>3. MutexInv => OwnerAsked
  BY InvImpliesProperties
<1> QED
  BY <1>1, <1>2, <1>3, PTL DEF Spec

=============================================================================
