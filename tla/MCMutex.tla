------------------------------- MODULE MCMutex -------------------------------
(***************************************************************************)
(* Model-checking instances of Mutex: up to four threads and two mutexes,  *)
(* in one of three scenarios.  In the first, threads kill one another,     *)
(* also those asleep for a mutex, and a dead thread's slot stays empty; in *)
(* the second, kills spare the threads asleep for a mutex; in the third,   *)
(* threads only end by themselves and their slots are used again.          *)
(***************************************************************************)
EXTENDS Mutex, TLC

CONSTANTS t1, t2, t3, t4, m1, m2

MCThread == {t1, t2, t3, t4}
MCThree  == {t1, t2, t3}
MCMtx    == {m1, m2}

(* Threads and mutexes are interchangeable: neither module orders them.    *)
MCSymmetry == Permutations(MCThread) \cup Permutations(MCMtx)
MCThreeSymmetry == Permutations(MCThree) \cup Permutations(MCMtx)

VARIABLE scenario

Empty == {t \in Thread : status[t] = "NONE"}

(* Threads asleep for a mutex that this step kills.                        *)
WaitersKilled == {t \in doomed' \ doomed : status[t] = "WAITING"}

MCInit == Init /\ scenario \in {"kills", "spares", "reuse"}
MCNext ==
    /\ Next
    /\ scenario \in {"kills", "spares"} => Empty \subseteq Empty'
    /\ scenario = "spares" => WaitersKilled = {}
    /\ scenario = "reuse" => doomed' = doomed
    /\ UNCHANGED scenario
MCSpec == MCInit /\ [][MCNext]_<<vars, scenario>>
MCFairSpec == MCSpec /\ Fairness

(* diegos.txi: "the threads waiting for a lock will be run one at a time,  *)
(* until no waiting threads are left".  Every waiting lock call returns,   *)
(* whichever threads end or are killed in the meantime, unless its own     *)
(* thread is killed or two threads wait for each other.  A thread that is  *)
(* killed while it sleeps for a mutex is linked in two queues of the       *)
(* scheduler and cuts off the sleepers behind it: where that happens,      *)
(* nothing is claimed.                                                     *)
LockReturned ==
    \A t \in Thread :
        scenario # "kills" /\ calls[t] # NoMtx ~> (calls[t] = NoMtx \/ ~Live(t) \/ Crossed)
=============================================================================
