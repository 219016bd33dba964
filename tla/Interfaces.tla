----------------------------- MODULE Interfaces -----------------------------
(***************************************************************************)
(* The network interfaces (kernel/net_interfaces.c), held in a tree sorted *)
(* by name and in one sorted by index, and the loopback driver             *)
(* (drivers/lo/local_loop.c), a buffer of words that one thread writes and *)
(* another reads.  An interface name is a number, its place in the order   *)
(* of the names; the name is "<ifname>0" whatever the unit.                *)
(***************************************************************************)
EXTENDS Integers, Sequences, FiniteSets

CONSTANTS
    IfNames,        \* the names drivers give to their interfaces
    MaxInterfaces,  \* bound on the calls of net_interface_create
    LoWords,        \* words of lo_buffer
    LoSizes,        \* sizes of the packets sent, up to the MTU
    RxSizes,        \* sizes of the packets the reader brings
    MaxPackets      \* bound on the packets sent

ASSUME InterfacesAssumption == IfNames \subseteq Nat \ {0} /\ LoWords \in Nat /\ LoSizes \subseteq Nat

VARIABLES
    interface_tree, interface_tree_if,      \* by name, by index
    ifindex,        \* the index of each interface
    ifindex_counter,
    up,             \* the interfaces started, in order
    lo_buffer, head, tail,      \* the loopback driver; head and tail count words
    rx,             \* the call of lo_rx: [step, room]
    sent, received, \* the packets sent and received, in order
    overrun         \* whether a packet was larger than the room the reader brought

ifVars == <<interface_tree, interface_tree_if, ifindex, ifindex_counter, up>>
loVars == <<lo_buffer, head, tail, rx, sent, received, overrun>>
interfaceVars == <<ifVars, loVars>>

T == INSTANCE RedBlackTrees WITH Keys <- IfNames, Loads <- {}, MaxTreeOps <- 0, tree <- interface_tree,
        topped <- {}, members <- {}, refused <- FALSE, treeOps <- 0

(***************************************************************************)
(* Interfaces.                                                             *)
(***************************************************************************)
Holds(t, k) == T!rbtree_search(t, k) = k /\ t # T!Nil

(* A name that is taken is refused by the first tree, after its index was  *)
(* drawn; a unit init_fn refuses and a pool that is empty change nothing.  *)
RefusedNever(name) == FALSE
Refused(name) == Holds(interface_tree, name)
net_interface_create ==
    /\ ifindex_counter < MaxInterfaces /\ up = <<>>
    /\ \E name \in IfNames :
         /\ ifindex_counter' = ifindex_counter + 1
         /\ interface_tree' = T!rbtree_insert(interface_tree, name, FALSE)
         /\ IF Refused(name) THEN UNCHANGED <<interface_tree_if, ifindex>>
            ELSE /\ interface_tree_if' = T!rbtree_insert(interface_tree_if, ifindex_counter + 1, FALSE)
                 /\ ifindex' = [ifindex EXCEPT ![name] = ifindex_counter]
    /\ UNCHANGED <<up, loVars>>

net_interface_lookup_name(name) == IF Holds(interface_tree, name) THEN name ELSE 0

(* The tree sorted by name is searched with the order of the indexes.      *)
RECURSIVE SearchByIndex(_, _)
SearchByIndex(t, i) ==
    CASE t = T!Nil -> 0
      [] t # T!Nil /\ ifindex[t.k] = i -> t.k
      [] OTHER -> SearchByIndex(IF ifindex[t.k] > i THEN t.l ELSE t.r, i)
net_interface_lookup_index(i) == SearchByIndex(interface_tree, i)

net_interface_first == T!rbtree_first(interface_tree)
NextByIndex(name) ==
    LET later == {n \in IfNames : ifindex[n] > ifindex[name]}
    IN  IF later = {} THEN 0 ELSE CHOOSE n \in later : \A m \in later : ifindex[n] <= ifindex[m]
net_interface_next(name) == T!rbtree_next(interface_tree, name)

start_net_interfaces_lib ==
    /\ ifindex_counter > 0
    /\ LET n == IF up = <<>> THEN net_interface_first ELSE net_interface_next(up[Len(up)])
       IN  n # 0 /\ up' = Append(up, n)
    /\ UNCHANGED <<interface_tree, interface_tree_if, ifindex, ifindex_counter, loVars>>

(***************************************************************************)
(* The loopback.  A packet takes a word for its size and the words of its  *)
(* bytes; sizeof(lo_buffer), bytes, is compared with words.                *)
(***************************************************************************)
WordsOf(size) == (size + 8) \div 4
LoAt(i) == IF i \in DOMAIN lo_buffer THEN lo_buffer[i] ELSE [id |-> 0, size |-> 0]

lo_tx ==
    /\ Len(sent) < MaxPackets
    /\ \E size \in LoSizes :
         IF 4 * LoWords < tail + WordsOf(size) THEN UNCHANGED <<lo_buffer, tail, sent>>
         ELSE LET p == [id |-> Len(sent) + 1, size |-> size]
              IN  /\ lo_buffer' = [i \in DOMAIN lo_buffer \cup (tail .. tail + WordsOf(size) - 1) |->
                                     IF i >= tail /\ i < tail + WordsOf(size) THEN p ELSE lo_buffer[i]]
                  /\ tail' = tail + WordsOf(size)
                  /\ sent' = Append(sent, p)
    /\ UNCHANGED <<head, rx, received, overrun, ifVars>>

(* The size at head is checked before the reader waits.                    *)
lo_rx_checks ==
    /\ rx.step = "idle"
    /\ \E room \in RxSizes :
         /\ room >= LoAt(head).size
         /\ rx' = [step |-> "waiting", room |-> room]
    /\ UNCHANGED <<lo_buffer, head, tail, sent, received, overrun, ifVars>>

EmptiesHead(h, t) == IF h = t THEN [head |-> 0, tail |-> t] ELSE [head |-> h, tail |-> t]
Empties(h, t) == IF h = t THEN [head |-> 0, tail |-> 0] ELSE [head |-> h, tail |-> t]
lo_rx_copies ==
    /\ rx.step = "waiting" /\ tail # head
    /\ LET p == LoAt(head)
           e == Empties(head + WordsOf(p.size), tail)
       IN  /\ received' = Append(received, p)
           /\ overrun' = (overrun \/ rx.room < p.size)
           /\ head' = e.head /\ tail' = e.tail
    /\ rx' = [rx EXCEPT !.step = "idle"]
    /\ UNCHANGED <<lo_buffer, sent, ifVars>>

(* The sizes of the packets waiting.                                       *)
RECURSIVE lo_peak(_, _)
lo_peak(h, items) ==
    IF items = 0 \/ h = tail THEN <<>> ELSE <<LoAt(h).size>> \o lo_peak(h + WordsOf(LoAt(h).size), items - 1)

InterfacesInit ==
    /\ interface_tree = T!Nil /\ interface_tree_if = T!Nil
    /\ ifindex = [n \in IfNames |-> -1] /\ ifindex_counter = 0 /\ up = <<>>
    /\ lo_buffer = [i \in 0 .. LoWords - 1 |-> [id |-> 0, size |-> 0]] /\ head = 0 /\ tail = 0
    /\ rx = [step |-> "idle", room |-> 0]
    /\ sent = <<>> /\ received = <<>> /\ overrun = FALSE

InterfacesNext == net_interface_create \/ start_net_interfaces_lib \/ lo_tx \/ lo_rx_checks \/ lo_rx_copies

(***************************************************************************)
(* Properties                                                              *)
(***************************************************************************)
Named == {n \in IfNames : ifindex[n] # -1}

(* Both trees hold the same interfaces, also after a name was refused, and *)
(* an interface that was created is found by its name.                     *)
TreesAgree ==
    /\ \A n \in IfNames : (net_interface_lookup_name(n) = n) <=> n \in Named
    /\ \A i \in 0 .. ifindex_counter : Holds(interface_tree_if, i + 1) <=> \E n \in Named : ifindex[n] = i
    /\ \A m, n \in Named : ifindex[m] = ifindex[n] => m = n

(* Every interface is started, each once, in the order of the names.       *)
StartedOnce ==
    /\ \A i, j \in DOMAIN up : i < j => up[i] < up[j]
    /\ (up # <<>> /\ net_interface_next(up[Len(up)]) = 0) => {up[i] : i \in DOMAIN up} = Named

(* What the loopback returns is what was sent, in order and whole, and     *)
(* what waits is what it says waits.                                       *)
LoopInOrder ==
    /\ received = SubSeq(sent, 1, Len(received))
    /\ LET left == Len(sent) - Len(received)
       IN  lo_peak(head, left + 1) = [i \in 1 .. left |-> sent[Len(received) + i].size]

(* The loopback writes inside its buffer.                                  *)
LoopInside == DOMAIN lo_buffer = 0 .. LoWords - 1

(* A packet that is received has room for what is copied into it.          *)
LoopFits == ~overrun

(* An interface is found by its index.                                     *)
IndexFound == \A n \in Named : net_interface_lookup_index(ifindex[n]) = n
=============================================================================
