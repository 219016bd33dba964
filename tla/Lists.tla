-------------------------------- MODULE Lists ---------------------------------
(***************************************************************************)
(* Intrusive lists, queues and stacks: libs/list.c, queue.c and stack.c.   *)
(*                                                                         *)
(* A node carries its own links, so the links of all the nodes are one     *)
(* record k = [next, prev] of functions on Node, whatever list a node is   *)
(* in; a list is [head, tail, counter].  An operation returns the list and *)
(* the links it leaves, as [l, k].  None of them looks whether the node it *)
(* is given is in the list: a node that is not, or that is in another one, *)
(* does here to the links and the counter what it does in the code.        *)
(*                                                                         *)
(* Definitions that come just before a helper with the same parameters are *)
(* mistakes the code could have made; no specification uses them.          *)
(***************************************************************************)
EXTENDS Integers, Sequences

CONSTANTS
    Node,   \* nodes
    Null    \* the null pointer, not a node

list_init == [head |-> Null, tail |-> Null, counter |-> 0]
NoLinks   == [next |-> [n \in Node |-> Null], prev |-> [n \in Node |-> Null]]

Set(f, n, v) == IF n = Null THEN f ELSE [f EXCEPT ![n] = v]

(***************************************************************************)
(* list.c                                                                  *)
(***************************************************************************)

(* d becomes the only node.                                                *)
First(k, d) ==
    [l |-> [head |-> d, tail |-> d, counter |-> 1],
     k |-> [next |-> Set(k.next, d, Null), prev |-> Set(k.prev, d, Null)]]

list_add(l, k, p, d) ==
    IF l.counter = 0 THEN First(k, d)
    ELSE LET n == IF p = Null THEN l.head
                  ELSE IF p = l.tail THEN Null ELSE k.next[p]
         IN  [l |-> [head    |-> IF p = Null THEN d ELSE l.head,
                     tail    |-> IF p # Null /\ p = l.tail THEN d ELSE l.tail,
                     counter |-> l.counter + 1],
              k |-> [next |-> Set(Set(k.next, d, n), p, d),
                     prev |-> Set(Set(k.prev, d, p), n, d)]]

list_append(l, k, d) == list_add(l, k, l.tail, d)
list_prepend(l, k, d) == list_add(l, k, Null, d)

(* EINVAL on an empty list.                                                *)
RemoveKeepsTail(l, k, d) ==
    [l |-> [head    |-> IF l.head = d THEN k.next[d] ELSE l.head,
            tail    |-> l.tail,
            counter |-> l.counter - 1],
     k |-> [next |-> Set(Set(k.next, k.prev[d], k.next[d]), d, Null),
            prev |-> Set(Set(k.prev, k.next[d], k.prev[d]), d, Null)]]
list_remove(l, k, d) ==
    IF l.counter = 0 THEN [l |-> l, k |-> k]
    ELSE [l |-> [head    |-> IF l.head = d THEN k.next[d] ELSE l.head,
                 tail    |-> IF l.tail = d THEN k.prev[d] ELSE l.tail,
                 counter |-> l.counter - 1],
          k |-> [next |-> Set(Set(k.next, k.prev[d], k.next[d]), d, Null),
                 prev |-> Set(Set(k.prev, k.next[d], k.prev[d]), d, Null)]]

(* The nodes a walk from n along f visits, at most c of them.              *)
Walk(f, n, c) ==
    LET w[j \in 0 .. c] == IF j = 0 THEN <<>>
                           ELSE LET s == w[j - 1]
                                    m == IF s = <<>> THEN n ELSE f[s[Len(s)]]
                                IN  IF Len(s) < j - 1 \/ m = Null THEN s ELSE Append(s, m)
    IN  w[c]

(* list_search: the first node the predicate holds of (S is its            *)
(* extension), or Null.                                                    *)
list_search(l, k, S, c) ==
    LET hits == SelectSeq(Walk(k.next, l.head, c), LAMBDA n : n \in S)
    IN  IF l.counter = 0 \/ hits = <<>> THEN Null ELSE hits[1]

(***************************************************************************)
(* queue.c and stack.c: only the next links are used.                      *)
(***************************************************************************)
EnqueueKeepsNext(q, k, d) ==
    IF q.head = Null
    THEN [l |-> [head |-> d, tail |-> d, counter |-> 1], k |-> k]
    ELSE [l |-> [q EXCEPT !.tail = d, !.counter = @ + 1],
          k |-> [k EXCEPT !.next = Set(@, q.tail, d)]]
queue_enqueue(q, k, d) ==
    IF q.head = Null
    THEN [l |-> [head |-> d, tail |-> d, counter |-> 1],
          k |-> [k EXCEPT !.next = Set(@, d, Null)]]
    ELSE [l |-> [q EXCEPT !.tail = d, !.counter = @ + 1],
          k |-> [k EXCEPT !.next = Set(Set(@, q.tail, d), d, Null)]]

(* EAGAIN on an empty queue; otherwise the node is the head.               *)
queue_dequeue(q, k) ==
    IF q.counter = 0 THEN [l |-> q, k |-> k]
    ELSE [l |-> [head    |-> k.next[q.head],
                 tail    |-> IF q.counter = 1 THEN Null ELSE q.tail,
                 counter |-> q.counter - 1],
          k |-> [k EXCEPT !.next = Set(@, q.head, Null)]]

queue_roll(q, k) ==
    IF q.counter <= 1 THEN [l |-> q, k |-> k]
    ELSE [l |-> [q EXCEPT !.head = k.next[q.head], !.tail = q.head],
          k |-> [k EXCEPT !.next = Set(Set(@, q.tail, q.head), q.head, Null)]]

queue_insert(q, k, d, after) ==
    IF q.counter = 0 THEN queue_enqueue(q, k, d)
    ELSE IF after = Null
    THEN [l |-> [q EXCEPT !.head = d, !.counter = @ + 1],
          k |-> [k EXCEPT !.next = Set(@, d, q.head)]]
    ELSE [l |-> [q EXCEPT !.tail = IF k.next[after] = Null THEN d ELSE @,
                          !.counter = @ + 1],
          k |-> [k EXCEPT !.next = Set(Set(@, d, k.next[after]), after, d)]]

(* The tail of a stack is never set.                                       *)
stack_push(q, k, d) ==
    IF q.head = Null
    THEN [l |-> [q EXCEPT !.head = d, !.counter = 1],
          k |-> [k EXCEPT !.next = Set(@, d, Null)]]
    ELSE [l |-> [q EXCEPT !.head = d, !.counter = @ + 1],
          k |-> [k EXCEPT !.next = Set(@, d, q.head)]]

stack_pop(q, k) ==
    IF q.counter = 0 THEN [l |-> q, k |-> k]
    ELSE [l |-> [q EXCEPT !.head = k.next[q.head], !.counter = @ - 1],
          k |-> [k EXCEPT !.next = Set(@, q.head, Null)]]

=============================================================================
