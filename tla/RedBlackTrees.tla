---------------------------- MODULE RedBlackTrees -----------------------------
(***************************************************************************)
(* The balanced search trees of libs/red_black_tree.c, which hold the      *)
(* network interfaces.                                                     *)
(*                                                                         *)
(* A tree is a node [k, red, top, l, r] (key, the two bits of flags, the   *)
(* two subtrees) or Nil.  A node is identified with its key: what a client *)
(* extracts is the node it inserted, so the only thing a node carries      *)
(* outside a tree that a later call does not overwrite is its NODE_IS_ROOT *)
(* bit, kept in topped.  Directions are "l" and "r".                       *)
(*                                                                         *)
(* Definitions that come just before a helper with the same parameters are *)
(* mistakes the code could have made; no specification uses them.          *)
(***************************************************************************)
EXTENDS Integers, Sequences, FiniteSets, FiniteSetsExt, SequencesExt

CONSTANTS
    Keys,       \* the keys, positive numbers
    Loads,      \* insertion sequences: the trees the runs start from
    MaxTreeOps  \* bound on the calls that follow

ASSUME KeysAssumption == Keys \subseteq Nat \ {0}

VARIABLES
    tree,       \* the root pointer
    topped,     \* nodes outside the tree that still have NODE_IS_ROOT set
    members,    \* the keys inserted and not extracted
    refused,    \* whether the last call was an insertion of a key present
    treeOps     \* calls so far

treeVars == <<tree, topped, members, refused, treeOps>>

Nil == [k |-> 0]

Child(t, d)       == t[d]
SetChild(t, d, c) == [t EXCEPT ![d] = c]
Opp(d)            == IF d = "l" THEN "r" ELSE "l"
IsRed(t)          == t # Nil /\ t.red
Red(t)            == IF t = Nil THEN t ELSE [t EXCEPT !.red = TRUE]
Black(t)          == IF t = Nil THEN t ELSE [t EXCEPT !.red = FALSE]
Top(t)            == IF t = Nil THEN t ELSE [t EXCEPT !.top = TRUE]

(* rotate_right and rotate_left: the child opposite to d comes up, black,  *)
(* and takes the root bit over; the old root becomes its red child.        *)
RotateKeepsColours(t, d) ==
    LET s == Child(t, Opp(d))
    IN  SetChild(s, d, SetChild(t, Opp(d), Child(s, d)))
RotateLosesInner(t, d) ==
    LET s == Child(t, Opp(d))
    IN  SetChild([s EXCEPT !.red = FALSE, !.top = @ \/ t.top], d,
                 [SetChild(t, Opp(d), Nil) EXCEPT !.red = TRUE, !.top = FALSE])
rotate(t, d) ==
    LET s == Child(t, Opp(d))
    IN  SetChild([s EXCEPT !.red = FALSE, !.top = @ \/ t.top], d,
                 [SetChild(t, Opp(d), Child(s, d)) EXCEPT !.red = TRUE, !.top = FALSE])

double_rotate(t, d) ==
    rotate(SetChild(t, Opp(d), rotate(Child(t, Opp(d)), Opp(d))), d)

(***************************************************************************)
(* Insertion.  The rebalancing on the way up is also done above a key that *)
(* is found, where nothing was linked.                                     *)
(***************************************************************************)
BalanceGrown(t, d) ==
    LET c == Child(t, d)
    IN  IF ~IsRed(c) THEN t
        ELSE IF IsRed(Child(t, Opp(d)))
        THEN [t EXCEPT !.red = TRUE, !.l = Black(@), !.r = Black(@)]
        ELSE IF IsRed(Child(c, d)) THEN rotate(t, Opp(d))
        ELSE IF IsRed(Child(c, Opp(d))) THEN double_rotate(t, Opp(d))
        ELSE t

RECURSIVE insert_recursive(_, _)
insert_recursive(t, n) ==
    IF t = Nil THEN n
    ELSE IF t.k = n.k THEN t
    ELSE LET d == IF t.k > n.k THEN "l" ELSE "r"
         IN  BalanceGrown(SetChild(t, d, insert_recursive(Child(t, d), n)), d)

RECURSIVE rbtree_search(_, _)
rbtree_search(t, k) ==
    IF t = Nil \/ t.k = k THEN t.k
    ELSE rbtree_search(Child(t, IF t.k > k THEN "l" ELSE "r"), k)

(* top is whether the node comes with a stale root bit.  The root of a     *)
(* tree that refuses the node keeps the colour the walk left it.           *)
rbtree_insert(t, k, top) ==
    LET g == insert_recursive(t, [k |-> k, red |-> TRUE, top |-> top, l |-> Nil, r |-> Nil])
    IN  IF rbtree_search(t, k) = k /\ t # Nil THEN g ELSE Top(Black(g))

(***************************************************************************)
(* Extraction.  [t, done, out]: the tree left, whether the black heights   *)
(* are even, the node unlinked (Nil when none was).                        *)
(***************************************************************************)
rbtree_extract_balance(t, d) ==
    LET turned == IsRed(Child(t, Opp(d)))
        u == IF turned THEN rotate(t, d) ELSE t
        p == IF turned THEN Child(u, d) ELSE u
        s == Child(p, Opp(d))
        Link(q) == IF turned THEN SetChild(u, d, q) ELSE q
        q == IF IsRed(Child(s, Opp(d))) THEN rotate(p, d) ELSE double_rotate(p, d)
    IN  IF s = Nil THEN [t |-> u, done |-> FALSE]
        ELSE IF ~IsRed(s.l) /\ ~IsRed(s.r)
        THEN [t |-> Link(Black(SetChild(p, Opp(d), Red(s)))), done |-> IsRed(p)]
        ELSE [t |-> Link([q EXCEPT !.red = turned \/ IsRed(u), !.l = Black(@), !.r = Black(@)]),
              done |-> TRUE]

RECURSIVE Outermost(_, _)
Outermost(t, d) == IF t = Nil \/ Child(t, d) = Nil THEN t.k ELSE Outermost(Child(t, d), d)

rbtree_first(t) == Outermost(t, "l")
rbtree_last(t)  == Outermost(t, "r")

RECURSIVE rbtree_extract_recursive(_, _)
rbtree_extract_recursive(t, k) ==
    IF t = Nil THEN [t |-> t, done |-> TRUE, out |-> Nil]
    ELSE IF t.k = k /\ (t.l = Nil \/ t.r = Nil)
    THEN LET save == IF t.l = Nil THEN t.r ELSE t.l
         IN  [t |-> IF t.red THEN save ELSE Black(save), done |-> t.red \/ IsRed(save), out |-> t]
    ELSE LET d == IF t.k < k THEN "r" ELSE "l"
             heir == IF t.k = k THEN rbtree_last(t.l) ELSE 0
             e == rbtree_extract_recursive(Child(t, d), IF heir # 0 THEN heir ELSE k)
             u == [SetChild(t, d, e.t) EXCEPT !.k = IF heir # 0 THEN heir ELSE @]
             b == IF e.done THEN [t |-> u, done |-> TRUE] ELSE rbtree_extract_balance(u, d)
         IN  [t |-> b.t, done |-> b.done, out |-> IF heir # 0 THEN t ELSE e.out]

rbtree_extract(t, k) ==
    LET e == rbtree_extract_recursive(t, k) IN [t |-> Top(Black(e.t)), out |-> e.out]

(***************************************************************************)
(* Queries.  A query returns a key, 0 for NULL.                            *)
(***************************************************************************)

(* The subtree k is at (Nil when it is not there) and the last nodes       *)
(* passed to the right and to the left: lastp[DIR_LEFT], lastp[DIR_RIGHT]. *)
RECURSIVE find_common(_, _, _)
find_common(t, k, p) ==
    IF t = Nil \/ t.k = k THEN [t |-> t, p |-> p]
    ELSE IF t.k > k THEN find_common(t.l, k, [p EXCEPT !.r = t.k])
    ELSE find_common(t.r, k, [p EXCEPT !.l = t.k])

NearestOfLeaf(t, k, d) == find_common(t, k, [l |-> 0, r |-> 0]).p[d]
find_in_rbtree(t, k, d) ==
    LET f == find_common(t, k, [l |-> 0, r |-> 0])
    IN  IF f.t # Nil /\ Child(f.t, d) # Nil THEN Outermost(Child(f.t, d), Opp(d)) ELSE f.p[d]

find_in_rbtree_exact(t, k, d) ==
    IF find_common(t, k, [l |-> 0, r |-> 0]).t = Nil THEN 0 ELSE find_in_rbtree(t, k, d)

rbtree_previous(t, k)        == find_in_rbtree_exact(t, k, "l")
rbtree_next(t, k)            == find_in_rbtree_exact(t, k, "r")
rbtree_search_previous(t, k) == find_in_rbtree(t, k, "l")
rbtree_search_next(t, k)     == find_in_rbtree(t, k, "r")

RECURSIVE rbtree_count(_)
rbtree_count(t) == IF t = Nil THEN 0 ELSE 1 + rbtree_count(t.l) + rbtree_count(t.r)

RECURSIVE rbtree_enumerate_inorder(_)
rbtree_enumerate_inorder(t) ==
    IF t = Nil THEN <<>>
    ELSE rbtree_enumerate_inorder(t.l) \o <<t.k>> \o rbtree_enumerate_inorder(t.r)

(* The nodes a walk visits when its callback stops it at a key of S.       *)
RECURSIVE rbtree_walk(_, _)
rbtree_walk(t, S) ==
    IF t = Nil THEN <<>>
    ELSE LET w == rbtree_walk(t.l, S)
         IN  IF w # <<>> /\ Last(w) \in S THEN w
             ELSE IF t.k \in S THEN Append(w, t.k)
             ELSE Append(w, t.k) \o rbtree_walk(t.r, S)

(* Layer by layer: the list is its own queue.                              *)
RECURSIVE Layers(_)
Layers(row) ==
    IF row = <<>> THEN <<>>
    ELSE row \o Layers(SelectSeq(FlattenSeq([i \in 1 .. Len(row) |-> <<row[i].l, row[i].r>>]),
                                 LAMBDA t : t # Nil))
rbtree_enumerate_layered(t) ==
    LET all == IF t = Nil THEN <<>> ELSE Layers(<<t>>) IN [i \in 1 .. Len(all) |-> all[i].k]

(* A range whose ends meet in one node is empty.                           *)
RECURSIVE From(_, _, _)
From(t, k, stop) == IF k = stop THEN <<k>> ELSE <<k>> \o From(t, rbtree_next(t, k), stop)
RangeFromNext(t, low, high) ==
    LET start == rbtree_search_next(t, low)
        stop  == rbtree_search_previous(t, high)
    IN  IF start = 0 \/ stop = 0 \/ start >= stop THEN <<>> ELSE From(t, start, stop)
rbtree_enumerate_inorder_range(t, low, high) ==
    LET start == IF rbtree_search(t, low) # 0 THEN low ELSE rbtree_search_next(t, low)
        stop  == IF rbtree_search(t, high) # 0 THEN high ELSE rbtree_search_previous(t, high)
    IN  IF start = 0 \/ stop = 0 \/ start >= stop THEN <<>> ELSE From(t, start, stop)

(* The black height, counting NULL, or 0 for a tree that breaks a rule.    *)
RECURSIVE rbtree_verify(_)
rbtree_verify(t) ==
    IF t = Nil THEN 1
    ELSE LET lh == rbtree_verify(t.l)
             rh == rbtree_verify(t.r)
         IN  IF \/ t.red /\ (IsRed(t.l) \/ IsRed(t.r))
                \/ t.l # Nil /\ t.l.k >= t.k
                \/ t.r # Nil /\ t.r.k <= t.k
                \/ lh = 0 \/ rh = 0 \/ lh # rh
             THEN 0
             ELSE IF t.red THEN lh ELSE lh + 1

(***************************************************************************)
(* The calls a client makes.                                               *)
(***************************************************************************)
TreeInit ==
    /\ \E load \in Loads :
          /\ members = {load[i] : i \in 1 .. Len(load)}
          /\ tree = FoldLeft(LAMBDA t, k : rbtree_insert(t, k, FALSE), Nil, load)
    /\ topped = {}
    /\ refused = FALSE
    /\ treeOps = 0

Insert(k) ==
    /\ tree' = rbtree_insert(tree, k, k \in topped)
    /\ refused' = (k \in members)
    /\ members' = members \cup {k}
    /\ topped' = IF k \in members THEN topped ELSE topped \ {k}

Extract(k) ==
    /\ tree # Nil
    /\ \E e \in {rbtree_extract(tree, k)} :
        /\ tree' = e.t
        /\ members' = members \ {e.out.k}
        /\ topped' = IF e.out # Nil /\ e.out.top THEN topped \cup {e.out.k} ELSE topped
    /\ refused' = FALSE

TreeNext == /\ treeOps < MaxTreeOps
            /\ treeOps' = treeOps + 1
            /\ \E k \in Keys : Insert(k) \/ Extract(k)

TreeSpec == TreeInit /\ [][TreeNext]_treeVars

(***************************************************************************)
(* Properties                                                              *)
(***************************************************************************)

(* rbtree_insert and rbtree_extract leave a red-black tree: no red node    *)
(* has a red child, every path has the same number of black nodes, the     *)
(* root is black.  After a call that refused a duplicate only the root may *)
(* break a rule: the recolouring on the way up is not finished there.      *)
RedBlack ==
    /\ ~refused => rbtree_verify(tree) # 0 /\ ~IsRed(tree)
    /\ refused => rbtree_verify(Black(tree)) # 0

(* The sequence s enumerates the set S in increasing order.                *)
InOrder(s, S) == ToSet(s) = S /\ \A i, j \in 1 .. Len(s) : i < j => s[i] < s[j]

(* Whatever the rotations did, the tree holds the keys inserted and not    *)
(* extracted, in order: in-order, layered and counted enumerations agree.  *)
TreeHoldsMembers ==
    /\ InOrder(rbtree_enumerate_inorder(tree), members)
    /\ ToSet(rbtree_enumerate_layered(tree)) = members
    /\ rbtree_count(tree) = Cardinality(members)
    /\ \A k \in Keys : InOrder(rbtree_walk(tree, {k}), {m \in members : k \in members => m <= k})

MaxOrNull(S) == IF S = {} THEN 0 ELSE Max(S)
MinOrNull(S) == IF S = {} THEN 0 ELSE Min(S)

(* The searches find the key, or its neighbours, as the header promises:   *)
(* rbtree_previous and rbtree_next want the key in the tree, the two       *)
(* rbtree_search_ forms do not.                                            *)
SearchesFind ==
    /\ rbtree_first(tree) = MinOrNull(members)
    /\ rbtree_last(tree) = MaxOrNull(members)
    /\ \A k \in Keys :
          LET below == MaxOrNull({m \in members : m < k})
              above == MinOrNull({m \in members : m > k})
          IN  /\ rbtree_search(tree, k) = IF k \in members THEN k ELSE 0
              /\ rbtree_search_previous(tree, k) = below
              /\ rbtree_search_next(tree, k) = above
              /\ rbtree_previous(tree, k) = IF k \in members THEN below ELSE 0
              /\ rbtree_next(tree, k) = IF k \in members THEN above ELSE 0

(* A range of two keys or more is enumerated in order and complete.        *)
RangeInOrder ==
    \A lo, hi \in Keys :
      LET inside == {m \in members : lo <= m /\ m <= hi}
      IN  Cardinality(inside) # 1
          => InOrder(rbtree_enumerate_inorder_range(tree, lo, hi), inside)

(* red_black_tree.h: nodes with low and high keys are included in the      *)
(* returned list.                                                          *)
RangeIncludesEnds ==
    \A lo \in members : rbtree_enumerate_inorder_range(tree, lo, lo) = <<lo>>

(* A failed rbtree_insert leaves a tree rbtree_verify accepts.             *)
RefusalKeepsTree == rbtree_verify(tree) # 0

=============================================================================
