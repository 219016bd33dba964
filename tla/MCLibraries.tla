------------------------------ MODULE MCLibraries -----------------------------
(***************************************************************************)
(* The libraries, each with a client of its own: the lists, queues and     *)
(* stacks against sequences, the trees against sets, the hash lists, the   *)
(* chunk pools, the packet manager, the heap, the I/O memory, the C        *)
(* library and its streams, the paths of the file system.  They share no   *)
(* state, so an initial state chooses one and the others rest.             *)
(***************************************************************************)
EXTENDS RedBlackTrees, HashLists, ChunkPools, Memory, LibcClients, Stdio, FatNames

CONSTANTS
    Nodes,      \* list nodes
    NullNode    \* the null pointer

ASSUME NodesAssumption == NullNode \notin Nodes

VARIABLES
    part,       \* the library at work
    lst,        \* a list, a queue or a stack
    links,      \* the links of the nodes
    ref         \* the sequence the list stands for

listVars == <<lst, links, ref>>
vars     == <<part, listVars, treeVars, hashVars, poolVars, pakVars, memoryVars, libcVars, stdioVars, nameVars>>

L == INSTANCE Lists WITH Node <- Nodes, Null <- NullNode

(* What the BIOS reports: the memory in the first pair of registers or in  *)
(* the second.                                                             *)
MemAnswers == {[ax |-> 84, bx |-> 1, cx |-> 0, dx |-> 0], [ax |-> 0, bx |-> 0, cx |-> 76, dx |-> 1]}

(* The years the calendar is walked through: the first ones, a leap year,   *)
(* and the last the conversion reaches.                                    *)
CalendarYears == {15, 19, 20, 65}

(* What a device gives: nothing, or two lines the second of which has no    *)
(* end.                                                                    *)
DeviceInputs == {<<>>, <<"a", "nl", "a">>}

(* The trees start empty or with these keys, in this order.                *)
TreeLoads == {<<>>, <<4, 10, 1, 8, 7, 6, 3, 2, 5, 11, 9>>}

Init ==
    /\ part \in {"list", "queue", "stack", "tree", "hash", "pool", "packets", "heap", "iomem", "libc", "stdio",
               "paths"}
    /\ lst = L!list_init /\ links = L!NoLinks /\ ref = <<>>
    /\ IF part = "tree" THEN TreeInit
       ELSE tree = Nil /\ topped = {} /\ members = {} /\ refused = FALSE /\ treeOps = 0
    /\ HashInit
    /\ IF part = "pool" THEN PoolInit ELSE arrays = <<>> /\ given = {}
    /\ init_pakman
    /\ part # "packets" => pk.storage = CHOOSE s \in StorageAt : TRUE
    /\ part # "packets" => lens = CHOOSE s \in LenSets : TRUE
    /\ HeapInit
    /\ part \notin {"heap", "iomem"} => answer.ax # 0
    /\ IoInit
    /\ StdioInit
    /\ part # "stdio" => world.inp["stdin"] = <<>>
    /\ IF part = "paths" THEN NamesInit ELSE path = <<>> /\ cut = [at |-> 1, names |-> <<>>, result |-> "done"]
    /\ IF part = "libc" THEN LibcInit ELSE client = "none" /\ work = 0

(***************************************************************************)
(* A client of a list links a node that is in no list.                     *)
(***************************************************************************)
Becomes(o, s) == lst' = o.l /\ links' = o.k /\ ref' = s

InsertAfter(s, i, n) == SubSeq(s, 1, i) \o <<n>> \o SubSeq(s, i + 1, Len(s))
Before(i) == IF i = 0 THEN NullNode ELSE ref[i]

ListStep ==
    /\ part = "list"
    /\ \/ \E n \in Nodes \ ToSet(ref) :
            \/ \E i \in 0 .. Len(ref) :
                 Becomes(L!list_add(lst, links, Before(i), n), InsertAfter(ref, i, n))
            \/ Becomes(L!list_append(lst, links, n), Append(ref, n))
            \/ Becomes(L!list_prepend(lst, links, n), <<n>> \o ref)
       \/ \E i \in 1 .. Len(ref) :
            Becomes(L!list_remove(lst, links, ref[i]), RemoveAt(ref, i))

QueueStep ==
    /\ part = "queue"
    /\ \/ \E n \in Nodes \ ToSet(ref) :
            \/ Becomes(L!queue_enqueue(lst, links, n), Append(ref, n))
            \/ \E i \in 0 .. Len(ref) :
                 Becomes(L!queue_insert(lst, links, n, Before(i)), InsertAfter(ref, i, n))
       \/ ref # <<>> /\ Becomes(L!queue_dequeue(lst, links), Tail(ref))
       \/ ref # <<>> /\ Becomes(L!queue_roll(lst, links), Append(Tail(ref), Head(ref)))

StackStep ==
    /\ part = "stack"
    /\ \/ \E n \in Nodes \ ToSet(ref) : Becomes(L!stack_push(lst, links, n), <<n>> \o ref)
       \/ ref # <<>> /\ Becomes(L!stack_pop(lst, links), Tail(ref))

Next ==
    \/ /\ ListStep \/ QueueStep \/ StackStep
       /\ UNCHANGED <<part, treeVars, hashVars, poolVars, pakVars, memoryVars, libcVars, stdioVars, nameVars>>
    \/ /\ part = "tree" /\ TreeNext
       /\ UNCHANGED <<part, listVars, hashVars, poolVars, pakVars, memoryVars, libcVars, stdioVars, nameVars>>
    \/ /\ part = "hash" /\ HashNext
       /\ UNCHANGED <<part, listVars, treeVars, poolVars, pakVars, memoryVars, libcVars, stdioVars, nameVars>>
    \/ /\ part = "pool" /\ PoolNext
       /\ UNCHANGED <<part, listVars, treeVars, hashVars, pakVars, memoryVars, libcVars, stdioVars, nameVars>>
    \/ /\ part = "packets" /\ PakNext
       /\ UNCHANGED <<part, listVars, treeVars, hashVars, poolVars, memoryVars, libcVars, stdioVars, nameVars>>
    \/ /\ \/ part = "heap" /\ HeapNext
          \/ part = "iomem" /\ IoNext
       /\ UNCHANGED <<part, listVars, treeVars, hashVars, poolVars, pakVars, libcVars, stdioVars, nameVars>>
    \/ /\ part = "libc" /\ LibcNext
       /\ UNCHANGED <<part, listVars, treeVars, hashVars, poolVars, pakVars, memoryVars, stdioVars, nameVars>>
    \/ /\ part = "stdio" /\ StdioNext
       /\ UNCHANGED <<part, listVars, treeVars, hashVars, poolVars, pakVars, memoryVars, libcVars, nameVars>>
    \/ /\ part = "paths" /\ FAT_parse_directory
       /\ UNCHANGED <<part, listVars, treeVars, hashVars, poolVars, pakVars, memoryVars, libcVars, stdioVars>>

Spec == Init /\ [][Next]_vars

(***************************************************************************)
(* Properties                                                              *)
(***************************************************************************)

(* Insertions anywhere, removals and rolls keep the links, both ends and   *)
(* the counter of a list, a queue or a stack those of the sequence it      *)
(* stands for; an unlinked node is left with null links.                   *)
LinksMirror ==
    /\ L!Walk(links.next, lst.head, Cardinality(Nodes) + 1) = ref
    /\ lst.counter = Len(ref)
    /\ part # "stack" => lst.tail = IF ref = <<>> THEN NullNode ELSE Last(ref)
    /\ part = "list" => L!Walk(links.prev, lst.tail, Cardinality(Nodes) + 1) = Reverse(ref)
    /\ \A n \in Nodes \ ToSet(ref) : links.next[n] = NullNode /\ links.prev[n] = NullNode
    /\ \A wanted \in SUBSET Nodes :
         L!list_search(lst, links, wanted, Cardinality(Nodes) + 1)
           = LET hits == SelectSeq(ref, LAMBDA n : n \in wanted)
             IN  IF hits = <<>> THEN NullNode ELSE hits[1]

(* The containers of libs/ after any calls: list.c, queue.c and stack.c    *)
(* keep the links of a sequence; red_black_tree.c keeps a balanced search  *)
(* tree of what was inserted, and its searches and ranges find it;         *)
(* hash_list.c finds what was put in.                                      *)
ContainersSound ==
    /\ LinksMirror
    /\ RedBlack
    /\ TreeHoldsMembers
    /\ SearchesFind
    /\ RangeInOrder
    /\ HashFinds

(* The allocators: chunks.c gives out each chunk once and takes it back to *)
(* the array it is from; pakman.c gives packets lines of their own;        *)
(* malloc.c tiles the heap and counts it; iomalloc.c stays inside the I/O  *)
(* memory.                                                                 *)
StorageSound ==
    /\ ChunksAccounted
    /\ OnlyMainIdle
    /\ PacketsDisjoint
    /\ HeapTiles
    /\ HeapCounted
    /\ IoInside

(* What the C library computes, against its definition: 64 bit products,   *)
(* quotients and shifts from 32 bit words, dates, strftime's use of its    *)
(* buffer, tokens, searches, copies and moves, strtol, qsort, and the      *)
(* texts of printf and scanf.                                              *)
LibcExact ==
    /\ DivisionExact
    /\ ProductExact
    /\ WordsAgree
    /\ CalendarExact
    /\ TimeTextFits
    /\ TokensInOrder
    /\ SearchesExact
    /\ CopiesStay
    /\ MovesExact
    /\ ConversionExact
    /\ SortedPermutation
    /\ TempFits
    /\ PrintedReadsBack
    /\ PiecesJoin
    /\ ScanCounts

(* The streams of libc/stdio: what reaches the device and what waits in    *)
(* the buffer is what was written, what is read is what the device gave,   *)
(* buffers are never left, for the three kinds of buffering and any        *)
(* mixture of calls.                                                       *)
StreamsSound ==
    /\ OutputExact
    /\ InputInOrder
    /\ BuffersInside
    /\ SnprintfBounded

(* The paths of fat_names.c: the name a path is created under is the one   *)
(* it is searched by, splits are the names between separators, and a       *)
(* relative path leads to the same place.                                  *)
PathsExact ==
    /\ SplitExact
    /\ CreatedSearched
    /\ RelativeLeads

=============================================================================
