-------------------------------- MODULE Memory --------------------------------
(***************************************************************************)
(* Memory: how the platform divides it (platforms/pc/memory.c), the heap   *)
(* (libs/libc/ansi/malloc.c) and the I/O memory                            *)
(* (kernel/libs/iomemory/iomalloc.c).                                      *)
(*                                                                         *)
(* The heap is the sequence of its descriptors [at, free] in address       *)
(* order, the last one being the unusable end; a descriptor is Header      *)
(* bytes and the bytes it describes reach to the next.  The I/O memory is  *)
(* the array of its locations in use, [pointer, size]; the others are      *)
(* zero.                                                                   *)
(***************************************************************************)
EXTENDS Integers, Sequences, FiniteSets, FiniteSetsExt, SequencesExt

CONSTANTS
    KByte, MByte,       \* the units of the platform
    BssEnd,             \* the end of the kernel image
    IOMEMORY_SIZE,      \* bytes of I/O memory
    Answers,            \* what the BIOS reports: [ax, bx, cx, dx]
    Header,             \* sizeof(struct mempart) of the heap
    Word,               \* sizeof(void *) and sizeof(long)
    UlongMax,           \* 2 ^ bits of an unsigned long
    MAX_IO_ALLOCS,      \* locations of I/O memory
    HeapSizes,          \* sizes the clients of the heap ask for
    IoSizes,            \* sizes the clients of the I/O memory ask for
    Alignments,         \* alignments they ask for, 0 for the natural one
    MaxOwned            \* bound on the heap blocks held at once

ASSUME MemoryAssumption ==
    /\ {KByte, MByte, Header, Word, UlongMax} \subseteq Nat \ {0}
    /\ Header % Word = 0
    /\ MAX_IO_ALLOCS \in Nat \ {0, 1}

VARIABLES
    answer,             \* the registers int 0x15 returned
    heap,               \* the heap's descriptors
    freebytes,          \* bytes counted free, an unsigned long
    allocbytes,         \* bytes counted allocated
    owned,              \* blocks the clients hold: address -> bytes asked for
    storage,            \* the I/O locations in use
    ioOwned             \* I/O blocks the clients hold: address -> bytes asked for

heapVars   == <<heap, freebytes, allocbytes, owned>>
ioVars     == <<storage, ioOwned>>
memoryVars == <<answer, heapVars, ioVars>>

MULT(x, y) == ((x + y - 1) \div y) * y

(***************************************************************************)
(* memory.c: int 0x15 reports the memory above 1 MByte in two registers    *)
(* or, when ax is 0, in two others.                                        *)
(***************************************************************************)
mem(r) == IF r.ax = 0 THEN r.cx * KByte + r.dx * 64 * KByte ELSE r.ax * KByte + r.bx * 64 * KByte

cacheable_memory(r) ==
    LET base == MByte + 64 * KByte + BssEnd
    IN  [base |-> base, size |-> mem(r) - IOMEMORY_SIZE - base]

io_memory(r) == [base |-> mem(r) - IOMEMORY_SIZE, size |-> IOMEMORY_SIZE]

total_memory(r) == mem(r) + MByte

(***************************************************************************)
(* The heap.  The end steps back by as many structures as a structure has  *)
(* bytes; the header of the first block is counted twice.                  *)
(***************************************************************************)
heap_start(r) == cacheable_memory(r).base
heap_end(r)   == cacheable_memory(r).base + cacheable_memory(r).size - Header * Header

HeapInit ==
    /\ answer \in Answers
    /\ heap = <<[at |-> heap_start(answer), free |-> TRUE], [at |-> heap_end(answer), free |-> FALSE]>>
    /\ allocbytes = 2 * Header
    /\ freebytes = heap_end(answer) - heap_start(answer) - 2 * Header
    /\ owned = <<>>

Blocks(h) == 1 .. Len(h) - 1

get_size(h, i) == h[i + 1].at - (h[i].at + Header)

(* A block followed by a free one takes it in, header included.            *)
defrag_mem(h) ==
    FoldLeft(LAMBDA kept, b : IF kept # <<>> /\ b.free /\ Last(kept).free THEN kept ELSE Append(kept, b),
             <<>>, h)

(* The headers that became free space.                                     *)
MergedForgotten(h, g) == 0
Merged(h, g) == Header * (Len(h) - Len(g))

(* The first free block that is large enough, split when what is left has  *)
(* room for a descriptor.                                                  *)
Fits(h, newsize) == {i \in Blocks(h) : h[i].free /\ get_size(h, i) >= newsize}

SplitsTight(h, i, newsize) == get_size(h, i) >= newsize
Splits(h, i, newsize) == get_size(h, i) >= newsize + Header

malloc_internal(h, newsize) ==
    LET i == Min(Fits(h, newsize))
        taken == [h EXCEPT ![i].free = FALSE]
    IN  IF Splits(h, i, newsize)
        THEN [h |-> SubSeq(taken, 1, i)
                    \o <<[at |-> h[i].at + Header + newsize, free |-> TRUE]>>
                    \o SubSeq(taken, i + 1, Len(h)),
              at |-> h[i].at + Header, bytes |-> newsize + Header]
        ELSE [h |-> taken, at |-> h[i].at + Header, bytes |-> get_size(h, i)]

(* What malloc leaves: [h, at, free, alloc]; at is 0 for NULL.  The list   *)
(* is defragmented when the first search fails, also in vain.              *)
malloc(h, size) ==
    LET newsize == MULT(size, Word)
        first   == Fits(h, newsize) # {}
        g       == IF first THEN h ELSE defrag_mem(h)
        merged  == Merged(h, g)
        m       == malloc_internal(g, newsize)
    IN  IF Fits(g, newsize) = {}
        THEN [h |-> g, at |-> 0, free |-> merged, alloc |-> - merged]
        ELSE [h |-> m.h, at |-> m.at, free |-> merged - m.bytes, alloc |-> m.bytes - merged]

(* free: the block of address p, which an assertion wants allocated.       *)
BlockOf(h, p) == CHOOSE i \in Blocks(h) : h[i].at + Header = p

Counted(f, a) == /\ freebytes' = (freebytes + f) % UlongMax
                 /\ allocbytes' = (allocbytes + a) % UlongMax

Drop(f, p)   == [q \in DOMAIN f \ {p} |-> f[q]]
Add(f, p, s) == [q \in DOMAIN f \cup {p} |-> IF q = p THEN s ELSE f[q]]

Malloc(size) ==
    LET m == malloc(heap, size)
    IN  /\ heap' = m.h
        /\ owned' = IF m.at = 0 THEN owned ELSE Add(owned, m.at, size)
        /\ Counted(m.free, m.alloc)

Free(p) ==
    LET i == BlockOf(heap, p)
    IN  /\ heap' = [heap EXCEPT ![i].free = TRUE]
        /\ owned' = Drop(owned, p)
        /\ Counted(get_size(heap, i), - get_size(heap, i))

(* realloc: a block that is large enough stays; otherwise a new block is   *)
(* allocated before the old one is freed, and without one the old stays.   *)
Realloc(p, size) ==
    \E m \in {malloc(heap, size)} :
    LET old == get_size(heap, BlockOf(heap, p))
    IN  IF old >= size
        THEN owned' = [owned EXCEPT ![p] = size] /\ UNCHANGED <<heap, freebytes, allocbytes>>
        ELSE IF m.at = 0
        THEN heap' = m.h /\ UNCHANGED owned /\ Counted(m.free, m.alloc)
        ELSE /\ heap' = [m.h EXCEPT ![BlockOf(m.h, p)].free = TRUE]
             /\ owned' = Add(Drop(owned, p), m.at, size)
             /\ Counted(m.free + old, m.alloc - old)

(* A size of 0 allocates nothing and frees nothing; realloc to 0 frees.    *)
HeapNext ==
    /\ \/ \E s \in HeapSizes : Cardinality(DOMAIN owned) < MaxOwned /\ Malloc(s)
       \/ \E p \in DOMAIN owned : Free(p)
       \/ \E p \in DOMAIN owned, s \in HeapSizes : Realloc(p, s)
    /\ UNCHANGED <<answer, ioVars>>

(***************************************************************************)
(* I/O memory.                                                             *)
(***************************************************************************)
start_of_memory(r) == io_memory(r).base
end_of_memory(r)   == io_memory(r).base + io_memory(r).size

IoInit == storage = <<>> /\ ioOwned = <<>>

Ends(b) == b.pointer + b.size

(* The first location after which a large enough hole begins.              *)
Holes(st, aln, newsize) ==
    {i \in 1 .. Len(st) - 1 : /\ Ends(st[i]) < st[i + 1].pointer
                              /\ MULT(Ends(st[i]), aln) + newsize < st[i + 1].pointer}

(* The block that fills a hole is stored before the location the hole      *)
(* follows.                                                                *)
Stored(st, b, i) == SubSeq(st, 1, i - 1) \o <<b>> \o SubSeq(st, i, Len(st))

OverrunsLate(r, b) == b.pointer > end_of_memory(r)
Overruns(r, b) == Ends(b) > end_of_memory(r)

(* The locations left, the same ones when there is no room.                *)
iomalloc_internal(r, st, newsize, aln) ==
    LET hole == Holes(st, aln, newsize)
        i    == IF hole = {} THEN Len(st) + 1 ELSE Min(hole)
        from == IF st = <<>> THEN start_of_memory(r)
                ELSE IF hole = {} THEN Ends(st[Len(st)]) ELSE Ends(st[i])
        b    == [pointer |-> MULT(from, aln), size |-> newsize]
    IN  IF Len(st) = MAX_IO_ALLOCS \/ Overruns(r, b)
        THEN [st |-> st, pointer |-> 0]
        ELSE [st |-> Stored(st, b, i), pointer |-> b.pointer]

iomalloc(size, aln) ==
    LET m == iomalloc_internal(answer, storage, MULT(size, Word), IF aln = 0 THEN Word ELSE aln)
    IN  /\ storage' = m.st
        /\ ioOwned' = IF m.pointer = 0 THEN ioOwned ELSE Add(ioOwned, m.pointer, size)

(* libc/ansi/bsearch.c over the first n elements from base on: the place   *)
(* of key, 0 when the search misses it.                                    *)
bsearch(key, f) ==
    LET b[n \in 0 .. Len(f)] ==
          [base \in 1 .. Len(f) + 1 |->
             IF n = 0 THEN 0
             ELSE LET mid == base + n \div 2
                  IN  IF f[mid] = key THEN mid
                      ELSE IF key >= f[mid] THEN b[(n - 1) \div 2][mid + 1]
                      ELSE b[n \div 2][base]]
    IN  b[Len(f)][1]

iofree(ptr) ==
    LET i == bsearch(ptr, [k \in 1 .. Len(storage) |-> storage[k].pointer])
    IN  /\ storage' = IF i = 0 THEN storage ELSE RemoveAt(storage, i)
        /\ ioOwned' = Drop(ioOwned, ptr)

IoNext == /\ \/ \E s \in IoSizes, a \in Alignments : iomalloc(s, a)
             \/ \E p \in DOMAIN ioOwned : iofree(p)
          /\ UNCHANGED <<answer, heapVars>>

(***************************************************************************)
(* Properties                                                              *)
(***************************************************************************)

(* The descriptors tile the heap from its start to its end, and the blocks *)
(* marked allocated are exactly the ones held, each as large as was asked  *)
(* for last, through splits, merges and reallocations.                     *)
HeapTiles ==
    /\ heap[1].at = heap_start(answer) /\ heap[Len(heap)].at = heap_end(answer)
    /\ \A i \in Blocks(heap) : get_size(heap, i) >= 0
    /\ {heap[i].at + Header : i \in {j \in Blocks(heap) : ~heap[j].free}} = DOMAIN owned
    /\ \A p \in DOMAIN owned : get_size(heap, BlockOf(heap, p)) >= owned[p]

(* The two counters of diegos_malloc_stats always add up to the heap, and  *)
(* the free one is the free space less one header, which wraps around when *)
(* the last free block is taken whole.                                     *)
HeapCounted ==
    LET free == {i \in Blocks(heap) : heap[i].free}
    IN  /\ (freebytes + allocbytes) % UlongMax = (heap_end(answer) - heap_start(answer)) % UlongMax
        /\ freebytes = (MapThenSumSet(LAMBDA i : get_size(heap, i), free) - Header) % UlongMax

(* An I/O block held is in the locations, aligned, inside the I/O memory,  *)
(* which begins where the heap ends.                                       *)
IoInside ==
    /\ heap_end(answer) <= start_of_memory(answer)
    /\ Len(storage) <= MAX_IO_ALLOCS
    /\ \A p \in DOMAIN ioOwned :
          /\ start_of_memory(answer) <= p /\ p + ioOwned[p] <= end_of_memory(answer)
          /\ \E i \in 1 .. Len(storage) : storage[i].pointer = p /\ storage[i].size >= ioOwned[p]

(* iomalloc.c: carving a hole keeps the set ordered.                       *)
IoOrdered ==
    \A i, j \in 1 .. Len(storage) : i < j => storage[i].pointer < storage[j].pointer

(* Two blocks of I/O memory held at the same time do not overlap.          *)
IoDisjoint ==
    \A p, q \in DOMAIN ioOwned : p < q => p + ioOwned[p] <= q

=============================================================================
