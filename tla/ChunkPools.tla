------------------------------ MODULE ChunkPools ------------------------------
(***************************************************************************)
(* The pools of equal chunks of libs/chunks.c and the bitmaps they use     *)
(* (libs/bitmaps.h), and the packet manager of libs/pakman.c, which the    *)
(* network buffers use.                                                    *)
(*                                                                         *)
(* A bitmap is the set of its set positions.  A pool array is a            *)
(* [base, num, free, bits]; the list of arrays starts with the newest and  *)
(* ends with the main one.  Addresses are numbers: the heap places an      *)
(* array at any base where it fits, so an address can come back.           *)
(***************************************************************************)
EXTENDS Integers, Sequences, FiniteSets, FiniteSetsExt

CONSTANTS
    Binl,       \* bits in a long
    ChunkSize,  \* size of a chunk, a multiple of the alignment
    NumItems,   \* chunks of the main array
    Delta,      \* chunks of an array added later, 0 for none
    Bases       \* addresses the heap returns for a buffer

ASSUME PoolAssumption ==
    /\ Binl \in Nat \ {0} /\ ChunkSize \in Nat \ {0} /\ NumItems \in Nat \ {0} /\ Delta \in Nat
    /\ \A a, b \in Bases : a < b => a + ChunkSize * Max({NumItems, Delta}) <= b

VARIABLES
    arrays,     \* pool->pools
    given       \* the chunks the clients hold

poolVars == <<arrays, given>>

(***************************************************************************)
(* bitmaps.h, for a bitmap of len longs.                                   *)
(***************************************************************************)
BITMAPLEN(x) == (x + Binl - 1) \div Binl

bitmap_first_is_set(b, len) ==
    LET s == {i \in b : i < len * Binl} IN IF s = {} THEN len * Binl ELSE Min(s)

bitmap_first_is_clear(b, len) ==
    LET s == (0 .. len * Binl - 1) \ b IN IF s = {} THEN len * Binl ELSE Min(s)

(* The positions the callback is called with.                              *)
bitmap_for_each_set(b, len) == {i \in b : i < len * Binl}

(* A long of ones stops the scan for ever: its index is not advanced.      *)
bitmap_for_each_clear(b, len) ==
    LET full == {w \in 0 .. len - 1 : \A i \in w * Binl .. (w + 1) * Binl - 1 : i \in b}
        last == IF full = {} THEN len ELSE Min(full)
    IN  [seen |-> (0 .. last * Binl - 1) \ b, ends |-> full = {}]

(***************************************************************************)
(* chunks.c                                                                *)
(***************************************************************************)
Address(a, pos) == a.base + pos * ChunkSize
Used            == {arrays[i].base : i \in 1 .. Len(arrays)}
NewArray(b, n)  == [base |-> b, num |-> n, free |-> n, bits |-> {}]

PoolInit == /\ \E b \in Bases : arrays = <<NewArray(b, NumItems)>>
            /\ given = {}

(* The first array of the list that has a clear bit below its size.        *)
FindsAny(as) == {i \in 1 .. Len(as) : as[i].free >= 0}
Finds(as) ==
    {i \in 1 .. Len(as) : /\ as[i].free # 0
                          /\ bitmap_first_is_clear(as[i].bits, BITMAPLEN(as[i].num)) < as[i].num}

Give(a, pos) == [a EXCEPT !.free = @ + 1, !.bits = @ \ {pos}]
Take(a, pos) == [a EXCEPT !.free = @ - 1, !.bits = @ \cup {pos}]

chunks_pool_malloc ==
    LET i   == Min(Finds(arrays))
        pos == bitmap_first_is_clear(arrays[i].bits, BITMAPLEN(arrays[i].num))
    IN  /\ Finds(arrays) # {}
        /\ arrays' = [arrays EXCEPT ![i] = Take(@, pos)]
        /\ given' = given \cup {Address(arrays[i], pos)}

(* create_pool: a new array at the head of the list, whose first chunk is  *)
(* given; when the heap fails the client gets NULL and nothing changes.    *)
create_pool ==
    /\ Finds(arrays) = {} /\ Delta # 0
    /\ \/ \E b \in Bases \ Used :
            /\ arrays' = <<Take(NewArray(b, Delta), 0)>> \o arrays
            /\ given' = given \cup {b}
       \/ UNCHANGED poolVars

(* The arrays that hold an address.                                        *)
Holding(as, ptr) ==
    {i \in 1 .. Len(as) : as[i].base <= ptr /\ ptr <= as[i].base + ChunkSize * (as[i].num - 1)}

(* delete_pool: never the main array, the last of the list.                *)
DeleteMainToo(as, i) ==
    IF as[i].free # as[i].num THEN as
    ELSE SubSeq(as, 1, i - 1) \o SubSeq(as, i + 1, Len(as))
delete_pool(as, i) ==
    IF as[i].free # as[i].num \/ i = Len(as) THEN as
    ELSE SubSeq(as, 1, i - 1) \o SubSeq(as, i + 1, Len(as))

chunks_pool_free(ptr) ==
    LET i   == Min(Holding(arrays, ptr))
        pos == (ptr - arrays[i].base) \div ChunkSize
    IN  /\ Holding(arrays, ptr) # {}
        /\ IF pos \notin arrays[i].bits THEN UNCHANGED poolVars
           ELSE /\ arrays' = delete_pool([arrays EXCEPT ![i] = Give(@, pos)], i)
                /\ given' = given \ {Address(arrays[i], pos)}

chunks_pool_done == arrays # <<>> /\ arrays' = <<>> /\ given' = {}

chunks_pool_create == /\ arrays = <<>>
                      /\ \E b \in Bases : arrays' = <<NewArray(b, NumItems)>>
                      /\ UNCHANGED given

PoolNext == \/ arrays # <<>> /\ (chunks_pool_malloc \/ create_pool)
            \/ \E b \in Bases, pos \in 0 .. Max({NumItems, Delta}) - 1 :
                  chunks_pool_free(b + pos * ChunkSize)
            \/ chunks_pool_done
            \/ chunks_pool_create

(* A chunk is never given twice and a freed one is found again: the set    *)
(* bits are exactly the chunks the clients hold, in whatever order arrays  *)
(* came and went, and the counters of free chunks agree with them.         *)
ChunksAccounted ==
    /\ given = UNION {{Address(arrays[i], pos) : pos \in arrays[i].bits} : i \in 1 .. Len(arrays)}
    /\ \A i \in 1 .. Len(arrays) :
          /\ arrays[i].bits \subseteq 0 .. arrays[i].num - 1
          /\ arrays[i].free = arrays[i].num - Cardinality(arrays[i].bits)

(* An array added later is returned to the heap with its last chunk; the   *)
(* main array never is, and stays the last.                                *)
OnlyMainIdle ==
    arrays # <<>> => /\ arrays[Len(arrays)].num = NumItems
                     /\ \A i \in 1 .. Len(arrays) - 1 : arrays[i].free < arrays[i].num

(***************************************************************************)
(* The packet manager.  Descriptors are a ring; storage is given in cache  *)
(* lines, in ring order, from the first line boundary of the heap block.   *)
(* A client asks for the lengths of one set, chosen at the start.          *)
(***************************************************************************)
CONSTANTS
    CacheAln,   \* size of a cache line
    Bytes,      \* bytes of storage asked for
    PacketsNum, \* descriptors asked for
    StorageAt,  \* addresses calloc returns for the storage
    LenSets,    \* sets of lengths a client asks for, 16 bits
    Wide        \* 2^16

ASSUME PakAssumption ==
    /\ CacheAln \in Nat \ {0} /\ Bytes \in Nat \ {0} /\ PacketsNum \in Nat \ {0}
    /\ StorageAt \subseteq Nat /\ LenSets \subseteq SUBSET (0 .. Wide - 1)

VARIABLES
    pk,         \* [head, tail, next, free, storage]: the packet manager
    pkts,       \* the descriptors: [data, size, chunks, busy]
    lens        \* the lengths the client asks for

pakVars == <<pk, pkts, lens>>

ALNC(x) == ((x + CacheAln - 1) \div CacheAln) * CacheAln

slot_num       == ALNC(Bytes) \div CacheAln
packets_number == IF slot_num < PacketsNum THEN slot_num ELSE PacketsNum
first_chunk    == ALNC(pk.storage)
last_chunk     == first_chunk + CacheAln * slot_num

Idle == [data |-> 0, size |-> 0, chunks |-> 0, busy |-> FALSE]

init_pakman ==
    /\ \E s \in StorageAt :
            pk = [head |-> 0, tail |-> 0, next |-> ALNC(s), free |-> slot_num, storage |-> s]
    /\ lens \in LenSets
    /\ pkts = [i \in 0 .. packets_number - 1 |-> Idle]

SpaceUsesAll(p) == packets_number - ((p.tail + packets_number - p.head) % packets_number)
space_in_packet(p) ==
    IF p.head = p.tail THEN packets_number - 1
    ELSE IF p.head < p.tail THEN p.head + packets_number - p.tail - 1
    ELSE p.head - p.tail - 1

(* The length is aligned in 16 bits; the next chunk wraps only when it is  *)
(* exactly at the end of the storage.                                      *)
pakman_get_packet(bytes) ==
    LET len == ALNC(bytes) % Wide
    IN  /\ space_in_packet(pk) > 0 /\ pk.free > 0
        /\ len <= CacheAln * pk.free
        /\ pkts' = [pkts EXCEPT ![pk.tail] = [data |-> pk.next, size |-> len,
                                              chunks |-> len \div CacheAln, busy |-> TRUE]]
        /\ pk' = [pk EXCEPT !.tail = (@ + 1) % packets_number,
                            !.free = @ - len \div CacheAln,
                            !.next = IF @ + len = last_chunk THEN first_chunk ELSE @ + len]

(* EPERM for any packet but the oldest.                                    *)
pakman_put_packet(i) ==
    /\ i = pk.head
    /\ pk' = [pk EXCEPT !.head = (@ + 1) % packets_number, !.free = @ + pkts[i].chunks]
    /\ pkts' = [pkts EXCEPT ![i] = Idle]

(* A client puts back packets it got.                                      *)
PakNext == /\ \/ \E b \in lens : pakman_get_packet(b)
              \/ \E i \in DOMAIN pkts : pkts[i].busy /\ pakman_put_packet(i)
           /\ UNCHANGED lens

Lines(p) == p.data .. p.data + p.size - 1

(* The descriptors from head to tail are the packets in use; no two of     *)
(* them share storage and none reaches past the block the heap gave, while *)
(* packets come and go and descriptors and storage wrap around at          *)
(* different times.                                                        *)
PacketsDisjoint ==
    \A i \in DOMAIN pkts :
      /\ pkts[i].busy <=> (i + packets_number - pk.head) % packets_number
                           < (pk.tail + packets_number - pk.head) % packets_number
      /\ pkts[i].busy => pkts[i].data + pkts[i].size <= pk.storage + CacheAln * slot_num
      /\ \A j \in DOMAIN pkts : i # j /\ pkts[i].busy /\ pkts[j].busy
                                => Lines(pkts[i]) \cap Lines(pkts[j]) = {}

=============================================================================
