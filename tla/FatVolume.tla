------------------------------ MODULE FatVolume ------------------------------
(***************************************************************************)
(* The FAT16.1 driver of src/fat: the volume on disk, the table kept in    *)
(* memory and the functions that the calls of Fat are made of.             *)
(*                                                                         *)
(* The driver is sequential, so a function is an operator from a volume    *)
(* (a record v) to a volume.  Every disk access counts itself in v.acc;    *)
(* v.fault says which access fails, or after which one the machine stops,  *)
(* so that a call can be cut between any two of its accesses.              *)
(*                                                                         *)
(*   v.fat     the table in memory      v.last   lastFreeFATEntry          *)
(*   v.copies  the tables on disk       v.clus   the clusters on disk and  *)
(*                                               what the tables' sectors  *)
(*                                               hold, read as a directory *)
(*                                                                         *)
(* A cluster holds a directory (a sequence of Entries entries) or data (a  *)
(* sequence of BytesPerCluster bytes).  One cluster and one table are one  *)
(* sector each, so that an access is a sector.  Time stamps are left out.  *)
(***************************************************************************)
EXTENDS Integers, Sequences, SequencesExt, FiniteSets

CONSTANTS Sectors,          \* sectors of the partition
          BytesPerCluster,  \* bytes of a cluster
          Entries           \* directory entries of a cluster

ASSUME VolumeAssumption ==
    /\ Sectors \in Nat /\ Sectors > 6
    /\ BytesPerCluster \in Nat \ {0}
    /\ Entries \in Nat /\ Entries > 2 /\ Entries >= BytesPerCluster

(***************************************************************************)
(* Geometry, as FAT_format computes it and FAT_mount reads it back.        *)
(***************************************************************************)
RES_SECTORS   == 1
NUM_FATS      == 2
MAX_CLUSTERS  == 65524
MAX_CLUS_SIZE == 32768

(* The smallest power of two of sectors with which 16-bit cluster numbers  *)
(* reach every sector; 0 when a cluster would exceed 32 KB.                *)
compute_secperclus(bytes, sectors) ==
    LET fits == {p \in {1, 2, 4, 8, 16, 32, 64} :
                    /\ MAX_CLUSTERS * p >= sectors - RES_SECTORS
                    /\ p = 1 \/ p * bytes <= MAX_CLUS_SIZE}
    IN IF fits = {} THEN 0 ELSE CHOOSE p \in fits : \A q \in fits : p <= q

FATSz16(sectors, spc) ==
    LET per == 256 * spc + NUM_FATS
    IN ((sectors - RES_SECTORS + per - 1) \div per) % 65536

FirstDataSector(sectors, spc) == RES_SECTORS + NUM_FATS * FATSz16(sectors, spc)
CountOfClusters(sectors, spc) ==
    ((sectors - FirstDataSector(sectors, spc)) \div spc) % 65536
FATSizeOf(sectors, spc) == (CountOfClusters(sectors, spc) + 2) % 65536
FAT_FSoC(sectors, spc, n) == (n - 2) * spc + FirstDataSector(sectors, spc)

FATSize  == FATSizeOf(Sectors, 1)
Reserved == 0 .. 1              \* the sectors FAT_FSoC gives them hold the two tables
Clusters == 2 .. FATSize - 1
RootClus == 2

(***************************************************************************)
(* Table entries.                                                          *)
(***************************************************************************)
FAT_EOC    == 65535
FAT_BAD    == 65527
FAT_UNUSED == 0
MARKED     == 65509   \* (uint16_t) DIR_ENTRY_FREE: what a cleared chain holds

FAT_cluster_isEOC(c)      == c >= 65528
FAT_cluster_isFREE(c)     == c = FAT_UNUSED
FAT_cluster_isReadable(c) == ~(FAT_cluster_isEOC(c) \/ c = FAT_BAD \/ FAT_cluster_isFREE(c))

FAT_get_cluster_from_table(v, n) == IF n < FATSize THEN v.fat[n] ELSE FAT_EOC

(* Clusters 0 and 1 and numbers outside the table are refused.             *)
Settable(n) == n \in Clusters
FAT_set_cluster_into_table(v, n, val) ==
    IF Settable(n) THEN [v EXCEPT !.fat[n] = val] ELSE v

(* The search starts at the last cluster it found and wraps around.        *)
Least(S) == CHOOSE n \in S : \A k \in S : n <= k
NextFrom(n, S) == Least(IF \E k \in S : k >= n THEN {k \in S : k >= n} ELSE S)
FAT_get_free_cluster_from_table(v) ==
    LET free == {n \in Clusters : FAT_cluster_isFREE(v.fat[n])}
    IN IF free = {} THEN FAT_UNUSED ELSE NextFrom(v.last, free)

Remembered(v, n, by) == IF n = FAT_UNUSED THEN v ELSE [v EXCEPT !.last = n + by]

(* Mistake: the next search starts after the cluster that was found.       *)
SearchedNext(v) == Remembered(v, FAT_get_free_cluster_from_table(v), 1)

(* lastFreeFATEntry follows a search that found a cluster.                 *)
Searched(v) == Remembered(v, FAT_get_free_cluster_from_table(v), 0)

(***************************************************************************)
(* Disk accesses.  The one that fails transfers nothing; after a crash no  *)
(* access happens.                                                         *)
(***************************************************************************)
NoFault == [kind |-> "none", at |-> 0]

Access(v) == [v EXCEPT !.acc = @ + 1]

(* Whether the access just counted was done.                               *)
Done(v) == CASE v.fault.kind = "none"  -> TRUE
             [] v.fault.kind = "fail"  -> v.acc # v.fault.at
             [] v.fault.kind = "crash" -> v.acc < v.fault.at

(* What a table is once a directory entry was written over its first 32    *)
(* bytes: numbers made of the characters of a name, all beyond the table.  *)
NameBytes   == 16705
Overwritten == [n \in 0 .. FATSize - 1 |-> NameBytes]

(* disk_read refuses sectors outside the disk and no other: the numbers 0  *)
(* and 1 reach the tables.                                                 *)
diskReadC(v, c) == Done(Access(v)) /\ c \in Reserved \cup Clusters
diskWriteC(v, c, content) ==
    LET a == Access(v)
        w == [a EXCEPT !.clus[c] = content]
    IN IF ~Done(a) THEN a ELSE IF c \in Reserved THEN [w EXCEPT !.copies[c + 1] = Overwritten] ELSE w

(* Flush the table in memory to each copy, one access each; the first      *)
(* failure ends the flush.  A table read as a directory is void: the first *)
(* byte of 65280 is that of an entry never used.                           *)
Blank == [kind |-> "blank"]
FAT_write_FAT_table(v) ==
    LET one(w, i) == LET a == Access(w)
                     IN IF Done(a) THEN [a EXCEPT !.copies[i] = a.fat, !.clus[i - 1] = Blank] ELSE a
        first == one(v, 1)
    IN IF Done(first) THEN one(first, 2) ELSE first

(***************************************************************************)
(* Directory entries.  DIR_Name[0] tells the two kinds of free entry from  *)
(* the names; the other bytes of a free entry are never read.              *)
(***************************************************************************)
CONSTANTS DIR_ENTRY_FREE,       \* a deleted entry
          DIR_ENTRY_LAST_FREE,  \* this entry and all that follow are free
          DotName, DotDotName, VolumeName

Entry(name, attr, clus, size) ==
    [name |-> name, attr |-> attr, clus |-> clus, size |-> size]
LastFree == Entry(DIR_ENTRY_LAST_FREE, {}, 0, 0)
Deleted  == Entry(DIR_ENTRY_FREE, {}, 0, 0)
Live(e)  == e.name \notin {DIR_ENTRY_FREE, DIR_ENTRY_LAST_FREE}

Zeroes   == [i \in 1 .. BytesPerCluster |-> "0"]
VoidDir  == [i \in 1 .. Entries |-> LastFree]
Dir(e)   == [kind |-> "dir", e |-> e]
Data(b)  == [kind |-> "data", b |-> b]

(* A byte stands for as many as an entry has.  Data read as a directory    *)
(* shows no name in use, and a zero byte is an entry never used.           *)
RawName   == "raw"
Raw(b)    == IF b = "0" THEN LastFree ELSE Entry(RawName, {b}, 0, 0)
ByteOf(e) == CASE e = LastFree -> "0"
               [] e.name = RawName -> CHOOSE b \in e.attr : TRUE
               [] OTHER -> "entry"
EntriesOf(content) ==
    CASE content.kind = "dir"  -> content.e
      [] content.kind = "data" -> [i \in 1 .. Entries |-> IF i > BytesPerCluster THEN LastFree ELSE Raw(content.b[i])]
      [] OTHER -> VoidDir
BytesOf(content) ==
    CASE content.kind = "dir"  -> [i \in 1 .. BytesPerCluster |-> ByteOf(content.e[i])]
      [] content.kind = "data" -> content.b
      [] OTHER -> Zeroes

(* Mistake: a deleted entry ends the search too.                           *)
SearchStopsAtFree(name, es) ==
    {i \in DOMAIN es : es[i].name = name /\ \A j \in 1 .. i - 1 : Live(es[j])}

(* FAT_search_loop stops at the first entry that was never used.           *)
FAT_search_loop(name, es) ==
    {i \in DOMAIN es : /\ es[i].name = name
                       /\ \A j \in 1 .. i - 1 : es[j].name # DIR_ENTRY_LAST_FREE}

FAT_search_free_loop(name, es) == {i \in DOMAIN es : ~Live(es[i])}

(* Read one cluster of a directory and take the first match; a failed read *)
(* is a miss.                                                              *)
Miss(v) == [v |-> v, found |-> FALSE]
Matches(fn, name, es) == IF fn = "name" THEN FAT_search_loop(name, es)
                                        ELSE FAT_search_free_loop(name, es)
FirstOf(v, c, hits) ==
    IF hits = {} THEN Miss(v)
    ELSE [v |-> v, found |-> TRUE, entry |-> EntriesOf(v.clus[c])[Least(hits)],
          sector |-> c, offset |-> Least(hits)]
FAT_dir_foreach(v, name, c, fn) ==
    FirstOf(Access(v), c, IF diskReadC(v, c) THEN Matches(fn, name, EntriesOf(v.clus[c])) ELSE {})

(* The same along a chain of clusters; a chain that is found leaves its    *)
(* place, one that ends leaves none.                                       *)
RECURSIVE SearchChain(_, _, _, _)
SearchChain(v, name, c, fn) ==
    IF FAT_cluster_isEOC(c) THEN Miss(v)
    ELSE LET r == FAT_dir_foreach(v, name, c, fn)
         IN IF r.found THEN r
            ELSE SearchChain(r.v, name, FAT_get_cluster_from_table(v, c), fn)

(* The names of a path from the root; every name but the last must be a    *)
(* directory's.                                                            *)
RECURSIVE Below(_, _)
Below(r, path) ==
    IF ~r.found \/ path = <<>> THEN r
    ELSE IF "dir" \notin r.entry.attr THEN Miss(r.v)
    ELSE Below(SearchChain(r.v, path[1], r.entry.clus, "name"), Tail(path))
SearchPath(v, c, path) == Below(SearchChain(v, path[1], c, "name"), Tail(path))

(* The result's container is the first cluster of the entry itself.        *)
HeldIn(r) == IF r.found THEN r @@ [container |-> r.entry.clus] ELSE r
FAT_search_DIR_entry(v, path) == HeldIn(SearchPath(v, RootClus, path))

(* Read the sector of an entry, replace the entry, write the sector.       *)
FAT_write_DIR_entry(v, r, e) ==
    LET a == Access(v)
    IN IF ~diskReadC(v, r.sector) THEN a
       ELSE diskWriteC(a, r.sector, Dir([EntriesOf(v.clus[r.sector]) EXCEPT ![r.offset] = e]))

(* Void: after '.' and '..' only deleted entries up to one never used.     *)
RECURSIVE VoidFrom(_, _, _)
VoidFrom(v, c, first) ==
    IF FAT_cluster_isEOC(c) THEN [v |-> v, ok |-> TRUE]
    ELSE LET es   == EntriesOf(v.clus[c])
             used == {i \in first .. Entries : es[i].name # DIR_ENTRY_FREE}
         IN IF ~diskReadC(v, c) THEN [v |-> Access(v), ok |-> FALSE]
            ELSE IF used # {}
                 THEN [v |-> Access(v), ok |-> es[Least(used)].name = DIR_ENTRY_LAST_FREE]
                 ELSE VoidFrom(Access(v), FAT_get_cluster_from_table(v, c), 1)
(* Mistake: three entries are skipped.                                     *)
VoidSkipsThree(v, e) == VoidFrom(v, e.clus, 4)
FAT_directory_is_void(v, e) == VoidFrom(v, e.clus, 3)

(***************************************************************************)
(* Chains.                                                                 *)
(***************************************************************************)
(* The cluster that holds byte offset of an entry's chain, or the table    *)
(* value that ends the walk.                                               *)
RECURSIVE Walk(_, _, _)
Walk(v, c, n) ==
    IF n = 0 THEN c
    ELSE LET next == FAT_get_cluster_from_table(v, c)
         IN IF FAT_cluster_isReadable(next) THEN Walk(v, next, n - 1) ELSE next
(* Mistake: a byte count is rounded up to clusters.                        *)
LookupRounded(v, e, offset) == Walk(v, e.clus, (offset + BytesPerCluster - 1) \div BytesPerCluster)
FAT_lookup_FAT_table(v, e, offset) == Walk(v, e.clus, offset \div BytesPerCluster)

RECURSIVE ClearFrom(_, _)
ClearFrom(v, n) ==
    IF FAT_cluster_isEOC(n) THEN [v |-> v, ok |-> TRUE]
    ELSE IF ~Settable(n) THEN [v |-> v, ok |-> FALSE]
    ELSE ClearFrom(FAT_set_cluster_into_table(v, n, MARKED),
                   FAT_get_cluster_from_table(v, n))

(* Mistake: only the first cluster of the chain.                           *)
ClearsFirstOnly(v, e) ==
    IF FAT_cluster_isFREE(e.clus) \/ (e.size = 0 /\ "dir" \notin e.attr)
    THEN [v |-> v, ok |-> TRUE]
    ELSE [v |-> FAT_set_cluster_into_table(v, e.clus, MARKED), ok |-> TRUE]

(* The clusters of a chain are marked in memory, with the byte that marks  *)
(* deleted directory entries and not with FAT_UNUSED.  The mark is a       *)
(* number beyond the table and no EOC: a chain is left after its last      *)
(* cluster only because reading beyond the table gives EOC.                *)
FAT_clear_cluster_chain(v, e) ==
    IF FAT_cluster_isFREE(e.clus) \/ (e.size = 0 /\ "dir" \notin e.attr)
    THEN [v |-> v, ok |-> TRUE]
    ELSE ClearFrom(v, e.clus)

RECURSIVE LastOf(_, _)
LastOf(v, c) == LET next == FAT_get_cluster_from_table(v, c)
                IN IF FAT_cluster_isEOC(next) THEN c ELSE LastOf(v, next)

(* A free cluster linked after the last one of the chain of cluster (0: a  *)
(* chain of its own).                                                      *)
Linked(v, cluster, last, new) ==
    IF new = FAT_UNUSED \/ (cluster # 0 /\ ~Settable(last))
    THEN [v |-> v, appended |-> -1, cluster |-> cluster]
    ELSE [v |-> FAT_set_cluster_into_table(
                    IF cluster = 0 THEN v ELSE FAT_set_cluster_into_table(v, last, new), new, FAT_EOC),
          appended |-> 1, cluster |-> new]
FAT_append_cluster_chain(v, cluster) ==
    Linked(Searched(v), cluster, LastOf(v, cluster), FAT_get_free_cluster_from_table(v))
=============================================================================
