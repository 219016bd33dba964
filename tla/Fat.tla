--------------------------------- MODULE Fat ---------------------------------
(***************************************************************************)
(* The calls of the FAT16.1 driver (src/fat/fat.c) as the menu of          *)
(* src/fat/main.c makes them: format, mount, unmount, create, link,        *)
(* attributes, rename, truncate, delete, read, write.  A call is one       *)
(* action; at most MaxFaults times the machine stops between two disk      *)
(* accesses of a call (FaultKinds = {"crash"}) or one access fails and the *)
(* call goes on as the code does ("fail").  After a stop only the disk is  *)
(* left and the volume is mounted again.                                   *)
(***************************************************************************)
EXTENDS FatVolume, FiniteSetsExt

CONSTANTS FilePaths, DirPaths, LinkPaths,  \* what may be created
          Targets,                         \* texts of link targets
          RenameTo,                        \* names entries may be renamed to
          AttrChoices,                     \* attribute sets to set
          Buffers, Offsets,                \* byte sequences to write, and where
          FaultKinds, MaxFaults, MaxAccess,
          MaxRenames, MaxCalls,            \* bounds on the renames and on the calls
          Garbage,                         \* values of a variable that was not assigned
          FormatMounted,                   \* whether format is asked of a mounted volume
          Untouched                        \* a byte of a caller's buffer that was not written

VARIABLES disk,     \* [copies, clus]
          vol,      \* [mounted, fat, last]
          ready,    \* the last format was complete
          faults,   \* faults so far
          renames,  \* renames so far
          calls,    \* calls so far
          files     \* the volume as a store of files (computed from the others)

vars == <<disk, vol, ready, faults, renames, calls, files>>

Paths == FilePaths \cup DirPaths \cup LinkPaths
Unmounted == [mounted |-> FALSE, fat |-> <<>>, last |-> 0]
AllPaths == Paths \cup {Append(Front(p), n) : p \in Paths, n \in RenameTo}

(***************************************************************************)
(* The calls.  Each returns the volume it leaves, and whether it succeeded.*)
(***************************************************************************)
Ret(v, ok) == [v |-> v, ok |-> ok]
Fail(v)    == Ret(v, FALSE)

(* A call that goes on only if its last step, an access or a call of its   *)
(* own, succeeded.                                                         *)
Written(v)    == Ret(v, Done(v))
Then(r, F(_)) == IF r.ok THEN F(r.v) ELSE Fail(r.v)

(* A call on an entry that is there and has none of the attributes.        *)
OnEntry(r, refused, F(_)) == IF ~r.found \/ r.entry.attr \cap refused # {} THEN Fail(r.v) ELSE F(r)

(* The first cluster of the directory a new entry goes to.                 *)
Container(v, path) ==
    IF Len(path) = 1 THEN [v |-> v, found |-> TRUE, container |-> RootClus]
    ELSE FAT_search_DIR_entry(v, Front(path))

(* The place of a new entry: the name must be new, and a directory whose   *)
(* entries are all taken is not extended, because the cluster the code     *)
(* links the new one to is the end-of-chain value it has just reached.     *)
Taken(free) == IF free.found THEN free ELSE Miss(Searched(free.v))
FreeUnless(dup, name, c) == IF dup.found THEN Miss(dup.v) ELSE Taken(SearchChain(dup.v, name, c, "free"))
PlaceIn(dir, name) ==
    IF ~dir.found THEN Miss(dir.v)
    ELSE FreeUnless(SearchChain(dir.v, name, dir.container, "name"), name, dir.container)
FreePlace(v, path) == PlaceIn(Container(v, path), Last(path))

(* The tail both creations share: store the contents of the first cluster, *)
(* n, mark it used, flush the table (its result is not looked at), write   *)
(* the entry.                                                              *)
CreateWithCluster(place, e, n, content) ==
    IF n = FAT_UNUSED THEN Fail(place.v)
    ELSE Then(Written(diskWriteC(Searched(place.v), n, content)), LAMBDA w :
           Written(FAT_write_DIR_entry(FAT_write_FAT_table(FAT_set_cluster_into_table(w, n, FAT_EOC)),
                                       place, [e EXCEPT !.clus = n])))

(* dotdot is the first cluster stored in '..': it comes from a variable    *)
(* the code has not assigned.                                              *)
NewDir(n, attr, dotdot) ==
    Dir([i \in 1 .. Entries |-> CASE i = 1 -> Entry(DotName, attr, n, 0)
                                  [] i = 2 -> Entry(DotDotName, attr, dotdot, 0)
                                  [] OTHER -> LastFree])
CreateAt(place, e, n, dotdot) ==
    IF ~place.found THEN Fail(place.v)
    ELSE IF "dir" \in e.attr THEN CreateWithCluster(place, e, n, NewDir(n, e.attr, dotdot))
    ELSE Written(FAT_write_DIR_entry(place.v, place, e))
FAT_create_entry(v, path, attr, dotdot) ==
    CreateAt(FreePlace(v, path), Entry(Last(path), attr, 0, 0), FAT_get_free_cluster_from_table(v), dotdot)

(* The text of the target is one unit of data, and the size of the link.   *)
LinkAt(place, e, n, target) ==
    IF ~place.found THEN Fail(place.v)
    ELSE CreateWithCluster(place, e, n, Data([Zeroes EXCEPT ![1] = target]))
FAT_create_link(v, path, target) ==
    LinkAt(FreePlace(v, path), Entry(Last(path), {"link"}, 0, 1), FAT_get_free_cluster_from_table(v), target)

FAT_modify_entry_attr(v, path, attr) ==
    OnEntry(FAT_search_DIR_entry(v, path), {"link", "vol"}, LAMBDA r :
        Written(FAT_write_DIR_entry(r.v, r, [r.entry EXCEPT !.attr = (@ \ {"ro", "hid", "sys"}) \cup attr])))

(* The new name is looked for in the clusters of the entry itself; those   *)
(* of a file hold no entry.                                                *)
RenameUnless(dup, r, name) ==
    IF dup.found THEN Fail(dup.v)
    ELSE Written(FAT_write_DIR_entry(dup.v, r, [r.entry EXCEPT !.name = name]))
FAT_rename_entry(v, path, name) ==
    OnEntry(FAT_search_DIR_entry(v, path), {"sys", "vol"}, LAMBDA r :
        RenameUnless(SearchChain(r.v, name, r.container, "name"), r, name))

(* The chain is cleared in memory first, then the entry is written, then   *)
(* the table.                                                              *)
FAT_truncate_entry(v, path) ==
    OnEntry(FAT_search_DIR_entry(v, path), {"ro", "sys", "dir", "vol"}, LAMBDA r :
        Then(FAT_clear_cluster_chain(r.v, r.entry), LAMBDA c :
        Then(Written(FAT_write_DIR_entry(c, r, [r.entry EXCEPT !.clus = 0, !.size = 0])), LAMBDA d :
        Written(FAT_write_FAT_table(d)))))

MayGo(r) == IF "dir" \in r.entry.attr THEN FAT_directory_is_void(r.v, r.entry) ELSE Ret(r.v, TRUE)

(* Mistake: the chain is cleared and the table written first.              *)
DeleteChainFirst(v, path) ==
    OnEntry(FAT_search_DIR_entry(v, path), {"ro", "sys", "vol"}, LAMBDA r :
        Then(MayGo(r), LAMBDA e :
        Written(FAT_write_DIR_entry(FAT_write_FAT_table(FAT_clear_cluster_chain(e, r.entry).v), r, Deleted))))

(* The entry is written first, then the chain cleared and the table        *)
(* written.                                                                *)
FAT_delete_entry(v, path) ==
    OnEntry(FAT_search_DIR_entry(v, path), {"ro", "sys", "vol"}, LAMBDA r :
        Then(MayGo(r), LAMBDA e :
        Then(Written(FAT_write_DIR_entry(e, r, Deleted)), LAMBDA d :
        Then(FAT_clear_cluster_chain(d, r.entry), LAMBDA c :
        Written(FAT_write_FAT_table(c))))))

(***************************************************************************)
(* FAT_write.  A write in progress is a record: the volume, the cluster    *)
(* and the file position reached, the bytes left, whether the last cluster *)
(* was appended, the entry as it will be written.                          *)
(***************************************************************************)
(* Mistake: the table is flushed only by a write that failed.              *)
UpdateEntryOnly(w, place) ==
    LET e == [w.entry EXCEPT !.size = IF w.pos > @ THEN w.pos ELSE @]
        t == IF w.appended < 0 THEN FAT_write_FAT_table(w.v) ELSE w.v
    IN FAT_write_DIR_entry(t, place, e)

FAT_write_update_on_disk(w, place) ==
    LET e == [w.entry EXCEPT !.size = IF w.pos > @ THEN w.pos ELSE @]
        t == IF w.appended # 0 THEN FAT_write_FAT_table(w.v) ELSE w.v
    IN FAT_write_DIR_entry(t, place, e)

FAT_write_get_first(v, e, pos) ==
    LET c == FAT_lookup_FAT_table(v, e, pos)
    IN IF FAT_cluster_isFREE(c) THEN FAT_append_cluster_chain(v, 0)
       ELSE IF FAT_cluster_isEOC(c) THEN FAT_append_cluster_chain(v, e.clus)
       ELSE [v |-> v, cluster |-> c, appended |-> IF c = FAT_BAD THEN -1 ELSE 0]

FAT_write_get_next(v, cluster) ==
    LET c == FAT_get_cluster_from_table(v, cluster)
    IN IF FAT_cluster_isEOC(c) THEN FAT_append_cluster_chain(v, cluster)
       ELSE [v |-> v, cluster |-> c,
             appended |-> IF FAT_cluster_isReadable(c) THEN 0 ELSE -1]

(* One cluster: a part of it is read, changed and written, a whole one is  *)
(* written.  The rest of a new cluster is cleared by the last part only.   *)
Advanced(w, n, d) ==
    IF Done(d) THEN [w EXCEPT !.v = d, !.pos = @ + n, !.rest = SubSeq(@, n + 1, Len(@)), !.ok = TRUE]
    ELSE [w EXCEPT !.v = d, !.ok = FALSE]
WriteCluster(w) ==
    LET off   == w.pos % BytesPerCluster
        n     == IF Len(w.rest) < BytesPerCluster - off THEN Len(w.rest) ELSE BytesPerCluster - off
        whole == off = 0 /\ n = BytesPerCluster
        a     == IF whole THEN w.v ELSE Access(w.v)
        old   == IF off = 0 /\ w.appended # 0 THEN Zeroes ELSE BytesOf(w.v.clus[w.cluster])
        new   == [i \in 1 .. BytesPerCluster |->
                     IF i > off /\ i <= off + n THEN w.rest[i - off] ELSE old[i]]
    IN Advanced(w, n, IF whole \/ diskReadC(w.v, w.cluster)
                      THEN diskWriteC(a, w.cluster, Data(new)) ELSE a)

(* A failure in the first, unaligned part leaves at once; any other end    *)
(* stores the size and the table.                                          *)
Ends(w, place, ok) == Ret(FAT_write_update_on_disk(w, place), ok)
NextCluster(s, next) == [s EXCEPT !.v = next.v, !.appended = next.appended, !.cluster = next.cluster]

RECURSIVE AfterCluster(_, _, _)
GoesOn(n, place) ==
    IF n.appended < 0 THEN Ends(n, place, FALSE) ELSE AfterCluster(WriteCluster(n), n.pos, place)
AfterCluster(s, from, place) ==
    IF ~s.ok THEN IF from % BytesPerCluster # 0 THEN Fail(s.v) ELSE Ends(s, place, FALSE)
    ELSE IF s.rest = <<>> THEN Ends(s, place, TRUE)
    ELSE GoesOn(NextCluster(s, FAT_write_get_next(s.v, s.cluster)), place)
WriteLoop(w, place) == AfterCluster(WriteCluster(w), w.pos, place)

(* The entry gets the cluster that was appended to a file without any.     *)
WriteFrom(r, f, offset, buf) ==
    IF f.appended < 0 THEN Fail(f.v)
    ELSE WriteLoop([v |-> f.v, cluster |-> f.cluster, pos |-> offset, rest |-> buf,
                    appended |-> f.appended, ok |-> TRUE,
                    entry |-> IF f.appended > 0 /\ offset < BytesPerCluster
                              THEN [r.entry EXCEPT !.clus = f.cluster] ELSE r.entry], r)
FAT_write(v, path, offset, buf) ==
    OnEntry(FAT_search_DIR_entry(v, path), {"dir", "ro", "link", "vol"}, LAMBDA r :
        IF r.entry.size < offset THEN Fail(r.v)
        ELSE WriteFrom(r, FAT_write_get_first(r.v, r.entry, offset), offset, buf))

(***************************************************************************)
(* FAT_read.  to is the caller's buffer, at the place in it that is filled *)
(* next, got the bytes counted in readlen.                                 *)
(***************************************************************************)
Copy(r, bytes, n) ==
    [r EXCEPT !.to = [i \in DOMAIN @ |-> IF i > r.at /\ i <= r.at + n THEN bytes[i - r.at] ELSE @[i]],
              !.got = @ + n, !.left = @ - n]

(* The first, unaligned part: the buffer is advanced by a length that is   *)
(* computed again from the bytes left, after they were reduced.            *)
ReadFirst(r) ==
    LET off  == r.pos % BytesPerCluster
        room == BytesPerCluster - off
        Lesser(a, b) == IF a < b THEN a ELSE b
        c    == Copy([r EXCEPT !.v = Access(@)],
                     SubSeq(BytesOf(r.v.clus[r.cluster]), off + 1, BytesPerCluster), Lesser(r.left, room))
    IN IF off = 0 THEN r
       ELSE IF ~diskReadC(r.v, r.cluster) THEN [r EXCEPT !.v = Access(@), !.ok = FALSE, !.left = 0]
       ELSE [c EXCEPT !.at = @ + Lesser(c.left, room),
                      !.cluster = FAT_get_cluster_from_table(r.v, @)]

RECURSIVE ReadLoop(_)
ReadLoop(r) ==
    LET n == IF r.left < BytesPerCluster THEN r.left ELSE BytesPerCluster
        c == Copy([r EXCEPT !.v = Access(@)], BytesOf(r.v.clus[r.cluster]), n)
    IN IF r.left = 0 THEN r
       ELSE IF ~FAT_cluster_isReadable(r.cluster) THEN [r EXCEPT !.ok = FAT_cluster_isEOC(r.cluster)]
       ELSE IF ~diskReadC(r.v, r.cluster) THEN [r EXCEPT !.v = Access(@), !.ok = FALSE]
       ELSE ReadLoop([c EXCEPT !.at = @ + n, !.cluster = FAT_get_cluster_from_table(r.v, @)])

(* The entry is written back with its new access time before any data is   *)
(* read.                                                                   *)
Stop(v, ok, buflen) == [v |-> v, ok |-> ok, to |-> [i \in 1 .. buflen |-> Untouched], got |-> 0,
                        at |-> 0, left |-> 0, pos |-> 0, cluster |-> 0]
ReadFrom(d, e, c, offset, buflen) ==
    IF ~Done(d) THEN Stop(d, FALSE, buflen)
    ELSE ReadLoop(ReadFirst([Stop(d, TRUE, buflen) EXCEPT
             !.left = IF e.size - offset < buflen THEN e.size - offset ELSE buflen,
             !.pos = offset, !.cluster = c]))
ReadAt(r, c, offset, buflen) ==
    IF ~r.found THEN Stop(r.v, FALSE, buflen)
    ELSE IF r.entry.attr \cap {"dir", "vol"} # {} THEN Stop(r.v, FALSE, buflen)
    ELSE IF r.entry.size <= offset THEN Stop(r.v, TRUE, buflen)
    ELSE IF ~FAT_cluster_isReadable(c) THEN Stop(r.v, FALSE, buflen)
    ELSE ReadFrom(FAT_write_DIR_entry(r.v, r, r.entry), r.entry, c, offset, buflen)
ReadOf(r, offset, buflen) == ReadAt(r, FAT_lookup_FAT_table(r.v, r.entry, offset), offset, buflen)
FAT_read(v, path, offset, buflen) == ReadOf(FAT_search_DIR_entry(v, path), offset, buflen)

(* Counts of one cluster's entries, up to the first never used.  A link    *)
(* counts as a file too.                                                   *)
Counted(es, seen) ==
    LET Of(P(_)) == Cardinality({i \in seen : P(es[i])})
    IN [totavail |-> Of(LAMBDA e : ~Live(e)),
        totlinks |-> Of(LAMBDA e : Live(e) /\ "link" \in e.attr),
        totdirs  |-> Of(LAMBDA e : Live(e) /\ "dir" \in e.attr),
        totfiles |-> Of(LAMBDA e : Live(e) /\ "dir" \notin e.attr)]

(* Mistake: a deleted entry ends the count.                                *)
CountStopsAtFree(es) == Counted(es, {i \in DOMAIN es : \A j \in 1 .. i : Live(es[j])})
FAT_update_statistics(es) ==
    Counted(es, {i \in DOMAIN es : \A j \in 1 .. i : es[j].name # DIR_ENTRY_LAST_FREE})

(* FAT_list counts the first cluster of the root and all those of any      *)
(* other directory.                                                        *)
RECURSIVE ListFrom(_, _)
ListFrom(v, c) ==
    IF FAT_cluster_isEOC(c) THEN {}
    ELSE {<<c, FAT_update_statistics(EntriesOf(v.clus[c]))>>}
         \cup ListFrom(v, FAT_get_cluster_from_table(v, c))
ListOf(v, r) == IF r.found THEN ListFrom(v, r.entry.clus) ELSE {}
FAT_list(v, path) ==
    IF path = <<>> THEN {<<RootClus, FAT_update_statistics(EntriesOf(v.clus[RootClus]))>>}
    ELSE ListOf(v, FAT_search_DIR_entry(v, path))
FAT_available(v) == Cardinality({n \in Clusters : FAT_cluster_isFREE(v.fat[n])})

(* Fresh tables, a root directory that holds the volume's name, and blank  *)
(* clusters, in this order; the first failing write ends it.               *)
FreshTable == [n \in 0 .. FATSize - 1 |->
                  CASE n = 0 -> 65280 [] n \in {1, RootClus} -> FAT_EOC [] OTHER -> FAT_UNUSED]
RootDir    == Dir([VoidDir EXCEPT ![1] = Entry(VolumeName, {"vol"}, 0, 0)])

RECURSIVE Blanked(_, _)
Blanked(v, c) == LET w == diskWriteC(v, c, Blank)
                 IN IF c \notin Clusters THEN v ELSE IF ~Done(w) THEN w ELSE Blanked(w, c + 1)

FAT_format(v) ==
    Then(Written(Access(v)), LAMBDA pb :
    Then(Written(FAT_write_FAT_table([pb EXCEPT !.fat = FreshTable])), LAMBDA t :
    Then(Written(diskWriteC(t, RootClus, RootDir)), LAMBDA r :
    Written(Blanked(r, RootClus + 1)))))

(* The boot sector and the first table are read.                           *)
FAT_mount(v) ==
    Then(Written(Access(v)), LAMBDA pb :
    Then(Written(Access(pb)), LAMBDA t : Ret([t EXCEPT !.fat = v.copies[1], !.last = 2], TRUE)))

(* The flush may fail: the volume is unmounted all the same.               *)
FAT_unmount(v) == Ret(FAT_write_FAT_table(v), TRUE)

(***************************************************************************)
(* The volume as a store of files, read with table T from clusters K.      *)
(***************************************************************************)

(* The clusters of a chain, cut where the table does not lead on.          *)
RECURSIVE ChainOf(_, _, _)
ChainOf(T, c, n) == IF n = 0 \/ c \notin Clusters THEN <<>>
                    ELSE <<c>> \o ChainOf(T, T[c], n - 1)
Chain(T, c) == ChainOf(T, c, Cardinality(Clusters) + 1)

Listed(T, K, c) == LET es(i) == EntriesOf(K[Chain(T, c)[i]])
                IN {e \in UNION {{es(i)[k] : k \in 1 .. Entries} : i \in DOMAIN Chain(T, c)} :
                       Live(e) /\ e.name \notin {DotName, DotDotName} /\ "vol" \notin e.attr}

RootEntries(T, K) == Listed(T, K, RootClus)
SubEntries(T, K)  == UNION {{<<d, e>> : e \in Listed(T, K, d.clus)} :
                            d \in {d \in RootEntries(T, K) : "dir" \in d.attr}}
LiveEntries(T, K) == RootEntries(T, K) \cup {x[2] : x \in SubEntries(T, K)}

DataOf(T, K, e) ==
    LET all == FlattenSeq([i \in DOMAIN Chain(T, e.clus) |-> BytesOf(K[Chain(T, e.clus)[i]])])
    IN SubSeq(all, 1, IF e.size < Len(all) THEN e.size ELSE Len(all))

FileOf(T, K, e) == [attr |-> e.attr, data |-> IF "dir" \in e.attr THEN <<>> ELSE DataOf(T, K, e)]
FilesOf(T, K) ==
    LET root == {<<<<e.name>>, FileOf(T, K, e)>> : e \in RootEntries(T, K)}
        sub  == {<<<<x[1].name, x[2].name>>, FileOf(T, K, x[2])>> : x \in SubEntries(T, K)}
        all  == root \cup sub
    IN [p \in {x[1] : x \in all} |-> (CHOOSE x \in all : x[1] = p)[2]]
NoFiles == [p \in {} |-> <<>>]

(***************************************************************************)
(* The menu.                                                               *)
(***************************************************************************)
Faults == {NoFault} \cup (IF faults < MaxFaults
                          THEN [kind : FaultKinds, at : 1 .. MaxAccess] ELSE {})

Volume(f) == [fat |-> vol.fat, last |-> vol.last, copies |-> disk.copies,
              clus |-> disk.clus, acc |-> 0, fault |-> f]

(* What a call leaves.  A fault that the call ends before is no fault.     *)
Leaves(f, r) ==
    /\ f.kind = "none" \/ r.v.acc >= f.at
    /\ disk' = [copies |-> r.v.copies, clus |-> r.v.clus]
    /\ faults' = IF f.kind = "none" THEN faults ELSE faults + 1

(* The table that counts: the one in memory while the volume is mounted,   *)
(* the first one on disk otherwise.                                        *)
Table == IF vol.mounted THEN vol.fat ELSE disk.copies[1]

Seen == files' = IF ready' THEN FilesOf(Table', disk.clus') ELSE NoFiles

Call(Op(_)) ==
    /\ vol.mounted
    /\ calls < MaxCalls /\ calls' = calls + 1
    /\ \E f \in Faults :
         LET r == Op(Volume(f))
         IN /\ Leaves(f, r)
            /\ vol' = IF f.kind = "crash" THEN Unmounted
                      ELSE [vol EXCEPT !.fat = r.v.fat, !.last = r.v.last]
    /\ UNCHANGED ready /\ Seen

Blank0 == [copies |-> <<FreshTable, FreshTable>>, clus |-> [c \in Reserved \cup Clusters |-> Blank]]

Init ==
    /\ disk = Blank0 /\ vol = Unmounted /\ ready = FALSE
    /\ faults = 0 /\ renames = 0 /\ calls = 0 /\ files = NoFiles

do_format ==
    /\ ~vol.mounted \/ FormatMounted
    /\ \E f \in Faults :
         LET r == FAT_format(Volume(f))
         IN /\ Leaves(f, r)
            /\ ready' = r.ok
            /\ vol' = IF f.kind = "crash" THEN Unmounted ELSE vol
    /\ UNCHANGED <<renames, calls>> /\ Seen

(* An interrupted format is repeated before the volume is mounted.         *)
do_mount ==
    /\ ~vol.mounted /\ ready
    /\ \E f \in Faults :
         LET r == FAT_mount(Volume(f))
         IN /\ Leaves(f, r)
            /\ vol' = IF r.ok THEN [mounted |-> TRUE, fat |-> r.v.fat, last |-> r.v.last] ELSE vol
    /\ UNCHANGED <<ready, renames, calls>> /\ Seen

do_unmount ==
    /\ vol.mounted
    /\ \E f \in Faults : Leaves(f, FAT_unmount(Volume(f)))
    /\ vol' = Unmounted
    /\ UNCHANGED <<ready, renames, calls>> /\ Seen

do_create ==
    \E p \in FilePaths :
        Call(LAMBDA v : FAT_create_entry(v, p, {}, 0)) /\ UNCHANGED renames
do_create_dir ==
    \E p \in DirPaths, g \in Garbage :
        Call(LAMBDA v : FAT_create_entry(v, p, {"dir"}, g)) /\ UNCHANGED renames
CreateLink ==
    \E p \in LinkPaths, q \in Targets :
        Call(LAMBDA v : FAT_create_link(v, p, q)) /\ UNCHANGED renames
ModifyAttr ==
    \E p \in AllPaths, a \in AttrChoices :
        Call(LAMBDA v : FAT_modify_entry_attr(v, p, a)) /\ UNCHANGED renames
do_rename ==
    \E p \in AllPaths, n \in RenameTo :
        /\ renames < MaxRenames /\ renames' = renames + 1
        /\ Call(LAMBDA v : FAT_rename_entry(v, p, n))
do_truncate ==
    \E p \in AllPaths : Call(LAMBDA v : FAT_truncate_entry(v, p)) /\ UNCHANGED renames
do_delete ==
    \E p \in AllPaths : Call(LAMBDA v : FAT_delete_entry(v, p)) /\ UNCHANGED renames
do_write ==
    \E p \in AllPaths, b \in Buffers, o \in Offsets :
        Call(LAMBDA v : FAT_write(v, p, o, b)) /\ UNCHANGED renames
do_read ==
    \E p \in AllPaths, o \in Offsets :
        Call(LAMBDA v : FAT_read(v, p, o, BytesPerCluster)) /\ UNCHANGED renames

Next == \/ do_format \/ do_mount \/ do_unmount \/ do_create \/ do_create_dir
        \/ CreateLink \/ ModifyAttr \/ do_rename \/ do_truncate \/ do_delete
        \/ do_write \/ do_read

Spec == Init /\ [][Next]_vars

(***************************************************************************)
(* Properties.                                                             *)
(***************************************************************************)
FatTypeOK ==
    /\ \A i \in {1, 2}, n \in Clusters : disk.copies[i][n] \in Clusters \cup {FAT_UNUSED, FAT_EOC, MARKED}
    /\ vol.mounted => vol.fat[0] = 65280 /\ vol.last \in Clusters
    /\ \A c \in Clusters : disk.clus[c].kind = "dir" =>
         \A i \in 1 .. Entries : disk.clus[c].e[i].clus \in 0 .. FATSize

(* Crash safety of the volume (FAT_write_update_on_disk, FAT_delete_entry, *)
(* FAT_truncate_entry, FAT_create_entry order their writes): whatever call *)
(* was cut wherever, on the disk no cluster is in two chains and none is   *)
(* visited twice, and the chain of every entry ends at an end mark and     *)
(* holds at least the entry's size.                                        *)
DiskSound ==
    ready =>
      LET T == disk.copies[1]
          used == {e \in LiveEntries(T, disk.clus) : e.clus # 0}
      IN /\ \A e \in used : LET ch == Chain(T, e.clus)
                            IN /\ ch # <<>> /\ IsInjective(ch) /\ FAT_cluster_isEOC(T[ch[Len(ch)]])
                               /\ e.size <= Len(ch) * BytesPerCluster
         /\ \A e, f \in used : e # f =>
              Range(Chain(T, e.clus)) \cap Range(Chain(T, f.clus)) = {}
         /\ \A e \in LiveEntries(T, disk.clus) : e.clus = 0 => e.size = 0 /\ "dir" \notin e.attr

(* Every call that returns has written to the disk the table it changed in *)
(* memory (FAT_write_FAT_table at the end of the calls): a machine that    *)
(* stops between two calls loses nothing.                                  *)
TableFlushed == vol.mounted /\ ready => disk.copies[1] = vol.fat

(* Nothing is lost while no access fails: a cluster that is neither free   *)
(* nor left marked by a deletion is in the chain of an entry or the root's.*)
NoneLost ==
    vol.mounted /\ faults = 0 =>
        \A n \in Clusters \ {RootClus} : vol.fat[n] \notin {FAT_UNUSED, MARKED} =>
            \E e \in LiveEntries(vol.fat, disk.clus) : n \in Range(Chain(vol.fat, e.clus))

(* FAT_list counts what the directory holds, deleted entries between them  *)
(* or not; the root also holds the volume's name, another directory its    *)
(* two dot entries.                                                        *)
ListCounts ==
    vol.mounted => \A d \in {<<>>} \cup {p \in DOMAIN files : "dir" \in files[p].attr} :
        LET below == {p \in DOMAIN files : Len(p) = Len(d) + 1 /\ IsPrefix(d, p)}
            l     == FAT_list(Volume(NoFault), d)
        IN FoldSet(LAMBDA x, n : n + x[2].totdirs + x[2].totfiles, 0, l)
             = Cardinality(below) + (IF d = <<>> THEN 1 ELSE 2)

(* No directory holds two entries of one name (FreePlace's first search).  *)
NamesUnique ==
    ready => \A c \in {RootClus} \cup {e.clus : e \in {d \in RootEntries(Table, disk.clus) : "dir" \in d.attr}} :
        \A i, j \in 1 .. Entries :
            LET es == EntriesOf(disk.clus[c])
            IN Live(es[i]) /\ i # j => es[i].name # es[j].name

(* FAT_read gives the caller the bytes of the file, in their place, and    *)
(* counts them, when it starts on a cluster or ends in the cluster it      *)
(* started in.                                                             *)
ReadExactIf(Cond(_, _)) ==
    vol.mounted => \A p \in DOMAIN files, o \in Offsets, n \in 1 .. 2 * BytesPerCluster :
        LET data == files[p].data
            len  == IF o >= Len(data) THEN 0 ELSE IF Len(data) - o < n THEN Len(data) - o ELSE n
            r    == FAT_read(Volume(NoFault), p, o, n)
        IN "dir" \notin files[p].attr /\ Cond(o, n) =>
             /\ r.ok /\ r.got = len
             /\ \A i \in 1 .. n : r.to[i] = IF i <= len THEN data[o + i] ELSE Untouched
ReadExact == ReadExactIf(LAMBDA o, n : o % BytesPerCluster = 0
                                       \/ (o % BytesPerCluster) + n <= BytesPerCluster)
ReadAnywhere == ReadExactIf(LAMBDA o, n : TRUE)

(* A volume is a store of files: every call, cut or not, is one operation  *)
(* of FileStore or none, and changes no file but its own.                  *)
Store == INSTANCE FileStore WITH Paths <- AllPaths, Names <- RenameTo, AttrSets <- {{}, {"dir"}}
StoreImplemented == Store!FsSpec

(* The clusters of deleted and truncated files are free again ("releases   *)
(* the clusters to the file system", fat.h).                               *)
SpaceReturned == vol.mounted => \A n \in Clusters : vol.fat[n] # MARKED

(* Whatever calls were made and wherever the machine stopped: chains are   *)
(* disjoint and end, entries start at clusters that are in use, the copy   *)
(* of the table on the disk is the one in memory between calls, and every  *)
(* cluster in use belongs to an entry.                                     *)
VolumeSound ==
    /\ FatTypeOK
    /\ DiskSound
    /\ TableFlushed
    /\ NoneLost

(* A directory whose entries come and go: no name appears twice, and a     *)
(* listing counts every entry, those behind holes too.                     *)
EntriesSound ==
    /\ NamesUnique
    /\ ListCounts

(***************************************************************************)
(* An instance for TLC: a file and a directory in the root, a file or a    *)
(* link below the directory.                                               *)
(***************************************************************************)
CfgFiles == {<<"A">>, <<"D", "A">>}
CfgDirs  == {<<"D">>}
CfgBelow == {<<"A">>, <<"A", "B">>, <<"D", "A">>}
CfgDots  == {<<"A">>, <<"D", ".">>}
CfgLinks == {<<"L">>}
CfgAttrs == {{}, {"ro"}}
CfgBuffers == {<<"y", "y", "y", "y">>, <<"z", "z", "z">>}

=============================================================================
