------------------------------ MODULE FileStore ------------------------------
(***************************************************************************)
(* What a FAT volume promises its callers, without clusters or tables: a   *)
(* store of named files.  A path is a sequence of names.  A write that     *)
(* does not complete (no space, or the machine stops) has stored a prefix  *)
(* of its bytes, or only those of them that were inside the file; every    *)
(* other operation happens completely or not at all.                       *)
(***************************************************************************)
EXTENDS Integers, Sequences, SequencesExt

CONSTANTS Paths,    \* the paths in use
          Names,    \* names an entry may be renamed to
          AttrSets, \* sets of attributes
          Targets,  \* what links hold
          Buffers   \* what can be written

VARIABLE files      \* the entries: a function from paths to attributes and data

NoFiles == [p \in {} |-> <<>>]
Without(f, ps) == [p \in DOMAIN f \ ps |-> f[p]]
With(f, p, x)  == [q \in DOMAIN f \cup {p} |-> IF q = p THEN x ELSE f[q]]

IsDir(p) == p \in DOMAIN files /\ "dir" \in files[p].attr
Below(p) == {q \in DOMAIN files : Len(q) > Len(p) /\ IsPrefix(p, q)}

(* data with buf stored at offset *)
Overlay(data, offset, buf) ==
    [i \in 1 .. (IF offset + Len(buf) > Len(data) THEN offset + Len(buf) ELSE Len(data)) |->
        IF i > offset /\ i <= offset + Len(buf) THEN buf[i - offset] ELSE data[i]]

Format == files' = NoFiles

(* A new file or directory is empty; a new link holds its target's path.   *)
Create(p, attr, data) ==
    /\ p \notin DOMAIN files
    /\ Len(p) = 1 \/ IsDir(Front(p))
    /\ files' = With(files, p, [attr |-> attr, data |-> data])

SetAttr(p, attr) ==
    /\ p \in DOMAIN files
    /\ files' = [files EXCEPT ![p].attr = (@ \ {"ro", "hid", "sys"}) \cup attr]

Rename(p, n) ==
    LET to(q) == IF IsPrefix(p, q) THEN Append(Front(p), n) \o SubSeq(q, Len(p) + 1, Len(q)) ELSE q
        all   == DOMAIN files
    IN /\ p \in all
       /\ files' = [q \in {to(r) : r \in all} |-> files[CHOOSE r \in all : to(r) = q]]

Truncate(p) == /\ p \in DOMAIN files /\ ~IsDir(p)
               /\ files' = [files EXCEPT ![p].data = <<>>]

Delete(p) == /\ p \in DOMAIN files /\ Below(p) = {}
             /\ files' = Without(files, {p})

Write(p, offset, buf) ==
    /\ p \in DOMAIN files /\ ~IsDir(p) /\ offset <= Len(files[p].data)
    /\ \E k \in 1 .. Len(buf) :
         LET new == Overlay(files[p].data, offset, SubSeq(buf, 1, k))
         IN files' \in {[files EXCEPT ![p].data = new],
                        [files EXCEPT ![p].data = SubSeq(new, 1, Len(@))]}

FsInit == files = NoFiles

FsNext ==
    \/ Format
    \/ \E p \in Paths :
         \/ \E a \in AttrSets : Create(p, a, <<>>)
         \/ \E q \in Targets : Create(p, {"link"}, <<q>>)
         \/ \E a \in SUBSET {"ro", "hid", "sys"} : SetAttr(p, a)
         \/ \E n \in Names : Rename(p, n)
         \/ Truncate(p)
         \/ Delete(p)
         \/ \E b \in Buffers, o \in 0 .. (IF p \in DOMAIN files THEN Len(files[p].data) ELSE 0) :
              Write(p, o, b)

FsSpec == FsInit /\ [][FsNext]_files
=============================================================================
