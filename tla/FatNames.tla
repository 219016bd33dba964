------------------------------ MODULE FatNames -------------------------------
(***************************************************************************)
(* The paths of the FAT file system (fat/fat_names.c): a path is cut into  *)
(* the names of its directories, each in upper case; the name to create    *)
(* is what follows the last separator.  A path is a sequence of            *)
(* characters: the separator, a letter in either case and one that names   *)
(* may not hold.                                                           *)
(***************************************************************************)
EXTENDS Integers, Sequences, FiniteSets

CONSTANTS
    DIR_NAMELEN,        \* the longest name
    MaxPath,            \* the longest path
    OnlyBesides         \* whether a path is only made relative to one that parts from it after a separator

ASSUME NamesAssumption == DIR_NAMELEN \in Nat \ {0} /\ MaxPath \in Nat /\ OnlyBesides \in BOOLEAN

VARIABLES
    path,               \* the path being cut
    cut                 \* [at, names, result]: FAT_parse_directory

nameVars == <<path, cut>>

Sep == "sep"
PathChars == {Sep, "a", "A", "*"}
Illegal(c) == c = "*"
toupper(c) == IF c = "a" THEN "A" ELSE c

(* The name, or no name: too long, or of a character it may not hold.      *)
NoName == <<Sep>>
BuildsAsGiven(name) ==
    IF Len(name) > DIR_NAMELEN \/ \E i \in DOMAIN name : Illegal(name[i]) THEN NoName ELSE name
FAT_build_DIR_name(name) ==
    IF Len(name) > DIR_NAMELEN \/ \E i \in DOMAIN name : Illegal(name[i]) THEN NoName
    ELSE [i \in DOMAIN name |-> toupper(name[i])]

(* The first place from `from` on that is, or is not, a separator.         *)
First(from, P(_)) ==
    CHOOSE i \in from .. Len(path) + 1 :
        /\ i <= Len(path) => P(path[i])
        /\ \A j \in from .. i - 1 : ~P(path[j])

(***************************************************************************)
(* One name of the path a step.                                            *)
(***************************************************************************)
FAT_parse_directory ==
    /\ cut.result = "running"
    /\ LET start == First(cut.at, LAMBDA c : c # Sep)
           end   == First(start + 1, LAMBDA c : c = Sep)
           name  == FAT_build_DIR_name(SubSeq(path, start, end - 1))
       IN  cut' = IF start > Len(path) THEN [cut EXCEPT !.result = "done"]
                  ELSE IF name = NoName THEN [cut EXCEPT !.result = "failed", !.names = <<>>]
                  ELSE [cut EXCEPT !.at = end + 1, !.names = Append(@, name),
                                   !.result = IF end < Len(path) THEN @ ELSE "done"]
    /\ UNCHANGED path

(* The place of the last separator, counted from zero; zero without one.   *)
LastFirst(p) ==
    LET seps == {i \in DOMAIN p : p[i] = Sep}
    IN  IF seps = {} THEN 0 ELSE (CHOOSE i \in seps : \A j \in seps : j >= i) - 1
FAT_parse_directory_last(p) ==
    LET seps == {i \in DOMAIN p : p[i] = Sep}
    IN  IF seps = {} THEN 0 ELSE (CHOOSE i \in seps : \A j \in seps : j <= i) - 1

(***************************************************************************)
(* What the names should be: the runs of characters between separators.    *)
(***************************************************************************)
Starts(p) == {i \in DOMAIN p : p[i] # Sep /\ (i = 1 \/ p[i - 1] = Sep)}
NameAt(p, i) ==
    LET ends == {j \in i .. Len(p) : j = Len(p) \/ p[j + 1] = Sep}
    IN  [k \in 1 .. (CHOOSE j \in ends : \A m \in ends : j <= m) - i + 1 |-> toupper(p[i + k - 1])]
Names(p) ==
    [n \in 1 .. Cardinality(Starts(p)) |->
        NameAt(p, CHOOSE i \in Starts(p) : Cardinality({j \in Starts(p) : j <= i}) = n)]
Legal(name) == Len(name) <= DIR_NAMELEN /\ \A i \in DOMAIN name : ~Illegal(name[i])

(***************************************************************************)
(* A path made relative to another: a step back for each name left of the  *)
(* other after the part they share, then the rest of the path.  ".." is a  *)
(* name of its own.                                                        *)
(***************************************************************************)
Rest(p, n) == SubSeq(p, n + 1, Len(p))
Shared(p, q) ==
    CHOOSE n \in 0 .. Len(p) :
        /\ n <= Len(q) /\ \A i \in 1 .. n : p[i] = q[i]
        /\ n = Len(p) \/ n = Len(q) \/ p[n + 1] # q[n + 1]

BackOneMore(p, q) == Len(Names(Rest(q, Shared(p, q)))) + 1
StepsBack(p, q) == Len(Names(Rest(q, Shared(p, q))))
FAT_make_path_relative(p, q) ==
    [i \in 1 .. StepsBack(p, q) |-> <<"..">>] \o Names(Rest(p, Shared(p, q)))

(* Where a path of names leads from a directory.                           *)
Leads(from, names) ==
    LET back == Cardinality({i \in DOMAIN names : names[i] = <<"..">>})
    IN  SubSeq(from, 1, Len(from) - back) \o SubSeq(names, back + 1, Len(names))

PathsUpTo(length) == UNION {[1 .. n -> PathChars] : n \in 0 .. length}
NamesInit ==
    /\ path \in PathsUpTo(MaxPath)
    /\ cut = [at |-> 1, names |-> <<>>, result |-> IF path = <<>> THEN "done" ELSE "running"]

(***************************************************************************)
(* Properties                                                              *)
(***************************************************************************)

(* FAT_parse_directory finds the names of the path, in order and in upper  *)
(* case, wherever and however many its separators are, and fails exactly   *)
(* when one of them is no legal name.                                      *)
SplitExact ==
    /\ cut.result = "done" => cut.names = Names(path)
    /\ cut.result # "running" =>
         (cut.result = "failed") = (\E i \in DOMAIN Names(path) : ~Legal(Names(path)[i]))

(* The directory and the name FAT_create_entry makes of a path are the     *)
(* names a search of the whole path looks for, if the path does not end    *)
(* with a separator.                                                       *)
CreatedIsFoundBy(p) ==
    LET pos == FAT_parse_directory_last(p)
    IN  Names(SubSeq(p, 1, pos)) \o <<FAT_build_DIR_name(Rest(p, pos + 1))>> = Names(p)
CreatedSearched ==
    (Len(path) > 1 /\ path[1] = Sep /\ path[Len(path)] # Sep /\ cut.result = "done") => CreatedIsFoundBy(path)

(* From the directory it is relative to, a relative path leads where the   *)
(* path does.                                                              *)
Parts(p, q) ==
    LET n == Shared(p, q)
    IN  n >= 1 /\ p[n] = Sep /\ n < Len(p) /\ n < Len(q) /\ p[n + 1] # Sep /\ q[n + 1] # Sep
RelativeLeads ==
    (path # <<>> /\ cut.result = "done") =>
        \A q \in PathsUpTo(3) :
            (\A i \in DOMAIN Names(q) : Legal(Names(q)[i]))
            /\ (IF OnlyBesides THEN Parts(path, q) ELSE Shared(path, q) < Len(path))
               => Leads(Names(q), FAT_make_path_relative(path, q)) = Names(path)

(* A path that ends with a separator, too.                                 *)
CreatedAlways == (Len(path) > 1 /\ path[1] = Sep /\ cut.result = "done") => CreatedIsFoundBy(path)
=============================================================================
