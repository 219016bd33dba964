----------------------------- MODULE Formatting -----------------------------
(***************************************************************************)
(* Characters, numbers and arrays in the C library: the classes of         *)
(* ctype.h, strtol.c, qsort.c and bsearch.c; then formatted output and     *)
(* input: formatted_printf of libs/libc/stdio/doprnt.c, its twin kvprintf  *)
(* of kernel/kprintf.c, and formatted_scan of doscan.c.  Text is a         *)
(* sequence of ASCII codes.  A format is a sequence of directives already  *)
(* taken apart: the syntax of a directive is left out, the effect of its   *)
(* parts is kept.  The widths of the types are parameters, the limits the  *)
(* code writes as numbers follow from them.                                *)
(***************************************************************************)
EXTENDS Integers, Sequences, FiniteSets, SequencesExt

CONSTANTS
    LongBits,       \* the width of a long
    CharBits,       \* the width of the shortest type (hh)
    LongLongBits,   \* the width of the longest type (ll)
    BufSize,        \* VPRINTF_BUFSIZE
    NumLen          \* NUMLEN, the characters of a number that are collected

(* Characters are ASCII codes.                                             *)
isupper(c) == c \in 65 .. 90
islower(c) == c \in 97 .. 122
isdigit(c) == c \in 48 .. 57
isalpha(c) == isupper(c) \/ islower(c)
isalnum(c) == isalpha(c) \/ isdigit(c)
iscntrl(c) == c \in 0 .. 31 \/ c = 127
isgraph(c) == c \in 33 .. 126
isprint(c) == c \in 32 .. 126
ispunct(c) == c \in 33 .. 47 \/ c \in 58 .. 64 \/ c \in 91 .. 96 \/ c \in 123 .. 126
isspace(c) == c \in 9 .. 13 \/ c = 32
isxdigit(c) == isdigit(c) \/ c \in 65 .. 70 \/ c \in 97 .. 102
tolower(c) == IF isupper(c) THEN c + 32 ELSE c
toupper(c) == IF islower(c) THEN c - 32 ELSE c

(***************************************************************************)
(* strtol and strtoul.  A string is a sequence of codes; index Len + 1 is  *)
(* its terminator.                                                         *)
(***************************************************************************)
ULONG_MAX == 2 ^ LongBits - 1
LONG_MAX == 2 ^ (LongBits - 1) - 1
LONG_MIN == -(2 ^ (LongBits - 1))

At(s, i) == IF i <= Len(s) THEN s[i] ELSE 0
IsX(c) == c \in {88, 120}
DigitValue(c) ==
    CASE isdigit(c) -> c - 48
      [] islower(c) -> c - 97 + 10
      [] isupper(c) -> c - 65 + 10
      [] OTHER -> 99

RECURSIVE SkipSpace(_, _)
SkipSpace(s, i) == IF isspace(At(s, i)) THEN SkipSpace(s, i + 1) ELSE i

(* The base, and where its digits start.                                   *)
Based(s, i, base) ==
    CASE base = 0 /\ At(s, i) = 48 /\ IsX(At(s, i + 1)) -> [b |-> 16, i |-> i + 2]
      [] base = 0 /\ At(s, i) = 48 /\ ~IsX(At(s, i + 1)) -> [b |-> 8, i |-> i + 1]
      [] base = 0 /\ At(s, i) # 48 -> [b |-> 10, i |-> i]
      [] base = 16 /\ At(s, i) = 48 /\ IsX(At(s, i + 1)) -> [b |-> 16, i |-> i + 2]
      [] OTHER -> [b |-> base, i |-> i]

OverflowsOnProduct(val, v, base) == val > ULONG_MAX \div base
Overflows(val, v, base) == val > (ULONG_MAX - v) \div base
RECURSIVE Converted(_, _, _, _, _)
Converted(s, i, base, val, ovfl) ==
    LET v == DigitValue(At(s, i))
    IN  IF v >= base THEN [i |-> i, val |-> val, ovfl |-> ovfl]
        ELSE Converted(s, i + 1, base, (val * base + v) % (ULONG_MAX + 1), ovfl \/ Overflows(val, v, base))

string2long(s, base, is_signed) ==
    LET sp   == SkipSpace(s, 1)
        neg  == At(s, sp) = 45
        nr   == IF At(s, sp) \in {43, 45} THEN sp + 1 ELSE sp
        bd   == Based(s, nr, base)
        r    == Converted(s, bd.i, bd.b, 0, FALSE)
        over == r.ovfl \/ (is_signed /\ r.val > IF neg THEN -LONG_MIN ELSE LONG_MAX)
        wrap == (IF neg THEN -r.val ELSE r.val) % (ULONG_MAX + 1)
    IN  [ret |-> CASE over /\ is_signed -> IF neg THEN LONG_MIN ELSE LONG_MAX
                   [] over /\ ~is_signed -> ULONG_MAX
                   [] OTHER -> IF is_signed /\ wrap > LONG_MAX THEN wrap - ULONG_MAX - 1 ELSE wrap,
         erange |-> over,
         endp |-> IF nr = r.i THEN 1 ELSE r.i]
strtol(s, base) == string2long(s, base, TRUE)
strtoul(s, base) == string2long(s, base, FALSE)
atoi(s) == strtol(s, 10).ret

(***************************************************************************)
(* qsort: the elements equal to the middle one are gathered around it,     *)
(* between lefteq and righteq, smaller ones go left and larger ones right. *)
(***************************************************************************)
qexchange(a, p, q) == [a EXCEPT ![p] = a[q], ![q] = a[p]]
q3exchange(a, p, q, r) == [a EXCEPT ![p] = a[r], ![r] = a[q], ![q] = a[p]]

(* The first loop, up to the equal ones.                                   *)
RECURSIVE LeftPart(_)
LeftPart(f) ==
    IF f.left >= f.lefteq \/ f.a[f.left] > f.a[f.lefteq] THEN f
    ELSE IF f.a[f.left] < f.a[f.lefteq] THEN LeftPart([f EXCEPT !.left = @ + 1])
    ELSE LeftPart([f EXCEPT !.lefteq = @ - 1, !.a = qexchange(f.a, f.left, f.lefteq - 1)])

(* A smaller element on the right when the left part is full.              *)
MoveEqualsKeepsLeft(f) ==
    [f EXCEPT !.righteq = @ + 1, !.lefteq = @ + 1,
              !.a = q3exchange(f.a, f.left, f.righteq + 1, f.right)]
MoveEquals(f) ==
    [f EXCEPT !.righteq = @ + 1, !.lefteq = @ + 1, !.left = f.lefteq + 1,
              !.a = q3exchange(f.a, f.left, f.righteq + 1, f.right)]

RECURSIVE Again(_)
RECURSIVE RightPart(_)
RightPart(f) ==
    IF f.right <= f.righteq
    THEN IF f.left < f.lefteq
         THEN Again([f EXCEPT !.lefteq = @ - 1, !.righteq = @ - 1, !.right = f.righteq - 1,
                              !.a = q3exchange(f.a, f.right, f.lefteq - 1, f.left)])
         ELSE f
    ELSE CASE f.a[f.right] < f.a[f.righteq] /\ f.left < f.lefteq ->
                Again([f EXCEPT !.a = qexchange(f.a, f.left, f.right), !.left = @ + 1, !.right = @ - 1])
           [] f.a[f.right] < f.a[f.righteq] /\ f.left >= f.lefteq -> RightPart(MoveEquals(f))
           [] f.a[f.right] = f.a[f.righteq] ->
                RightPart([f EXCEPT !.righteq = @ + 1, !.a = qexchange(f.a, f.right, f.righteq + 1)])
           [] OTHER -> RightPart([f EXCEPT !.right = @ - 1])
Again(f) == RightPart(LeftPart(f))

RECURSIVE qsort1(_, _, _)
qsort1(a, a1, a2) ==
    IF a2 <= a1 THEN a
    ELSE LET mid == a1 + (a2 - a1 + 1) \div 2
             f   == Again([a |-> a, left |-> a1, right |-> a2, lefteq |-> mid, righteq |-> mid])
         IN  qsort1(qsort1(f.a, a1, f.lefteq - 1), f.righteq + 1, a2)
qsort(a) == IF Len(a) = 0 THEN a ELSE qsort1(a, 1, Len(a))

RECURSIVE SearchHalf(_, _, _, _)
SearchHalf(a, key, base, n) ==
    LET mid == base + n \div 2
    IN  CASE n = 0 -> 0
          [] n > 0 /\ a[mid] = key -> mid
          [] n > 0 /\ a[mid] < key -> SearchHalf(a, key, mid + 1, (n - 1) \div 2)
          [] OTHER -> SearchHalf(a, key, base, n \div 2)
bsearch(a, key) == SearchHalf(a, key, 1, Len(a))

(***************************************************************************)
(* Directives.                                                             *)
(***************************************************************************)
INT_MAX == -1           \* no precision was given
TEMP_SIZE == LongLongBits \div 3 + 2
Bit01(c) == IF c THEN 1 ELSE 0
Least(a, b) == IF a < b THEN a ELSE b
Base(conv) == CASE conv = "o" -> 8 [] conv \in {"x", "X"} -> 16 [] OTHER -> 10

RECURSIVE DigitsIn(_, _)
DigitsIn(u, base) == IF u < base THEN 1 ELSE 1 + DigitsIn(u \div base, base)

(* The flags, in the order they are written.  "-" drops the earlier ones,  *)
(* but not the fill that "0" chose.                                        *)
FlagStep(f, c) ==
    CASE c = "-" -> [f EXCEPT !.set = {"LEFT"}]
      [] c = "+" -> [f EXCEPT !.set = (@ \cup {"FORCE_SIGN"}) \ {"FORCE_NOSIGN"}]
      [] c = " " -> [f EXCEPT !.set = (@ \cup {"FORCE_NOSIGN"}) \ {"FORCE_SIGN"}]
      [] c = "#" -> [f EXCEPT !.set = @ \cup {"PREPEND"}]
      [] OTHER   -> [f EXCEPT !.set = @ \cup {"FILLZERO"}, !.fill = 48]
Flags(s) == FoldLeft(FlagStep, [set |-> {"RIGHT"}, fill |-> 32], s)

(* The precision is cut to the digits the type can have.                   *)
ClampNone(d) == d.max
Clamp(d) ==
    LET bits == IF d.ll THEN LongLongBits ELSE CharBits
        size == CASE d.conv = "d" /\ d.ll  -> TEMP_SIZE - 1
                  [] d.conv = "d" /\ ~d.ll -> DigitsIn(2 ^ CharBits - 1, 10)
                  [] OTHER -> DigitsIn(2 ^ bits - 1, Base(d.conv))
    IN  IF d.max = INT_MAX \/ d.conv = "u" THEN d.max ELSE Least(d.max, size)

DigitsOnly(v, conv) == 48 + v
Digit(v, conv) == IF v < 10 THEN 48 + v ELSE (IF conv = "X" THEN 65 ELSE 97) + v - 10

(* int2ascii: a width cuts the digits that do not fit.                     *)
RECURSIVE int2ascii(_, _, _, _)
int2ascii(u, conv, width, len) ==
    LET rest == IF width # 0 /\ len + 1 >= width THEN 0 ELSE u \div Base(conv)
    IN  (IF rest > 0 THEN int2ascii(rest, conv, width, len + 1) ELSE <<>>)
        \o <<Digit(u % Base(conv), conv)>>

Repeat(c, n) == [i \in 1 .. n |-> c]
More(a, b) == IF a > b THEN a - b ELSE 0

(* What is built in temp: the digits, the fill up to the precision, the    *)
(* prefix.                                                                 *)
NumberText(d) ==
    LET f  == Flags(d.flags)
        n  == int2ascii(IF d.arg < 0 THEN -d.arg ELSE d.arg, d.conv, d.width, 0)
        m  == Clamp(d)
        t  == IF m = INT_MAX THEN n ELSE Repeat(f.fill, More(Least(m, d.width), Len(n))) \o n
    IN  IF "PREPEND" \notin f.set THEN t
        ELSE CASE Base(d.conv) = 8 -> <<48>> \o t
               [] Base(d.conv) = 16 -> <<48, 120>> \o t
               [] OTHER -> t

(* string_print: sign, padding on the left or on the right.                *)
Padded(text, d, neg) ==
    LET f    == Flags(d.flags)
        sign == CASE neg -> <<45>> [] ~neg /\ "FORCE_SIGN" \in f.set -> <<43>> [] OTHER -> <<>>
        pad  == Repeat(f.fill, More(d.width, Len(text) + Len(sign)))
    IN  IF "RIGHT" \in f.set THEN sign \o pad \o text ELSE sign \o text \o pad

Converts(d) ==
    CASE d.conv \in {"d", "u", "o", "x", "X"} -> Padded(NumberText(d), d, d.conv = "d" /\ d.arg < 0)
      [] d.conv = "c" -> Padded(<<d.arg>>, d, FALSE)
      [] d.conv = "s" ->
            Padded(IF d.max = INT_MAX THEN d.arg ELSE SubSeq(d.arg, 1, Least(d.max, Len(d.arg))), d, FALSE)
      [] OTHER -> d.arg             \* plain text

formatted_printf(format) == FlattenSeq([i \in 1 .. Len(format) |-> Converts(format[i])])

(* The kernel repeats these conversions and hands its text over in pieces; *)
(* a message of a level is its prefix and then its text.                   *)
KernelNumber(d) == Padded(NumberText(d), d, d.conv = "d" /\ d.arg < 0)
KernelConverts(d) ==
    IF d.conv \in {"d", "u", "o", "x", "X"} THEN KernelNumber(d) ELSE Converts(d)

KeepsFull(b) == FALSE
BufferFull(b) == Len(b) = BufSize
count_kputc(k, c) ==
    IF BufferFull(k.buffer) THEN [out |-> Append(k.out, k.buffer), buffer |-> <<c>>]
    ELSE [k EXCEPT !.buffer = Append(@, c)]
LastPiece(k) == Append(k.out, k.buffer)
kvprintf(format) ==
    LastPiece(FoldLeft(count_kputc, [out |-> <<>>, buffer |-> <<>>],
                       FlattenSeq([i \in 1 .. Len(format) |-> KernelConverts(format[i])])))
kprintf(prefix, format) == kvprintf(<<[conv |-> "text", arg |-> prefix]>>) \o kvprintf(format)

(***************************************************************************)
(* Input.  A reader has the text and the position of the next character;   *)
(* getc answers EOF at the end, ungetc goes back.                          *)
(***************************************************************************)
EOF == -1
Look(s, i) == IF i <= Len(s) THEN s[i] ELSE EOF

ScanBase(kind) ==
    CASE kind \in {"i", "p", "x", "X"} -> 16 [] kind = "o" -> 8 [] kind = "b" -> 2 [] OTHER -> 10
InBase(c, base) ==
    CASE base = 16 -> isxdigit(c) [] base = 8 -> c \in 48 .. 55
      [] base = 2 -> c \in 48 .. 49 [] OTHER -> isdigit(c)

RECURSIVE CollectDigits(_, _, _, _)
CollectDigits(s, i, base, width) ==
    IF width > 0 /\ InBase(Look(s, i), base) THEN CollectDigits(s, i + 1, base, width - 1) ELSE i

(* o_collect: the characters from i on that make a number of the kind, at  *)
(* most width of them.  The answer is the position after the number.       *)
o_collect(s, i, kind, width) ==
    LET i1   == IF Look(s, i) \in {43, 45} THEN i + 1 ELSE i
        w1   == width - (i1 - i)
        zero == w1 > 0 /\ Look(s, i1) = 48 /\ ScanBase(kind) = 16
        i2   == IF zero THEN i1 + 1 ELSE i1
        w2   == w1 - (i2 - i1)
        hex  == zero /\ w2 > 0 /\ IsX(Look(s, i2))
        i3   == IF hex THEN i2 + 1 ELSE i2
        base == CASE kind = "i" /\ zero /\ ~hex -> 8
                  [] kind = "i" /\ ~zero -> 10
                  [] OTHER -> ScanBase(kind)
    IN  [end |-> CollectDigits(s, i3, base, w2 - (i3 - i2)), base |-> IF kind = "i" THEN 0 ELSE base]

RECURSIVE SkipSpaces(_, _)
SkipSpaces(s, i) == IF isspace(Look(s, i)) THEN SkipSpaces(s, i + 1) ELSE i

RECURSIVE TakeWhile(_, _, _, _)     \* at most width characters in, or not in, a set
TakeWhile(s, i, width, set) ==
    IF width > 0 /\ i <= Len(s) /\ s[i] \in set THEN TakeWhile(s, i + 1, width - 1, set) ELSE i

AnyCode == 0 .. 255
Spaces == {c \in AnyCode : isspace(c)}

(* The state of a scan: r.i is the next character, r.n is nrchars, r.vals  *)
(* what was assigned, r.go whether the loop goes on.                       *)
Assigned(r, d, v) == IF d.noassign THEN r ELSE [r EXCEPT !.vals = Append(@, v), !.done = @ + 1]

(* nrchars already counts the first character of a number.                 *)
CountsFirstTwice(len) == len
MoreCounted(len) == len - 1
NumberOf(s, r, d, from, o) ==
    LET len  == o.end - from
        text == SubSeq(s, from, o.end - 1)
        n1   == r.n + (from - r.i) + 1
    IN  IF Look(s, from) = EOF THEN [r EXCEPT !.i = from, !.n = n1, !.go = FALSE, !.eof = TRUE]
        ELSE IF len = 0 \/ (len = 1 /\ text[1] \in {43, 45})
        THEN [r EXCEPT !.i = o.end, !.n = n1, !.go = FALSE]
        ELSE [Assigned(r, d, string2long(text, o.base, d.kind \in {"d", "i"}).ret) EXCEPT
                 !.i = o.end, !.n = n1 + MoreCounted(len), !.conv = @ + 1]
NumberFrom(s, r, d, from) ==
    NumberOf(s, r, d, from,
             o_collect(s, from, d.kind, IF d.width = 0 \/ d.width > NumLen THEN NumLen ELSE d.width))
ScanNumber(s, r, d) == NumberFrom(s, r, d, SkipSpaces(s, r.i))

(* %s, %c and %[ take characters of a set.                                 *)
ScanText(s, r, d) ==
    LET from == IF d.kind = "s" THEN SkipSpaces(s, r.i) ELSE r.i
        w    == CASE d.width > 0 -> d.width [] d.width = 0 /\ d.kind = "c" -> 1 [] OTHER -> 65535
        set  == CASE d.kind = "s" -> AnyCode \ Spaces [] d.kind = "c" -> AnyCode [] OTHER -> d.set
        end  == TakeWhile(s, from, w, set)
    IN  CASE Look(s, from) = EOF -> [r EXCEPT !.i = from, !.n = @ + (from - r.i) + Bit01(d.kind = "s"),
                                              !.go = FALSE, !.eof = TRUE]
          [] Look(s, from) # EOF /\ end = from -> [r EXCEPT !.n = @ + 1, !.go = FALSE]
          [] OTHER -> [Assigned(r, d, SubSeq(s, from, end - 1)) EXCEPT
                            !.i = end, !.n = @ + (end - r.i), !.conv = @ + 1]

ScanStep(s, r, d) ==
    CASE ~r.go -> r
      [] r.go /\ d.kind = "space" ->
            LET to == SkipSpaces(s, r.i) IN [r EXCEPT !.i = to, !.n = @ + (to - r.i)]
      [] r.go /\ d.kind = "text" ->     \* a character that differs is consumed
            [r EXCEPT !.i = Least(@ + 1, Len(s) + 1), !.n = @ + 1, !.go = Look(s, r.i) = d.set,
                      !.eof = Look(s, r.i) = EOF]
      [] r.go /\ d.kind = "n" -> [r EXCEPT !.vals = Append(@, r.n), !.conv = @ + 1]
      [] r.go /\ d.kind \in {"s", "c", "["} -> ScanText(s, r, d)
      [] OTHER -> ScanNumber(s, r, d)

Scanned(r) == [r |-> r, ret |-> IF r.conv > 0 \/ ~r.eof THEN r.done ELSE EOF]
formatted_scan(s, format) ==
    Scanned(FoldLeft(LAMBDA a, d : ScanStep(s, a, d),
                     [i |-> 1, n |-> 0, vals |-> <<>>, done |-> 0, conv |-> 0, go |-> TRUE, eof |-> FALSE], format))
=============================================================================
