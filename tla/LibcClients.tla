----------------------------- MODULE LibcClients ----------------------------
(***************************************************************************)
(* Clients of the C library, one for each group of functions.  A client    *)
(* walks through its inputs: operands, days of the calendar, strings cut   *)
(* into tokens by two callers, memory moved onto itself, texts and arrays  *)
(* that grow, directives of a format.                                      *)
(***************************************************************************)
EXTENDS Integers, Sequences, FiniteSets, SequencesExt

CONSTANTS
    HalfBits,       \* the width of half a word
    Years,          \* the years the calendar is walked through
    MaxText,        \* the longest text
    MaxArray        \* the longest array

ASSUME LibcAssumption ==
    /\ HalfBits \in Nat \ {0} /\ MaxText \in Nat /\ MaxArray \in Nat
    /\ Years \subseteq 15 .. 65

VARIABLES
    client,         \* the client at work
    work            \* its input, and what it got so far

libcVars == <<client, work>>

None == 0
Q == INSTANCE QuadArithmetic
T == INSTANCE CTime
S == INSTANCE CStrings WITH NULL <- None
N == INSTANCE Formatting WITH LongBits <- 6, CharBits <- 8, LongLongBits <- 16, BufSize <- 3, NumLen <- 5
F == INSTANCE Formatting WITH LongBits <- 18, CharBits <- 8, LongLongBits <- 16, BufSize <- 3, NumLen <- 5

Least(a, b) == IF a < b THEN a ELSE b

(***************************************************************************)
(* The calendar, day by day.                                               *)
(***************************************************************************)
Long == {0, 2, 4, 6, 7, 9, 11}
MonthDays(d) == CASE d.tm_mon \in Long -> 31
                  [] d.tm_mon = 1 -> IF d.tm_year % 4 = 0 THEN 29 ELSE 28
                  [] OTHER -> 30
NewYear(y, n) == [tm_year |-> y, tm_mon |-> 0, tm_mday |-> 1, tm_wday |-> (4 + n) % 7, tm_yday |-> 0]
DaysTo(y) == (y - 15) * 365 + (y - 13) \div 4
Tomorrow(d) ==
    LET w == (d.tm_wday + 1) % 7
    IN  CASE d.tm_mday < MonthDays(d) -> [d EXCEPT !.tm_mday = @ + 1, !.tm_wday = w, !.tm_yday = @ + 1]
          [] d.tm_mday = MonthDays(d) /\ d.tm_mon < 11 ->
                [d EXCEPT !.tm_mday = 1, !.tm_mon = @ + 1, !.tm_wday = w, !.tm_yday = @ + 1]
          [] OTHER -> NewYear(d.tm_year + 1, w + 3)

TimesOfDay == {<<0, 0, 0>>, <<23, 59, 59>>}
Tm(d, t) ==
    [tm_year |-> d.tm_year, tm_mon |-> d.tm_mon, tm_mday |-> d.tm_mday, tm_wday |-> d.tm_wday,
     tm_yday |-> d.tm_yday, tm_hour |-> t[1], tm_min |-> t[2], tm_sec |-> t[3], tm_isdst |-> 0]
Seconds(day, t) == day * T!SECS_DAY + t[1] * 3600 + t[2] * 60 + t[3]

(* Fields out of their ranges, and the seconds they stand for.             *)
Shifts == {<<"tm_sec", -86401, -86401>>, <<"tm_min", 1501, 90060>>,
           <<"tm_hour", -49, -49 * 3600>>, <<"tm_mday", -40, -40 * T!SECS_DAY>>,
           <<"tm_mday", 400, 400 * T!SECS_DAY>>}

TimeFormats == {<<"c">>, <<"x", "A", "X">>, <<"B", "j", "Y">>, <<"W", "U", "p", "I", "Z">>}

(***************************************************************************)
(* Two strings in one memory: the delimiters at 1, the string of the       *)
(* client of strtok, the string of the client of strtok_r.                 *)
(***************************************************************************)
SeqsUpTo(set, n) == UNION {[1 .. k -> set] : k \in 0 .. n}
Letters == {S!Lower, S!Delim, S!Upper}
ctAt == 1
aAt == 4
bAt(a) == aAt + Len(a) + 1
Cells(a, b) == <<S!Delim, S!Upper, S!NUL>> \o a \o <<S!NUL>> \o b \o <<S!NUL, S!NUL>>

TokensOf(s) ==          \* the runs of letters between delimiters, and where they start
    LET word(i) == s[i] = S!Lower
        firsts  == SelectSeq([i \in 1 .. Len(s) |-> i], LAMBDA i : word(i) /\ (i = 1 \/ ~word(i - 1)))
    IN  [k \in 1 .. Len(firsts) |->
            [at |-> firsts[k],
             len |-> CHOOSE n \in 1 .. Len(s) :
                        /\ \A j \in firsts[k] .. firsts[k] + n - 1 : j <= Len(s) /\ word(j)
                        /\ (firsts[k] + n > Len(s)) \/ ~word(firsts[k] + n)]]

NoToken == [at |-> 0, len |-> 0]
CutTo(r, who, base, tok) ==
    LET got == IF tok.ret = None THEN NoToken
               ELSE [at |-> tok.ret - base + 1, len |-> S!strlen(tok.m, tok.ret)]
    IN  IF who = "gotA" THEN [r EXCEPT !.m = tok.m, !.save = tok.save, !.gotA = Append(@, got)]
        ELSE [r EXCEPT !.m = tok.m, !.saveptr = tok.save, !.gotB = Append(@, got)]
Cut(r, who, base) ==
    LET from == IF work[who] = <<>> THEN base ELSE None
    IN  CutTo(r, who, base, IF who = "gotA" THEN S!strtok(work.m, from, ctAt, work.save)
                            ELSE S!strtok_r(work.m, from, ctAt, work.saveptr))
MoreTokens(got) == NoToken \notin ToSet(got)

(***************************************************************************)
(* Directives of a format.                                                 *)
(***************************************************************************)
Args(conv, ll) ==
    CASE conv = "d" /\ ll  -> {0, -9, 1234, 32767, -32768}
      [] conv = "d" /\ ~ll -> {0, -9, 127, -128}
      [] conv # "d" /\ ll  -> {0, 9, 32768, 65535}
      [] OTHER             -> {0, 9, 255}
FlagSeqs == SeqsUpTo({"-", "+", "0", "#"}, 2)

TextCodes == {48, 54, 56, 102, 120, 45, 32}
ScanKinds == {"d", "i", "x", "o", "u", "s", "c", "[", "space", "text"}
Scan(kind, width) ==
    [kind |-> kind, width |-> width, noassign |-> FALSE,
     set |-> IF kind = "text" THEN 48 ELSE {48, 54, 56}]

(***************************************************************************)
(* The clients.                                                            *)
(***************************************************************************)
LibcInit ==
    \/ client = "quad" /\ work = 0
    \/ /\ client = "calendar"
       /\ \E y \in Years : work = [day |-> DaysTo(y), end |-> DaysTo(y + 1) + 40, date |-> NewYear(y, DaysTo(y))]
    \/ client = "text" /\ work = <<>>
    \/ client = "array" /\ work = <<>>
    \/ client = "print" /\ work = [ready |-> FALSE]
    \/ client = "move" /\ work = [m |-> [i \in 1 .. 5 |-> i], ref |-> [i \in 1 .. 5 |-> i], n |-> 0]
    \/ /\ client = "strings"
       /\ \E a \in SeqsUpTo(Letters, 4), b \in SeqsUpTo(Letters, 3) :
            work = [a |-> a, b |-> b, m |-> Cells(a, b), save |-> None, saveptr |-> None,
                    gotA |-> <<>>, gotB |-> <<>>]

LibcNext ==
    /\ \/ client = "quad" /\ work = 0 /\ work' \in 1 .. Q!Quads - 1
       \/ /\ client = "calendar" /\ work.day < work.end
          /\ work' = [work EXCEPT !.day = @ + 1, !.date = Tomorrow(@)]
       \/ client = "text" /\ Len(work) < MaxText /\ \E c \in TextCodes : work' = Append(work, c)
       \/ client = "array" /\ Len(work) < MaxArray /\ \E c \in 1 .. 4 : work' = Append(work, c)
       \/ /\ client = "print" /\ ~work.ready
          /\ \E conv \in {"d", "u", "o", "x"}, ll \in BOOLEAN, flags \in FlagSeqs,
                width \in {0, 1, 4, 7}, max \in {-1, 2, 9} :
               \E arg \in Args(conv, ll) :
                 work' = [ready |-> TRUE, conv |-> conv, ll |-> ll, flags |-> flags,
                          width |-> width, max |-> max, arg |-> arg]
       \/ /\ client = "move" /\ work.n < 2
          /\ \E d \in 1 .. 5, s \in 1 .. 5, n \in 0 .. 5 :
               /\ d + n <= 6 /\ s + n <= 6
               /\ work' = [m |-> S!memmove(work.m, d, s, n), n |-> work.n + 1,
                           ref |-> [i \in 1 .. 5 |-> IF i \in d .. d + n - 1 THEN work.ref[s + i - d]
                                                     ELSE work.ref[i]]]
       \/ /\ client = "strings"
          /\ \/ MoreTokens(work.gotA) /\ work' = Cut(work, "gotA", aAt)
             \/ MoreTokens(work.gotB) /\ work' = Cut(work, "gotB", bAt(work.a))
    /\ UNCHANGED client

(***************************************************************************)
(* Properties                                                              *)
(***************************************************************************)

(* The divisions give quotient and remainder, the signed ones truncated    *)
(* toward zero: the digits __qdivrem guesses are corrected in every case,  *)
(* the rare add-back of its step D6 included.                              *)
DivisionExact == client = "quad" => Q!DivisionExactFor(work)

(* __muldi3 is the product modulo the width: no carry between the words of *)
(* its three partial products is lost.                                     *)
ProductExact == client = "quad" => Q!ProductExactFor(work)

(* Sums, comparisons and shifts of two words are those of the numbers.     *)
WordsAgree == client = "quad" => Q!WordsAgreeFor(work)

(* gmtime and localtime give the date of the calendar, day after day, and  *)
(* mktime is their inverse, also for fields outside their ranges.          *)
CalendarExact ==
    client = "calendar" =>
        \A t \in TimesOfDay :
            LET secs == Seconds(work.day, t)
                tm   == Tm(work.date, t)
            IN  /\ T!gmtime(secs) = tm /\ T!localtime(secs) = tm
                /\ T!mktime(tm) = [t |-> secs, tm |-> tm]
                /\ \A s \in Shifts :
                     secs + s[3] >= 0 =>
                        T!mktime([tm EXCEPT ![s[1]] = @ + s[2], !.tm_wday = 0])
                          = [t |-> secs + s[3], tm |-> T!gmtime(secs + s[3])]

(* strftime never writes past the buffer, and answers 0 when the text and  *)
(* its terminator do not fit.                                              *)
TimeTextFits ==
    client = "calendar" =>
        \A f \in TimeFormats, max \in {0, 1, 7, 12, 30} :
            LET r == T!strftime(max, f, Tm(work.date, <<9, 5, 0>>))
            IN  r.written <= max /\ (r.ret = 0 \/ r.written = r.ret + 1)

(* Two callers that cut their strings in turns, one with strtok and one    *)
(* with strtok_r, each get every token of their own string, in order.      *)
TokensInOrder ==
    client = "strings" =>
        \A p \in {<<work.a, work.gotA>>, <<work.b, work.gotB>>} :
            LET all == Append(TokensOf(p[1]), NoToken) IN IsPrefix(p[2], all)

(* Over the uncut strings the searches find the first, or the last, place  *)
(* that fits and the comparisons have the sign of the order.               *)
Uncut == work.gotA = <<>> /\ work.gotB = <<>>
FirstOr(places) == IF places = {} THEN None ELSE CHOOSE i \in places : \A j \in places : i <= j
Lowered(s) == [i \in 1 .. Len(s) |-> S!lowered(s[i])]
Places(s, t) == {aAt + i - 1 : i \in {k \in 1 .. Len(s) + 1 : IsPrefix(t, SubSeq(s, k, Len(s)))}}
Precedes(s, t) ==
    \/ Len(s) < Len(t) /\ IsPrefix(s, t)
    \/ \E i \in 1 .. Least(Len(s), Len(t)) : s[i] < t[i] /\ SubSeq(s, 1, i - 1) = SubSeq(t, 1, i - 1)
SearchesExact ==
    client = "strings" /\ Uncut =>
        LET a == work.a  b == work.b  m == work.m  at == bAt(a)
            cut(s, n) == SubSeq(s, 1, Least(n, Len(s)))
        IN  /\ S!strstr(m, aAt, at) = FirstOr(Places(a, b))
            /\ Places(Lowered(a), Lowered(b)) # {} =>
                    S!strcasestr(m, aAt, at) \in 1 .. FirstOr(Places(Lowered(a), Lowered(b)))
            /\ S!strspn(m, aAt, at) = FirstOr({i \in 1 .. Len(a) + 1 : i > Len(a) \/ a[i] \notin ToSet(b)}) - 1
            /\ S!strcspn(m, aAt, at) = FirstOr({i \in 1 .. Len(a) + 1 : i > Len(a) \/ a[i] \in ToSet(b)}) - 1
            /\ \A c \in Letters :
                 /\ S!strchr(m, aAt, c) = FirstOr(Places(a, <<c>>))
                 /\ S!memchr(m, aAt, c, Len(a)) = FirstOr(Places(a, <<c>>))
                 /\ S!strrchr(m, aAt, c) =
                        IF c \in ToSet(a) THEN aAt + SelectLastInSeq(a, LAMBDA x : x = c) - 1 ELSE None
            /\ (S!strcmp(m, aAt, at) < 0) = Precedes(a, b) /\ (S!strcmp(m, aAt, at) > 0) = Precedes(b, a)
            /\ (S!stricmp(m, aAt, at) < 0) = Precedes(Lowered(a), Lowered(b))
            /\ \A n \in 0 .. 4 :
                 /\ (S!strncmp(m, aAt, at, n) < 0) = Precedes(cut(a, n), cut(b, n))
                 /\ (S!strncmp(m, aAt, at, n) = 0) = (cut(a, n) = cut(b, n))

(* A bounded copy or concatenation writes the bounded string and nothing   *)
(* past the place its bound allows, the terminator of strncat included.    *)
CopiesStay ==
    client = "strings" /\ Uncut =>
        LET a == work.a  b == work.b
            far  == Len(work.m) + 1
            m    == work.m \o a \o [i \in 1 .. 8 |-> IF i = 1 THEN S!NUL ELSE S!Lower]
            end  == far + Len(a)
        IN  \A n \in 0 .. 4 :
              LET cat == S!strncat(m, far, bAt(a), n)
                  cpy == S!strncpy(m, end, bAt(a), n)
                  cut == SubSeq(b, 1, Least(n, Len(b)))
              IN  /\ S!StringAt(cat, far) = a \o cut
                  /\ \A i \in DOMAIN m : cat[i] # m[i] => i \in end .. end + n
                  /\ SubSeq(cpy, end, end + Least(n, Len(b)) - 1) = cut
                  /\ \A i \in DOMAIN m : cpy[i] # m[i] => i \in end .. end + n - 1
                  /\ \A i \in end + Len(b) .. end + n - 1 : cpy[i] = S!NUL

(* memmove leaves in the destination what was in the source, however the   *)
(* two overlap, and nothing else changes.                                  *)
MovesExact == client = "move" => work.m = work.ref

(* strtol and strtoul give the number when it fits and the nearest limit   *)
(* with ERANGE when it does not; digits outside the base end the number.   *)
Number(s, i, k, base) ==
    FoldLeft(LAMBDA v, j : v * base + N!DigitValue(s[j]), 0, [j \in 1 .. k - i + 1 |-> i + j - 1])
ConversionExact ==
    client = "text" =>
        \A base \in {0, 8, 10, 16} :
            LET s    == work
                sp   == N!SkipSpace(s, 1)
                sign == N!At(s, sp) \in {43, 45}
                bd   == N!Based(s, IF sign THEN sp + 1 ELSE sp, base)
                end  == CHOOSE k \in bd.i .. Len(s) + 1 :
                            /\ N!DigitValue(N!At(s, k)) >= bd.b
                            /\ \A j \in bd.i .. k - 1 : N!DigitValue(s[j]) < bd.b
                abs  == Number(s, bd.i, end - 1, bd.b)
                val  == IF N!At(s, sp) = 45 THEN -abs ELSE abs
            IN  \A l \in {N!strtol(s, base)}, u \in {N!strtoul(s, base)} :
                /\ l.erange = (val \notin N!LONG_MIN .. N!LONG_MAX)
                /\ l.ret = IF ~l.erange THEN val ELSE IF val < 0 THEN N!LONG_MIN ELSE N!LONG_MAX
                /\ u.erange = (abs > N!ULONG_MAX)
                /\ u.ret = IF u.erange THEN N!ULONG_MAX ELSE val % (N!ULONG_MAX + 1)
                /\ l.endp = u.endp /\ l.endp \in {1, end}

(* qsort leaves a sorted permutation, for any number of equal elements,    *)
(* and bsearch finds in it the elements it has and no other.               *)
SortedPermutation ==
    client = "array" =>
        LET a == N!qsort(work)
            times(s, v) == Cardinality({i \in 1 .. Len(s) : s[i] = v})
        IN  /\ Len(a) = Len(work) /\ \A i \in 1 .. Len(a) - 1 : a[i] <= a[i + 1]
            /\ \A v \in 0 .. 5 :
                 /\ times(a, v) = times(work, v)
                 /\ IF times(a, v) = 0 THEN N!bsearch(a, v) = 0 ELSE a[N!bsearch(a, v)] = v

(* The digits, fill and prefix of a number stay inside temp, except in two *)
(* cases the code has no limit for: the precision of %u is not cut, and    *)
(* the prefix of an octal number is not counted.                           *)
NoLimit == (work.conv = "u" /\ work.max # -1) \/ (work.conv = "o" /\ "#" \in ToSet(work.flags))
InsideTemp == Len(F!NumberText(work)) <= F!TEMP_SIZE - 1
TempFits == client = "print" /\ work.ready /\ ~NoLimit => InsideTemp
TempAlways == client = "print" /\ work.ready => InsideTemp

(* A printed number is read back by strtol and by formatted_scan, unless   *)
(* its width cuts digits, spaces come between its sign and its digits, or  *)
(* zeros are appended to it on the right, or fill comes before or after    *)
(* its prefix.                                                             *)
Cutting == work.width # 0 /\ F!DigitsIn(IF work.arg < 0 THEN -work.arg ELSE work.arg, F!Base(work.conv)) > work.width
SignApart == "0" \notin ToSet(work.flags) /\ work.width # 0 /\ (work.arg < 0 \/ "+" \in ToSet(work.flags))
ReadsBack ==
    \A text \in {F!formatted_printf(<<work>>)} :
        LET kind == work.conv
            from == F!SkipSpaces(text, 1)
            scan == F!formatted_scan(text, <<Scan(kind, 0)>>)
        IN  /\ F!strtol(text, F!Base(kind)).ret = work.arg
            /\ F!o_collect(text, from, kind, 9).end - from <= 5 => scan.ret = 1 /\ scan.r.vals = <<work.arg>>
Plain == client = "print" /\ work.ready /\ ~Cutting /\ ~SignApart /\ ~({"-", "0"} \subseteq ToSet(work.flags))
PrefixApart == "#" \in ToSet(work.flags) /\ ("0" \in ToSet(work.flags) \/ work.max # -1)
PrintedReadsBack == Plain /\ ~PrefixApart => ReadsBack
PrefixReadsBack == Plain => ReadsBack

(* kprintf hands over its prefix and its text in order, in pieces no       *)
(* larger than its buffer, and formats as the C library does.              *)
PiecesJoin ==
    client = "print" /\ work.ready =>
        \A p \in {F!kprintf(<<91, 58, 32, 93>>, <<work, [conv |-> "text", arg |-> <<58, 59>>]>>)} :
            /\ FlattenSeq(p) = <<91, 58, 32, 93>> \o F!formatted_printf(<<work>>) \o <<58, 59>>
            /\ \A i \in 1 .. Len(p) : Len(p[i]) <= 3

(* What %n stores after a scan that matched so far is the number of        *)
(* characters read, and the result counts the values assigned.             *)
ScanCounts ==
    client = "text" =>
        \A k1, k2 \in ScanKinds, w \in {0, 2} :
            \A f \in {F!formatted_scan(work, <<Scan(k1, w), Scan(k2, 0), Scan("n", 0)>>)} :
                LET values == {k \in {1, 2} : <<k1, k2>>[k] \notin {"space", "text"}}
                IN  f.r.go => /\ Last(f.r.vals) = f.r.i - 1
                              /\ f.ret = Cardinality(values) /\ Len(f.r.vals) = f.ret + 1
=============================================================================
