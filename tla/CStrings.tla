------------------------------ MODULE CStrings ------------------------------
(***************************************************************************)
(* The string functions of libs/libc/ansi over a memory m, a function from *)
(* addresses to characters.  Three letters are enough: a delimiter, a      *)
(* lower case letter and its upper case; 0 ends a string.  A loop that     *)
(* leaves the memory has no value here.                                    *)
(***************************************************************************)
EXTENDS Integers, Sequences, FiniteSets, SequencesExt

CONSTANT NULL

NUL == 0
Lower == 1
Delim == 2
Upper == 3
Char == {NUL, Lower, Delim, Upper}
lowered(c) == IF c = Upper THEN Lower ELSE c

(* Where a loop that runs over m from s until a character of S stops.      *)
RECURSIVE Stops(_, _, _)
Stops(m, s, S) == IF m[s] \in S THEN s ELSE Stops(m, s + 1, S)

strlen(m, s) == Stops(m, s, {NUL}) - s
StringAt(m, s) == [i \in 1 .. strlen(m, s) |-> m[s + i - 1]]
SetOf(m, ct) == ToSet(StringAt(m, ct))

strchr(m, cs, c) == LET i == Stops(m, cs, {c, NUL}) IN IF m[i] = c THEN i ELSE NULL
RchrFirst(m, cs, c) == strchr(m, cs, c)
strrchr(m, cs, c) ==
    LET at == {i \in cs .. cs + strlen(m, cs) : m[i] = c}
    IN  IF at = {} THEN NULL ELSE CHOOSE i \in at : \A j \in at : j <= i
strcspn(m, cs, ct) == Stops(m, cs, SetOf(m, ct) \cup {NUL}) - cs
strspn(m, cs, ct) == Stops(m, cs, Char \ SetOf(m, ct)) - cs
strpbrk(m, cs, ct) ==
    LET i == Stops(m, cs, SetOf(m, ct) \cup {NUL}) IN IF m[i] = NUL THEN NULL ELSE i

RECURSIVE strcmp(_, _, _)
strcmp(m, cs, ct) ==
    IF m[cs] # m[ct] THEN m[cs] - m[ct]
    ELSE IF m[cs] = NUL THEN 0 ELSE strcmp(m, cs + 1, ct + 1)

RECURSIVE stricmp(_, _, _)
stricmp(m, cs, ct) ==
    IF lowered(m[cs]) # lowered(m[ct]) THEN lowered(m[cs]) - lowered(m[ct])
    ELSE IF m[cs] = NUL THEN 0 ELSE stricmp(m, cs + 1, ct + 1)

RECURSIVE strncmp(_, _, _, _)
strncmp(m, cs, ct, n) ==
    CASE n = 0 -> 0
      [] n > 0 /\ m[cs] # m[ct] ->
            (CASE m[cs] = NUL -> -1 [] m[cs] # NUL /\ m[ct] = NUL -> 1 [] OTHER -> m[cs] - m[ct])
      [] OTHER -> IF m[cs] = NUL THEN 0 ELSE strncmp(m, cs + 1, ct + 1, n - 1)

(* On a difference the code compares with the character before the one it  *)
(* stopped at, and it calls a string that ends first equal.                *)
RECURSIVE strnicmp(_, _, _, _)
strnicmp(m, cs, ct, n) ==
    CASE n = 0 -> 0
      [] n > 0 /\ lowered(m[cs]) # lowered(m[ct]) ->
            (CASE m[cs] = NUL -> -1 [] m[cs] # NUL /\ m[ct - 1] = NUL -> 1
               [] OTHER -> lowered(m[cs]) - lowered(m[ct - 1]))
      [] OTHER -> IF m[cs + 1] = NUL THEN 0 ELSE strnicmp(m, cs + 1, ct + 1, n - 1)

RECURSIVE SearchFrom(_, _, _, _)
SearchFrom(m, cs, ct, n) ==
    IF m[cs] = m[ct] /\ strncmp(m, cs, ct, n) = 0 THEN cs
    ELSE IF m[cs] = NUL THEN NULL ELSE SearchFrom(m, cs + 1, ct, n)
strstr(m, cs, ct) == IF m[ct] = NUL THEN cs ELSE SearchFrom(m, cs, ct, strlen(m, ct))
strnstr(m, cs, ct, len) ==
    IF m[ct] = NUL THEN cs
    ELSE SearchFrom(m, cs, ct, IF strlen(m, ct) < len THEN strlen(m, ct) ELSE len)

RECURSIVE CaseSearchFrom(_, _, _, _)
CaseSearchFrom(m, cs, ct, n) ==
    IF lowered(m[cs]) = lowered(m[ct]) /\ strnicmp(m, cs, ct, n) = 0 THEN cs
    ELSE IF m[cs] = NUL THEN NULL ELSE CaseSearchFrom(m, cs + 1, ct, n)
strcasestr(m, cs, ct) == IF m[ct] = NUL THEN cs ELSE CaseSearchFrom(m, cs, ct, strlen(m, ct))

(***************************************************************************)
(* Copies, one cell at a time in the order of the code.                    *)
(***************************************************************************)
RECURSIVE CopyUp(_, _, _, _)
CopyUp(m, d, s, n) == IF n = 0 THEN m ELSE CopyUp([m EXCEPT ![d] = m[s]], d + 1, s + 1, n - 1)
RECURSIVE CopyDown(_, _, _, _)
CopyDown(m, d, s, n) == IF n = 0 THEN m ELSE CopyDown([m EXCEPT ![d + n - 1] = m[s + n - 1]], d, s, n - 1)

BackwardsNever(d, s, n) == FALSE
Backwards(d, s, n) == s <= d /\ s + n > d
memmove(m, d, s, n) == IF Backwards(d, s, n) THEN CopyDown(m, d, s, n) ELSE CopyUp(m, d, s, n)
memcpy(m, d, s, n) == CopyUp(m, d, s, n)

memchr(m, s, c, n) ==
    LET at == {i \in s .. s + n - 1 : m[i] = c}
    IN  IF at = {} THEN NULL ELSE CHOOSE i \in at : \A j \in at : i <= j
RECURSIVE memcmp(_, _, _, _)
memcmp(m, cs, ct, n) ==
    CASE n = 0 -> 0
      [] n > 0 /\ m[cs] # m[ct] -> m[cs] - m[ct]
      [] OTHER -> memcmp(m, cs + 1, ct + 1, n - 1)
memset(m, s, c, n) == [i \in DOMAIN m |-> IF i \in s .. s + n - 1 THEN c ELSE m[i]]

strcpy(m, d, s) == CopyUp(m, d, s, strlen(m, s) + 1)
strcat(m, d, s) == strcpy(m, d + strlen(m, d), s)
strncpy(m, d, s, n) ==
    LET k == IF strlen(m, s) < n THEN strlen(m, s) ELSE n
    IN  memset(CopyUp(m, d, s, k), d + k, NUL, n - k)
ConcatenatesOneMore(m, d, s, n) ==
    LET k == IF strlen(m, s) <= n THEN strlen(m, s) + 1 ELSE n + 1
    IN  [CopyUp(m, d + strlen(m, d), s, k) EXCEPT ![d + strlen(m, d) + k] = NUL]

(* The cell after a copied terminator is cleared too.                      *)
strncat(m, d, s, n) ==
    LET e == d + strlen(m, d)
        k == IF strlen(m, s) < n THEN strlen(m, s) + 1 ELSE n
    IN  IF n = 0 THEN m ELSE [CopyUp(m, e, s, k) EXCEPT ![e + k] = NUL]

(***************************************************************************)
(* strtok keeps its place in a static variable, strtok_r in one of its     *)
(* caller; both cut the string they are given.                             *)
(***************************************************************************)
SaveAtCut(s2) == s2
SavedPlace(s2) == IF s2 = NULL THEN NULL ELSE s2 + 1
Token(m, s, ct, save) ==
    LET from == IF s = NULL THEN save ELSE s
        s1   == from + strspn(m, from, ct)
        s2   == strpbrk(m, s1, ct)
    IN  CASE from = NULL -> [m |-> m, save |-> save, ret |-> NULL]
          [] from # NULL /\ m[s1] = NUL -> [m |-> m, save |-> NULL, ret |-> NULL]
          [] OTHER -> [m |-> IF s2 = NULL THEN m ELSE [m EXCEPT ![s2] = NUL],
                       save |-> SavedPlace(s2), ret |-> s1]
strtok(m, s, ct, savestring) == Token(m, s, ct, savestring)
strtok_r(m, s, ct, saveptr) == Token(m, s, ct, saveptr)
=============================================================================
