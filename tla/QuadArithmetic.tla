--------------------------- MODULE QuadArithmetic ---------------------------
(***************************************************************************)
(* The 64 bit arithmetic of a 32 bit processor: libs/libc/quad.  The code  *)
(* is parameterised by the width of half a word, and so is this module; a  *)
(* quad is a number below B^4, signed values are in two's complement.      *)
(***************************************************************************)
EXTENDS Integers, Sequences, FiniteSets, SequencesExt

CONSTANT HalfBits

B == 2 ^ HalfBits
INT_BITS == 2 * HalfBits
UInt == B * B               \* one more than the largest u_int
Quads == UInt * UInt        \* one more than the largest u_quad_t

(* union uu: the halves of a quad, and the values as signed ones.          *)
H(q) == q \div UInt
L(q) == q % UInt
Quad(h, l) == (h % UInt) * UInt + (l % UInt)
Signed(x, range) == IF 2 * x >= range THEN x - range ELSE x
SInt(x) == Signed(x, UInt)
SQuad(q) == Signed(q, Quads)

HHALF(x) == x \div B
LHALF(x) == x % B
LHUP(x) == (x * B) % UInt
COMBINE(a, b) == ((a * B) % UInt) + b

Carry(c) == IF c THEN 1 ELSE 0
Neg(q) == (Quads - q) % Quads
Abs(q) == IF SQuad(q) < 0 THEN Neg(q) ELSE q

(* Sums, differences and comparisons.                                      *)
adddi3(a, b) ==
    LET l == (L(a) + L(b)) % UInt
    IN  Quad(H(a) + H(b) + Carry(l < L(b)), l)

subdi3(a, b) ==
    LET l == (L(a) - L(b)) % UInt
    IN  Quad(H(a) - H(b) - Carry(l > L(a)), l)

negdi2(a) ==
    LET l == (UInt - L(a)) % UInt
    IN  Quad(-H(a) - Carry(l > 0), l)

one_cmpldi2(a) == Quad(UInt - 1 - H(a), UInt - 1 - L(a))

Compared(ah, al, bh, bl) ==
    CASE ah < bh -> 0 [] ah > bh -> 2 [] al < bl -> 0 [] al > bl -> 2 [] OTHER -> 1
cmpdi2(a, b) == Compared(SInt(H(a)), L(a), SInt(H(b)), L(b))
ucmpdi2(a, b) == Compared(H(a), L(a), H(b), L(b))

(* Shifts.  The bits or-ed together never overlap.                         *)
Shl(x, k) == (x * 2 ^ k) % UInt
Shr(x, k) == x \div 2 ^ k

ShiftLeft(a, k) ==
    CASE k = 0        -> a
      [] k >= INT_BITS -> Quad(Shl(L(a), k - INT_BITS), 0)
      [] OTHER        -> Quad(Shl(H(a), k) + Shr(L(a), INT_BITS - k), Shl(L(a), k))
ashldi3(a, k) == ShiftLeft(a, k)
lshldi3(a, k) == ShiftLeft(a, k)

lshrdi3(a, k) ==
    CASE k = 0        -> a
      [] k >= INT_BITS -> Quad(0, Shr(H(a), k - INT_BITS))
      [] OTHER        -> Quad(Shr(H(a), k), Shr(L(a), k) + Shl(H(a), INT_BITS - k))

ShiftUnsigned(a, k) == lshrdi3(a, k)
ashrdi3(a, k) ==
    CASE k = 0        -> a
      [] k >= INT_BITS -> Quad(Shr(SInt(H(a)), INT_BITS), Shr(SInt(H(a)), k - INT_BITS))
      [] OTHER        -> Quad(Shr(SInt(H(a)), k), Shr(L(a), k) + Shl(H(a), INT_BITS - k))

(***************************************************************************)
(* Products.  __lmulq multiplies two ints to a quad out of halves whose    *)
(* differences may be negative; each addition to the low word carries into *)
(* the high one.                                                           *)
(***************************************************************************)
Distance(x, y) == IF x >= y THEN x - y ELSE y - x

AddLowUncarried(p, x) == [h |-> p.h + HHALF(x), l |-> (p.l + LHUP(x)) % UInt]
AddLow(p, x) ==     \* p += x << N
    LET l == (p.l + LHUP(x)) % UInt
    IN  [h |-> p.h + HHALF(x) + Carry(l < p.l), l |-> l]
SubLow(p, x) ==     \* p -= x << N
    LET l == (p.l - LHUP(x)) % UInt
    IN  [h |-> p.h - HHALF(x) - Carry(l > p.l), l |-> l]

lmulq(u, v) ==
    LET low  == LHALF(u) * LHALF(v)
        mid  == Distance(HHALF(u), LHALF(u)) * Distance(LHALF(v), HHALF(v))
        high == HHALF(u) * HHALF(v)
        neg  == (HHALF(u) >= LHALF(u)) # (LHALF(v) >= HHALF(v))
        p0   == [h |-> high + HHALF(high), l |-> LHUP(high)]
        p1   == IF neg THEN SubLow(p0, mid) ELSE AddLow(p0, mid)
        p2   == AddLow(p1, low)
        l    == (p2.l + low) % UInt
    IN  IF HHALF(u) = 0 /\ HHALF(v) = 0 THEN low
        ELSE Quad(p2.h + Carry(l < low), l)

muldi3(a, b) ==
    LET u == Abs(a)  v == Abs(b)
        low  == lmulq(L(u), L(v))
        mid  == Distance(H(u), L(u)) * Distance(L(v), H(v))
        neg  == (H(u) >= L(u)) # (L(v) >= H(v))
        prod == IF H(u) = 0 /\ H(v) = 0 THEN low
                ELSE Quad(H(u) * H(v) + (IF neg THEN -mid ELSE mid) + L(low) + H(low), L(low))
    IN  IF (SQuad(a) < 0) # (SQuad(b) < 0) THEN Neg(prod) ELSE prod

(***************************************************************************)
(* Division, by the algorithm D of Knuth, on arrays of five digits.  The   *)
(* pointers u, v and q that the code advances are offsets here.            *)
(***************************************************************************)
Digits(q) == [i \in 0 .. 4 |-> IF i = 0 THEN 0 ELSE (q \div B ^ (4 - i)) % B]
Value(d) == Quad(COMBINE(d[1], d[2]), COMBINE(d[3], d[4]))

(* Shift p[from] .. p[to] left by sh bits.                                 *)
shl(p, from, to, sh) ==
    [i \in DOMAIN p |->
        IF i \notin from .. to THEN p[i]
        ELSE LHALF(p[i] * 2 ^ sh) + (IF i < to THEN Shr(p[i + 1], HalfBits - sh) ELSE 0)]

(* A divisor of one digit t.                                               *)
ShortStep(acc, d) == [r |-> COMBINE(acc.r, d) % acc.t, t |-> acc.t,
                      q |-> Append(acc.q, COMBINE(acc.r, d) \div acc.t)]
ShortDivision(u, t) ==
    LET a == FoldLeft(ShortStep, [r |-> 0, t |-> t, q |-> <<>>], <<u[1], u[2], u[3], u[4]>>)
    IN  [q |-> Value([i \in 0 .. 4 |-> IF i = 0 THEN 0 ELSE a.q[i]]), r |-> a.r]

(* D3: the quotient digit guessed from the first digits, then lowered.     *)
RECURSIVE Lowered(_, _, _, _, _)
LoweredOnce(qhat, rhat, v1, v2, u2) ==
    IF rhat + v1 >= B THEN qhat - 1 ELSE Lowered(qhat - 1, rhat + v1, v1, v2, u2)
Lowered(qhat, rhat, v1, v2, u2) ==
    IF (v2 * qhat) % UInt > COMBINE(rhat, u2)
    THEN LoweredOnce(qhat, rhat, v1, v2, u2) ELSE qhat
QuotientDigit(u0, u1, u2, v1, v2) ==
    IF u0 = v1 THEN LoweredOnce(B, u1, v1, v2, u2)
    ELSE LET nn == COMBINE(u0, u1) IN Lowered(nn \div v1, nn % v1, v1, v2, u2)

(* D4: subtract qhat times v[1..n] from u[j..j+n]; the last borrow tells   *)
(* whether qhat was too large.                                             *)
SubtractStep(acc, i, v, qhat) ==
    LET t == (acc.u[i.u] - v[i.v] * qhat - acc.t) % UInt
    IN  [u |-> [acc.u EXCEPT ![i.u] = LHALF(t)], t |-> (B - HHALF(t)) % B]
AddStep(acc, i, v) ==
    LET t == acc.t + acc.u[i.u] + v[i.v]
    IN  [u |-> [acc.u EXCEPT ![i.u] = LHALF(t)], t |-> HHALF(t)]

Positions(uo, vo, j, n) == [k \in 1 .. n |-> [u |-> uo + j + n + 1 - k, v |-> vo + n + 1 - k]]

(* D5, D6: in the rare case add the divisor back.                          *)
AddedBackNever(u, v, at, top, t, qhat) == [u |-> u, q |-> qhat]
AddedBack(u, v, at, top, t, qhat) ==
    LET b == FoldLeft(LAMBDA a, i : AddStep(a, i, v), [u |-> u, t |-> 0], at)
    IN  IF HHALF(t) = 0 THEN [u |-> u, q |-> qhat]
        ELSE [u |-> [b.u EXCEPT ![top] = LHALF(b.u[top] + b.t)], q |-> qhat - 1]

DivideDigit(acc, j, v, uo, vo, n, m) ==
    LET qhat == QuotientDigit(acc.u[uo + j], acc.u[uo + j + 1], acc.u[uo + j + 2], v[vo + 1], v[vo + 2])
        at   == Positions(uo, vo, j, n)
        s    == FoldLeft(LAMBDA a, i : SubtractStep(a, i, v, qhat), [u |-> acc.u, t |-> 0], at)
        t    == (s.u[uo + j] - s.t) % UInt
        r    == AddedBack([s.u EXCEPT ![uo + j] = LHALF(t)], v, at, uo + j, t, qhat)
    IN  [u |-> r.u, q |-> [acc.q EXCEPT ![4 - m + j] = LHALF(r.q)]]

LeadingZeros(d) == CHOOSE k \in 0 .. 3 : d[k + 1] # 0 /\ \A i \in 1 .. k : d[i] = 0

(* The remainder, shifted back by the d bits of D1.                        *)
Unshifted(u, uo, m, n, d) ==
    [i \in 0 .. 4 |->
        CASE d = 0 \/ i < uo + m -> u[i]
          [] i = uo + m          -> 0
          [] OTHER -> Shr(u[i], d) + LHALF(u[i - 1] * 2 ^ (HalfBits - d))]

Unpacked(r, uo, m, n, d) == [q |-> Value(r.q), r |-> Value(Unshifted(r.u, uo, m, n, d))]
LongDivision(us, vs, uo, vo, d) ==
    LET n == 4 - vo
        m == vo - uo
        v == IF d > 0 THEN shl(vs, vo + 1, 4, d) ELSE vs
    IN  Unpacked(FoldLeft(LAMBDA a, j : DivideDigit(a, j - 1, v, uo, vo, n, m),
                          [u |-> IF d > 0 THEN shl(us, uo, 4, d) ELSE us, q |-> [i \in 0 .. 4 |-> 0]],
                          [j \in 1 .. m + 1 |-> j]), uo, m, n, d)
Normalising(t) == CHOOSE k \in 0 .. HalfBits - 1 : B \div 2 <= t * 2 ^ k /\ t * 2 ^ k < B
DigitsDivided(us, vs, uo, vo) ==
    IF vo = 3 THEN ShortDivision(us, vs[4]) ELSE LongDivision(us, vs, uo, vo, Normalising(vs[vo + 1]))
Divided(us, vs) == DigitsDivided(us, vs, LeadingZeros(us), LeadingZeros(vs))

qdivrem(uq, vq) == IF uq < vq THEN [q |-> 0, r |-> uq] ELSE Divided(Digits(uq), Digits(vq))

udivdi3(a, b) == qdivrem(a, b).q
umoddi3(a, b) == qdivrem(a, b).r
Negated(x, yes) == IF yes THEN Neg(x) ELSE x
divdi3(a, b) == Negated(qdivrem(Abs(a), Abs(b)).q, (SQuad(a) < 0) # (SQuad(b) < 0))
moddi3(a, b) == Negated(qdivrem(Abs(a), Abs(b)).r, SQuad(a) < 0)

(***************************************************************************)
(* What the functions promise, for an operand a and every other operand.   *)
(***************************************************************************)
(* The four divisions give the quotient and remainder of the numbers: the  *)
(* guessed digits of __qdivrem are corrected in every case, the add-back   *)
(* of D6 included, and the signed results truncate toward zero.            *)
DivisionExactFor(a) ==
    \A b \in 1 .. Quads - 1 :
        /\ \A u \in {qdivrem(a, b)} : u.q * b + u.r = a /\ u.r < b
                                      /\ udivdi3(a, b) = u.q /\ umoddi3(a, b) = u.r
        /\ \A q \in {SQuad(divdi3(a, b))}, r \in {SQuad(moddi3(a, b))} :
              /\ ~(SQuad(a) = -(Quads \div 2) /\ SQuad(b) = -1) => q * SQuad(b) + r = SQuad(a)
              /\ (r = 0) \/ ((r < 0) = (SQuad(a) < 0))
              /\ r \in 1 - Abs(b) .. Abs(b) - 1

(* __muldi3 is the product modulo the width: no carry between the words of *)
(* the three partial products is lost.                                     *)
ProductExactFor(a) == \A b \in 0 .. Quads - 1 : muldi3(a, b) = (SQuad(a) * SQuad(b)) % Quads

(* Sums, comparisons and shifts of two words agree with those of numbers.  *)
WordsAgreeFor(a) ==
    /\ negdi2(a) = Neg(a) /\ adddi3(a, one_cmpldi2(a)) = Quads - 1
    /\ \A b \in 0 .. Quads - 1 :
        /\ adddi3(a, b) = (a + b) % Quads
        /\ subdi3(a, b) = (a - b) % Quads
        /\ (ucmpdi2(a, b) = 0) = (a < b) /\ (ucmpdi2(a, b) = 2) = (a > b)
        /\ (cmpdi2(a, b) = 0) = (SQuad(a) < SQuad(b)) /\ (cmpdi2(a, b) = 2) = (SQuad(a) > SQuad(b))
    /\ \A k \in 0 .. 2 * INT_BITS - 1 :
        /\ ashldi3(a, k) = (a * 2 ^ k) % Quads /\ lshldi3(a, k) = ashldi3(a, k)
        /\ lshrdi3(a, k) = a \div 2 ^ k
        /\ ashrdi3(a, k) = (SQuad(a) \div 2 ^ k) % Quads
=============================================================================
