------------------------------- MODULE CTime --------------------------------
(***************************************************************************)
(* The calendar of the C library: libs/libc/ansi/mktime.c, convtime.c,     *)
(* gmtime.c, localtime.c, tzset.c and strftime.c.  Times are seconds since *)
(* the first of January 2015, years of a struct tm count from 2000.        *)
(***************************************************************************)
EXTENDS Integers, Sequences

YEAR0 == 2000
EPOCH_YR == 2015
EPOCH_SECS == 473385600
SECS_HOUR == 3600
SECS_DAY == 24 * SECS_HOUR
TimeMax == 2147483647

LEAPYEAR(year) == (year % 4 = 0) /\ ((year % 100 # 0) \/ (year % 400 = 0))
YEARSIZE(year) == IF LEAPYEAR(year) THEN 366 ELSE 365
days_per_month(year, month) ==
    <<31, IF LEAPYEAR(year) THEN 29 ELSE 28, 31, 30, 31, 30, 31, 31, 30, 31, 30, 31>>[month + 1]

(* Division in C truncates toward zero.                                    *)
Quot(a, b) == IF a < 0 THEN -((-a) \div b) ELSE a \div b
Rem(a, b) == a - Quot(a, b) * b
Bit(c) == IF c THEN 1 ELSE 0

(***************************************************************************)
(* The time zone.  tzset replaces the index of the zone in the list by its *)
(* offset in seconds; the program starts with zone 0, no daylight saving   *)
(* time, and never changes them.                                           *)
(***************************************************************************)
tzlist == <<[tz |-> 0, dstofs |-> 60], [tz |-> -60, dstofs |-> 60],
            [tz |-> -120, dstofs |-> 60], [tz |-> 0, dstofs |-> 60]>>
tzset(zone) ==
    LET tz == tzlist[zone + 1].tz * 60
    IN  [timezone |-> tz, dst_off |-> tzlist[tz + 1].dstofs * 60]
zone0 == tzset(0)
daylight == 0

(***************************************************************************)
(* Seconds since 2000 to a struct tm.                                      *)
(***************************************************************************)
month_offset(year, month) ==
    IF LEAPYEAR(year) THEN <<0, 3, 4, 0, 2, 5, 0, 3, 6, 1, 4, 6>>[month + 1]
    ELSE <<0, 3, 3, 6, 1, 4, 6, 2, 5, 0, 3, 5>>[month + 1]
wday(year, month, day) ==
    LET y == year - 1
    IN  (day + month_offset(year, month) + 5 * (y % 4) + 4 * (y % 100) + 6 * (y % 400)) % 7

(* The loops add years, then months, up to the one that passes tmp, and    *)
(* take the last one back.                                                 *)
PassesEarly(next, tmp) == next >= tmp
Passes(next, tmp) == next > tmp
RECURSIVE YearsUpTo(_, _, _)
YearsUpTo(counter, years, tmp) ==
    LET next == counter + YEARSIZE(YEAR0 + years) * SECS_DAY
    IN  IF Passes(next, tmp) THEN [n |-> years, counter |-> counter]
        ELSE YearsUpTo(next, years + 1, tmp)
RECURSIVE MonthsUpTo(_, _, _, _)
MonthsUpTo(counter, months, tmp, year) ==
    LET next == counter + days_per_month(year, months) * SECS_DAY
    IN  IF Passes(next, tmp) THEN [n |-> months, counter |-> counter]
        ELSE MonthsUpTo(next, months + 1, tmp, year)

convtime(epoch) ==
    LET y   == YearsUpTo(0, 0, epoch)
        rem == epoch - y.counter
        m   == MonthsUpTo(0, 0, rem, YEAR0 + y.n)
        day == (rem - m.counter) \div SECS_DAY + 1
    IN  [tm_sec |-> epoch % 60, tm_min |-> (epoch % SECS_HOUR) \div 60,
         tm_hour |-> (epoch % SECS_DAY) \div (60 * 60),
         tm_year |-> y.n, tm_yday |-> rem \div SECS_DAY,
         tm_mon |-> m.n, tm_mday |-> day,
         tm_wday |-> wday(YEAR0 + y.n, m.n, day), tm_isdst |-> -1]

gmtime(t) == [convtime(t + EPOCH_SECS) EXCEPT !.tm_isdst = 0]
localtime(t) ==
    [convtime(t + EPOCH_SECS - zone0.timezone - (IF daylight = 1 THEN zone0.dst_off ELSE 0))
        EXCEPT !.tm_isdst = daylight]

(***************************************************************************)
(* A struct tm to seconds: normalise its fields, count the days, refuse    *)
(* what does not fit.                                                      *)
(***************************************************************************)
(* field += carry into the next one, never left negative.                  *)
Carried(value, size) ==
    [v |-> IF Rem(value, size) < 0 THEN Rem(value, size) + size ELSE Rem(value, size),
     c |-> IF Rem(value, size) < 0 THEN Quot(value, size) - 1 ELSE Quot(value, size)]

RECURSIVE BackMonths(_, _, _)
BackMonths(day, mon, year) ==
    LET m == IF mon = 0 THEN 11 ELSE mon - 1
        y == IF mon = 0 THEN year - 1 ELSE year
    IN  IF day >= 0 THEN [day |-> day, mon |-> mon, year |-> year]
        ELSE BackMonths(day + days_per_month(YEAR0 + y, m), m, y)
RECURSIVE OnMonths(_, _, _)
OnMonths(day, mon, year) ==
    LET size == days_per_month(YEAR0 + year, mon)
    IN  IF day < size THEN [day |-> day, mon |-> mon, year |-> year]
        ELSE OnMonths(day - size, (mon + 1) % 12, IF mon = 11 THEN year + 1 ELSE year)

Normalised(tm) ==
    LET s == Carried(tm.tm_sec, 60)
        i == Carried(tm.tm_min + s.c, 60)
        h == Carried(tm.tm_hour + i.c, 24)
        m == Carried(tm.tm_mon, 12)
        b == BackMonths(h.c + tm.tm_mday - 1, m.v, tm.tm_year + m.c)
        d == OnMonths(b.day, b.mon, b.year)
    IN  [tm EXCEPT !.tm_sec = s.v, !.tm_min = i.v, !.tm_hour = h.v,
                   !.tm_mon = d.mon, !.tm_year = d.year, !.tm_mday = d.day + 1]

(* Leap days between the epoch and the first day of the year.              *)
LeapsByQuotient(year, period) == Quot(year - EPOCH_YR, period)
LeapDays(year, period) ==
    Quot(year - EPOCH_YR, period) + Bit(year % period # 0 /\ year % period < EPOCH_YR % period)

YearDay(year, mon, mday) ==
    LET before[m \in 0 .. 11] == IF m = 0 THEN 0 ELSE before[m - 1] + days_per_month(year, m - 1)
    IN  before[mon] + mday - 1

Failed(tm) == [t |-> -1, tm |-> tm]

Day0(year) == (year - EPOCH_YR) * 365 + LeapDays(year, 4) - LeapDays(year, 100) + LeapDays(year, 400)
DstOff(c) == CASE c.tm_isdst > 0 -> zone0.dst_off
               [] c.tm_isdst = 0 -> 0
               [] OTHER -> IF daylight = 1 THEN zone0.dst_off ELSE 0
InSeconds(tm, c, day, yday, secs) ==
    IF day < 0 \/ (TimeMax - secs) \div SECS_DAY < day \/ DstOff(c) > secs + day * SECS_DAY + zone0.timezone
    THEN Failed(tm)
    ELSE [t |-> secs + day * SECS_DAY + zone0.timezone - DstOff(c),
          tm |-> [c EXCEPT !.tm_yday = yday, !.tm_wday = (day + 4) % 7,
                           !.tm_isdst = IF c.tm_isdst < 0 THEN daylight ELSE c.tm_isdst]]
FromDays(tm, c, yday) ==
    InSeconds(tm, c, Day0(c.tm_year + YEAR0) + yday, yday, (c.tm_hour * 60 + c.tm_min) * 60 + c.tm_sec)
FromFields(tm, c) == FromDays(tm, c, YearDay(c.tm_year + YEAR0, c.tm_mon, c.tm_mday))

mktime(tm) == IF tm.tm_year < EPOCH_YR - YEAR0 THEN Failed(tm) ELSE FromFields(tm, Normalised(tm))

(***************************************************************************)
(* strftime: how many characters it writes.  A format is a sequence of     *)
(* conversions; "x" stands for a plain character.                          *)
(***************************************************************************)
s_prnt(maxsize, len) == IF len < maxsize THEN len ELSE maxsize
RECURSIVE u_prnt(_, _, _)
u_prnt(maxsize, val, width) ==
    LET more == width - 1 > 0 \/ (width - 1 < 0 /\ val \div 10 # 0)
    IN  (IF more THEN u_prnt(IF maxsize > 0 THEN maxsize - 1 ELSE 0, val \div 10, width - 1) ELSE 0)
        + (IF maxsize > 0 THEN 1 ELSE 0)

DayNames == <<6, 6, 7, 9, 8, 6, 8>>
MonthNames == <<7, 8, 5, 5, 3, 4, 4, 6, 9, 7, 8, 8>>
Expands == [c |-> <<"a", "x", "b", "x", "d", "x", "H", "x", "M", "x", "S", "x", "Y">>,
            x |-> <<"a", "x", "b", "x", "d", "x", "Y">>,
            X |-> <<"H", "x", "M", "x", "S">>]

Conversion(f, max, tm) ==
    CASE f \in {"a", "b"} -> s_prnt(max, 3)
      [] f = "A" -> s_prnt(max, DayNames[tm.tm_wday + 1])
      [] f = "B" -> s_prnt(max, MonthNames[tm.tm_mon + 1])
      [] f = "d" -> u_prnt(max, tm.tm_mday, 2)
      [] f = "H" -> u_prnt(max, tm.tm_hour, 2)
      [] f = "I" -> u_prnt(max, ((tm.tm_hour + 11) % 12) + 1, 2)
      [] f = "j" -> u_prnt(max, tm.tm_yday + 1, 3)
      [] f = "m" -> u_prnt(max, tm.tm_mon + 1, 2)
      [] f = "M" -> u_prnt(max, tm.tm_min, 2)
      [] f = "p" -> s_prnt(max, 2)
      [] f = "S" -> u_prnt(max, tm.tm_sec, 2)
      [] f = "U" -> u_prnt(max, (tm.tm_yday + 7 - tm.tm_wday) \div 7, 2)
      [] f = "w" -> u_prnt(max, tm.tm_wday, 1)
      [] f = "W" -> u_prnt(max, (tm.tm_yday + 7 - ((tm.tm_wday + 6) % 7)) \div 7, 2)
      [] f = "y" -> u_prnt(max, tm.tm_year % 100, 2)
      [] f = "Y" -> u_prnt(max, tm.tm_year + YEAR0, -1)
      [] f = "Z" -> s_prnt(max, 3)
      [] OTHER -> 1

(* The result is 0 when the buffer is full; written counts every byte, the *)
(* terminator included.                                                    *)
HasRoomAlways(max) == TRUE
HasRoom(max) == max > 0
RECURSIVE FormatFrom(_, _, _, _)
FormatFrom(format, max, tm, n) ==
    IF max = 0 \/ format = <<>>
    THEN [ret |-> IF max > 0 THEN n ELSE 0, written |-> IF HasRoom(max) THEN n + 1 ELSE n]
    ELSE IF format[1] \in DOMAIN Expands
         THEN LET r == FormatFrom(Expands[format[1]], max, tm, 0)
              IN  IF r.ret = 0 THEN [ret |-> 0, written |-> n + r.written]
                  ELSE FormatFrom(Tail(format), max - r.ret, tm, n + r.ret)
         ELSE LET k == Conversion(format[1], max, tm)
              IN  FormatFrom(Tail(format), max - k, tm, n + k)
strftime(maxsize, format, tm) == FormatFrom(format, maxsize, tm, 0)
=============================================================================
