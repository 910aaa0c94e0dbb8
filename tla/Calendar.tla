------------------------------ MODULE Calendar ------------------------------
(***************************************************************************)
(* The calendar of date.h, which names the capture files: durations cut to *)
(* coarser units, days counted from 1970-01-01, the civil date of a day,   *)
(* its weekday, and arithmetic on months and years.  A day, a month or a   *)
(* weekday is a number, a year a signed 16-bit number, a date a record;    *)
(* `/' of C++ cuts towards zero (Cut), TLA+'s \div rounds down.            *)
(***************************************************************************)
EXTENDS Integers

----------------------------------------------------------------------------
\* Durations: the quotient in units of the coarser duration.

Cut(n, unit) == IF n >= 0 THEN n \div unit ELSE -((-n) \div unit)

\* Mutant: a negative duration is cut like a positive one.
FloorAsCast(n, unit) == Cut(n, unit)

Floor(n, unit) ==
  LET t == Cut(n, unit) IN IF t * unit > n THEN t - 1 ELSE t

Ceil(n, unit) ==
  LET t == Cut(n, unit) IN IF t * unit < n THEN t + 1 ELSE t

\* To the nearest unit; a tie goes to the even one.
Round(n, unit) ==
  LET t0    == Floor(n, unit)
      t1    == t0 + 1
      diff0 == n - t0 * unit
      diff1 == t1 * unit - n
  IN  IF diff0 = diff1
      THEN IF t0 - Cut(t0, 2) * 2 = 0 THEN t0 ELSE t1
      ELSE IF diff0 < diff1 THEN t0 ELSE t1

Magnitude(n) == IF n >= 0 THEN n ELSE -n

----------------------------------------------------------------------------
\* The widths of the fields: unsigned char, short, four bits.

Byte(n)  == n % 256
Short(n) == ((n + 32768) % 65536) - 32768
Nibble(n) == n % 16

MinYear == -32767
MaxYear == 32767

MonthOk(m)     == m \in 1..12
MonthPlus(m, n) ==
  LET mu == m + n - 1
      yr == Cut(IF mu >= 0 THEN mu ELSE mu - 11, 12)
  IN  Byte(mu - yr * 12 + 1)

\* Months from y to x going forward: the difference is an unsigned number.
MonthMinus(x, y) == IF x - y \in 0..11 THEN x - y ELSE x - y + 12

YearPlus(y, n) == Short(y + n)
YearOk(y)      == y # -32768
IsLeap(y)      == y % 4 = 0 /\ (y % 100 # 0 \/ y % 400 = 0)

----------------------------------------------------------------------------
\* Weekdays: Sunday is 0; 7 means Sunday too, 8 is no weekday.

Sunday   == 0
Monday   == 1
Thursday == 4

Weekday(n)    == Byte(IF n # 7 THEN n ELSE 0)
WeekdayOk(wd) == wd \in 0..6

\* The remainder by 7 of z read as a 32-bit unsigned number: 2^32 % 7 is 4.
UnsignedModSeven(z) == IF z >= 0 THEN z % 7 ELSE (z + 4) % 7

WeekdayFromDays(z) ==
  IF z >= -4 THEN (UnsignedModSeven(z + 4)) % 7 ELSE UnsignedModSeven(z)

WeekdayMinus(x, y) ==
  LET wdu == x - y
  IN  wdu - Cut(IF wdu >= 0 THEN wdu ELSE wdu - 6, 7) * 7

WeekdayPlus(wd, n) ==
  LET wdu == wd + n
  IN  Weekday(wdu - Cut(IF wdu >= 0 THEN wdu ELSE wdu - 6, 7) * 7)

IsoEncoding(wd) == IF wd = 0 THEN 7 ELSE wd

----------------------------------------------------------------------------
\* Year and month.

\* Mutant: the years below a December are cut, not rounded down.
YearMonthPlusCut(ym, months) ==
  LET dmi == ym.m - 1 + months
      dy  == Cut(dmi, 12)
  IN  [y |-> YearPlus(ym.y, dy), m |-> Byte(dmi - dy * 12 + 1)]

YearMonthPlus(ym, months) ==
  LET dmi == ym.m - 1 + months
      dy  == Cut(IF dmi >= 0 THEN dmi ELSE dmi - 11, 12)
  IN  [y |-> YearPlus(ym.y, dy), m |-> Byte(dmi - dy * 12 + 1)]

YearMonthMinus(x, y) == (x.y - y.y) * 12 + (x.m - y.m)

YearMonthLess(x, y) == x.y < y.y \/ (x.y = y.y /\ x.m < y.m)

\* A month and a day without a year: 29 February is a day.
MonthDayOk(m, d) ==
  /\ MonthOk(m)
  /\ 1 <= d
  /\ d <= <<31, 29, 31, 30, 31, 30, 31, 31, 30, 31, 30, 31>>[m]

\* The last day of a month; 29 for what is no month.
LastDay(y, m) ==
  IF (m # 2 \/ ~IsLeap(y)) /\ MonthOk(m)
  THEN <<31, 28, 31, 30, 31, 30, 31, 31, 30, 31, 30, 31>>[m]
  ELSE 29

----------------------------------------------------------------------------
\* Dates: year_month_day.

Ymd(y, m, d) == [y |-> Short(y), m |-> Byte(m), d |-> Byte(d)]

YmdOk(ymd) ==
  /\ YearOk(ymd.y) /\ MonthOk(ymd.m)
  /\ 1 <= ymd.d /\ ymd.d <= LastDay(ymd.y, ymd.m)

ToDays(ymd) ==
  LET y   == IF ymd.m <= 2 THEN ymd.y - 1 ELSE ymd.y
      era == Cut(IF y >= 0 THEN y ELSE y - 399, 400)
      yoe == y - era * 400
      mp  == IF ymd.m > 2 THEN ymd.m - 3 ELSE ymd.m + 9
      doy == (153 * mp + 2) \div 5 + ymd.d - 1
      doe == yoe * 365 + yoe \div 4 - yoe \div 100 + doy
  IN  era * 146097 + doe - 719468

\* The year of a day of an era, and the date of a day of a year that starts in
\* March.
YearOfEra(doe) == (doe - doe \div 1460 + doe \div 36524 - doe \div 146096) \div 365

\* Mutant: January is month 13 of the year before.
MonthFromMarchLate(mp) == IF mp <= 10 THEN mp + 3 ELSE mp - 9

MonthFromMarch(mp) == IF mp < 10 THEN mp + 3 ELSE mp - 9

DateFromMarch(y, doy, mp) ==
  Ymd(y + (IF MonthFromMarch(mp) <= 2 THEN 1 ELSE 0), MonthFromMarch(mp),
      doy - (153 * mp + 2) \div 5 + 1)

DateOfYear(y, doy) == DateFromMarch(y, doy, (5 * doy + 2) \div 153)

DateOfEra(era, doe, yoe) ==
  DateOfYear(yoe + era * 400, doe - (365 * yoe + yoe \div 4 - yoe \div 100))

FromDays(dp) ==
  LET z   == dp + 719468
      era == Cut(IF z >= 0 THEN z ELSE z - 146096, 146097)
      doe == z - era * 146097
  IN  DateOfEra(era, doe, YearOfEra(doe))

\* The days whose year fits: from the first of January of MinYear to the last
\* of December of MaxYear.
Days == ToDays(Ymd(MinYear, 1, 1)) .. ToDays(Ymd(MaxYear, 12, 31))

YmdLess(x, y) ==
  \/ x.y < y.y
  \/ x.y = y.y /\ x.m < y.m
  \/ x.y = y.y /\ x.m = y.m /\ x.d < y.d

YmdPlusMonths(ymd, months) ==
  LET ym == YearMonthPlus([y |-> ymd.y, m |-> ymd.m], months)
  IN  [y |-> ym.y, m |-> ym.m, d |-> ymd.d]

YmdPlusYears(ymd, years) == [ymd EXCEPT !.y = YearPlus(@, years)]

----------------------------------------------------------------------------
\* The n-th and the last weekday of a month.

\* Mutant: the seventh of a month is in its second week.
NthWeekdayFromDaysLate(dp) ==
  LET ymd == FromDays(dp)
  IN  [y |-> ymd.y, m |-> ymd.m, wd |-> Nibble(WeekdayFromDays(dp)),
       index |-> Nibble(ymd.d \div 7 + 1)]

NthWeekdayFromDays(dp) ==
  LET ymd == FromDays(dp)
  IN  [y |-> ymd.y, m |-> ymd.m, wd |-> Nibble(WeekdayFromDays(dp)),
       index |-> Nibble((ymd.d - 1) \div 7 + 1)]

NthWeekdayToDays(n) ==
  LET d == ToDays(Ymd(n.y, n.m, 1))
  IN  d + WeekdayMinus(n.wd, WeekdayFromDays(d)) + (n.index - 1) * 7

NthWeekdayOk(n) ==
  /\ YearOk(n.y) /\ MonthOk(n.m) /\ WeekdayOk(n.wd) /\ n.index >= 1
  /\ \/ n.index <= 4
     \/ WeekdayMinus(n.wd, WeekdayFromDays(ToDays(Ymd(n.y, n.m, 1))))
          + (n.index - 1) * 7 + 1 <= LastDay(n.y, n.m)

LastWeekdayToDays(y, m, wd) ==
  LET d == ToDays(Ymd(y, m, LastDay(y, m)))
  IN  d - WeekdayMinus(WeekdayFromDays(d), wd)

----------------------------------------------------------------------------
\* Weeks: the Monday on which the ISO year y starts, and the day's ISO year.

IsoStart(y) ==
  LastWeekdayToDays(YearPlus(y, -1), 12, Thursday) + WeekdayMinus(Monday, Thursday)

IsoYear(ld) ==
  LET y == FromDays(ld + 3).y
  IN  IF ld < IsoStart(y) THEN YearPlus(y, -1) ELSE y

IsoWeek(ld) == Cut(ld - IsoStart(IsoYear(ld)), 7) + 1

\* The first of the weekdays wd of the year y.
FirstWeekday(y, wd) == NthWeekdayToDays([y |-> y, m |-> 1, wd |-> wd, index |-> 1])

----------------------------------------------------------------------------
\* Time of day: hours, minutes, seconds and the rest of a duration of d ticks
\* of which there are `second' in a second.

HhMmSs(d, second) ==
  LET a == Magnitude(d)
      h == Cut(a, 3600 * second)
      m == Cut(a, 60 * second) - h * 60
      s == a - h * 3600 * second - m * 60 * second
  IN  [neg |-> d < 0, h |-> h, m |-> m, s |-> Cut(s, second),
       sub |-> s - Cut(s, second) * second, second |-> second]

TodToDuration(tod) ==
  LET d == ((tod.h * 60 + tod.m) * 60 + tod.s) * tod.second + tod.sub
  IN  IF tod.neg THEN -d ELSE d

InConventionalRange(tod) ==
  /\ ~tod.neg
  /\ tod.h < 24 /\ tod.m < 60 /\ tod.s < 60 /\ tod.sub < tod.second

IsAm(h) == 0 <= h /\ h < 12

Make12(h) == IF h < 12 THEN (IF h = 0 THEN 12 ELSE h) ELSE (IF h # 12 THEN h - 12 ELSE h)
=============================================================================
