----------------------------- MODULE DatesProofs ----------------------------
(***************************************************************************)
(* What date.h computes for every number of ticks, as long as the year     *)
(* fits a short.  The calendar comes first, for every day of the range:    *)
(*   - the date of a day and the day of a date, and the next date;         *)
(*   - weekdays, months and durations;                                     *)
(*   - the day numbers of years and of months, and the order of dates;     *)
(*   - weeks of the year, ISO years and their weeks;                       *)
(*   - the time of day.                                                    *)
(* Then the clock of Dates, for every unit of a tick:                      *)
(*   - each hand of the clock on the wall, and what is shown at a tick;    *)
(*   - one tick later: OnTheWall;                                          *)
(*   - TypeCorrect, MonthsAlwaysCount and ViewsAlwaysAgree.                *)
(* Then the names of files, for every two times:                           *)
(*   - format() character by character, for a format of any length;        *)
(*   - digits, the width that holds a number, and which text sorts first;  *)
(*   - NamesSort and NamesAlwaysInOrder.                                   *)
(***************************************************************************)
EXTENDS Dates, TLAPS, WellFoundedInduction, SequenceTheorems

----------------------------------------------------------------------------
\* The place of a day: in an era of 400 years that begins in March, century c,
\* leap cycle q in that, year k in that, and day r of the year. The last
\* century has a day more, and so has the last year of a cycle.
Parts(c, q, k, r) ==
  /\ c \in Int /\ 0 <= c /\ c <= 3
  /\ q \in Int /\ 0 <= q /\ q <= 24
  /\ k \in Int /\ 0 <= k /\ k <= 3
  /\ r \in Int /\ 0 <= r /\ r <= 365
  /\ r = 365 => k = 3 /\ (q = 24 => c = 3)

DayOfEra(c, q, k, r)   == 36524 * c + 1461 * q + 365 * k + r
DayAt(era, c, q, k, r) == 146097 * era + DayOfEra(c, q, k, r) - 719468
YearOfEraAt(c, q, k)   == 100 * c + 4 * q + k
YearAt(era, c, q, k)   == 400 * era + YearOfEraAt(c, q, k)

\* Every day of an era has a century, a cycle, a year and a day of the year.
LEMMA DaySplit ==
  ASSUME NEW doe \in Int, 0 <= doe, doe <= 146096
  PROVE  \E c, q, k, r \in Int :
           Parts(c, q, k, r) /\ doe = DayOfEra(c, q, k, r)
<1>1. PICK c \in Int, a \in Int :
        /\ doe = 36524 * c + a /\ 0 <= c /\ c <= 3
        /\ 0 <= a /\ a <= 36524 /\ (a = 36524 => c = 3)
  <2>1. CASE doe = 146096
    <3>1. doe = 36524 * 3 + 36524
      BY SMT, <2>1
    <3> QED
      BY SMT, <3>1
  <2>2. CASE doe # 146096
    <3>1. /\ doe = 36524 * (doe \div 36524) + (doe % 36524)
          /\ doe \div 36524 \in Int /\ doe % 36524 \in Int
          /\ 0 <= doe % 36524 /\ doe % 36524 <= 36523
      BY SMT
    <3>2. 0 <= doe \div 36524 /\ doe \div 36524 <= 3
      BY SMT, <2>2
    <3> QED
      BY SMT, <3>1, <3>2
  <2> QED
    BY SMT, <2>1, <2>2
<1>2. PICK q \in Int, b \in Int :
        a = 1461 * q + b /\ 0 <= q /\ q <= 24 /\ 0 <= b /\ b <= 1460
  <2>1. /\ a = 1461 * (a \div 1461) + (a % 1461)
        /\ a \div 1461 \in Int /\ a % 1461 \in Int
        /\ 0 <= a % 1461 /\ a % 1461 <= 1460
    BY SMT
  <2>2. 0 <= a \div 1461 /\ a \div 1461 <= 24
    BY SMT, <1>1
  <2> QED
    BY SMT, <2>1, <2>2
<1>3. PICK k \in Int, r \in Int :
        /\ b = 365 * k + r /\ 0 <= k /\ k <= 3
        /\ 0 <= r /\ r <= 365 /\ (r = 365 => k = 3)
  <2>1. CASE b = 1460
    <3>1. b = 365 * 3 + 365
      BY SMT, <2>1
    <3> QED
      BY SMT, <3>1
  <2>2. CASE b # 1460
    <3>1. /\ b = 365 * (b \div 365) + (b % 365)
          /\ b \div 365 \in Int /\ b % 365 \in Int
          /\ 0 <= b % 365 /\ b % 365 <= 364
      BY SMT
    <3>2. 0 <= b \div 365 /\ b \div 365 <= 3
      BY SMT, <1>2, <2>2
    <3> QED
      BY SMT, <3>1, <3>2
  <2> QED
    BY SMT, <2>1, <2>2
<1>4. doe = DayOfEra(c, q, k, r)
  BY SMT, <1>1, <1>2, <1>3 DEF DayOfEra
<1>5. r = 365 /\ q = 24 => c = 3
  BY SMT, <1>1, <1>2, <1>3
<1>6. Parts(c, q, k, r)
  BY SMT, <1>1, <1>2, <1>3, <1>5 DEF Parts
<1> QED
  BY <1>4, <1>6

\* Every day has a place.
LEMMA EraSplit ==
  ASSUME NEW dp \in Int
  PROVE  \E era, doe \in Int :
           0 <= doe /\ doe <= 146096 /\ dp = 146097 * era + doe - 719468
<1>1. PICK z \in Int : z = dp + 719468
  BY SMT
<1>2. /\ z = 146097 * (z \div 146097) + (z % 146097)
      /\ z \div 146097 \in Int /\ z % 146097 \in Int
      /\ 0 <= z % 146097 /\ z % 146097 <= 146096
  BY SMT
<1>3. PICK era \in Int, doe \in Int :
        z = 146097 * era + doe /\ 0 <= doe /\ doe <= 146096
  BY SMT, <1>2
<1>4. dp = 146097 * era + doe - 719468
  BY SMT, <1>1, <1>3
<1> QED
  BY SMT, <1>3, <1>4

LEMMA DayParts ==
  ASSUME NEW dp \in Int
  PROVE  \E era, c, q, k, r \in Int : Parts(c, q, k, r) /\ dp = DayAt(era, c, q, k, r)
<1>1. PICK era \in Int, doe \in Int :
        0 <= doe /\ doe <= 146096 /\ dp = 146097 * era + doe - 719468
  BY SMT, EraSplit
<1>2. \E c, q, k, r \in Int : Parts(c, q, k, r) /\ doe = DayOfEra(c, q, k, r)
  BY SMT, <1>1, DaySplit
<1>3. PICK c \in Int, q \in Int, k \in Int, r \in Int :
        Parts(c, q, k, r) /\ doe = DayOfEra(c, q, k, r)
  BY <1>2
<1>4. dp = DayAt(era, c, q, k, r)
  BY SMT, <1>1, <1>3 DEF DayAt
<1> QED
  BY <1>3, <1>4

\* The formula for the year finds it.
LEMMA YearFound ==
  ASSUME NEW c \in Int, NEW q \in Int, NEW k \in Int, NEW r \in Int,
         Parts(c, q, k, r)
  PROVE  YearOfEra(DayOfEra(c, q, k, r)) = YearOfEraAt(c, q, k)
<1>0. PICK doe \in Int : doe = 36524 * c + 1461 * q + 365 * k + r
  BY SMT DEF Parts
<1> USE <1>0 DEF Parts
<1>1. /\ doe \div 1460 \in Int
      /\ 1460 * (doe \div 1460) <= doe
      /\ doe < 1460 * (doe \div 1460) + 1460
  BY SMT
<1>2. (doe \div 36524) - (doe \div 146096) = c
  BY SMT
<1>3. PICK n \in Int : n = doe - doe \div 1460 + c
  BY SMT, <1>1
<1>4. 365 * (100 * c + 4 * q + k) <= n
  BY SMT, <1>1, <1>3
<1>5. n < 365 * (100 * c + 4 * q + k) + 365
  BY SMT, <1>1, <1>3
<1>6. n \div 365 = 100 * c + 4 * q + k
  BY SMT, <1>4, <1>5
<1>7. doe - doe \div 1460 + doe \div 36524 - doe \div 146096 = n
  BY SMT, <1>1, <1>2, <1>3
<1> QED
  BY SMT, <1>6, <1>7 DEF YearOfEra, YearOfEraAt, DayOfEra

\* What is left of the day is the day of its year.
LEMMA DayOfYearFound ==
  ASSUME NEW c \in Int, NEW q \in Int, NEW k \in Int, NEW r \in Int,
         Parts(c, q, k, r), NEW yoe, yoe = YearOfEraAt(c, q, k)
  PROVE  /\ yoe \in Int /\ 0 <= yoe /\ yoe <= 399
         /\ 365 * yoe + yoe \div 4 - yoe \div 100 = DayOfEra(c, q, k, r) - r
<1> USE DEF Parts, YearOfEraAt
<1>1. yoe \in Int /\ 0 <= yoe /\ yoe <= 399
  BY SMT
<1>2. yoe \div 4 = 25 * c + q
  BY SMT
<1>3. yoe \div 100 = c
  BY SMT
<1> QED
  BY SMT, <1>1, <1>2, <1>3 DEF DayOfEra

----------------------------------------------------------------------------
\* Months of a year that begins in March: months of 31, 30, 31, 30 and 31 days
\* again and again.

MonthStart(mp) == (153 * mp + 2) \div 5

\* The formula for the month finds it.
LEMMA MonthFound ==
  ASSUME NEW r \in Int, 0 <= r, r <= 365,
         NEW mp \in Int, mp = (5 * r + 2) \div 153
  PROVE  /\ 0 <= mp /\ mp <= 11
         /\ MonthStart(mp) \in Int
         /\ MonthStart(mp) <= r /\ r < MonthStart(mp + 1)
<1>1. 153 * mp <= 5 * r + 2 /\ 5 * r + 2 < 153 * mp + 153
  BY SMT
<1>2. 0 <= mp /\ mp <= 11
  BY SMT, <1>1
<1>3. /\ MonthStart(mp) \in Int
      /\ MonthStart(mp) <= r /\ r < MonthStart(mp + 1)
  BY SMT, <1>1, <1>2 DEF MonthStart
<1> QED
  BY SMT, <1>2, <1>3

\* The other way round, the day that is in month mp is found there.
LEMMA MonthKept ==
  ASSUME NEW r \in Int, NEW mp \in Int, 0 <= mp, mp <= 11,
         MonthStart(mp) <= r, r < MonthStart(mp + 1)
  PROVE  (5 * r + 2) \div 153 = mp
<1>1. 153 * mp <= 5 * r + 2
  BY SMT DEF MonthStart
<1>2. 5 * r + 2 < 153 * mp + 153
  BY SMT DEF MonthStart
<1> QED
  BY SMT, <1>1, <1>2

----------------------------------------------------------------------------
\* A date and its day.

\* The date of the day r of the year y that begins in March.
MarchDate(y, mp, r) ==
  [y |-> y + (IF MonthFromMarch(mp) <= 2 THEN 1 ELSE 0),
   m |-> MonthFromMarch(mp), d |-> r - MonthStart(mp) + 1]

\* A year of the range fits its field.
LEMMA ShortKeeps ==
  ASSUME NEW n \in Int, MinYear <= n, n <= MaxYear
  PROVE  Short(n) = n
BY SMT DEF Short, MinYear, MaxYear

\* Only the year of a date may not fit its field.
LEMMA DateFitsWidths ==
  ASSUME NEW y \in Int, NEW mp \in Int, 0 <= mp, mp <= 11,
         NEW r \in Int, MonthStart(mp) \in Int,
         MonthStart(mp) <= r, r < MonthStart(mp) + 31
  PROVE  LET x == MarchDate(y, mp, r)
         IN  DateFromMarch(y, r, mp) = [y |-> Short(x.y), m |-> x.m, d |-> x.d]
<1>1. MonthFromMarch(mp) \in Int /\ 1 <= MonthFromMarch(mp) /\ MonthFromMarch(mp) <= 12
  BY SMT DEF MonthFromMarch
<1>2. Byte(MonthFromMarch(mp)) = MonthFromMarch(mp)
  BY SMT, <1>1 DEF Byte
<1>3. Byte(r - MonthStart(mp) + 1) = r - MonthStart(mp) + 1
  BY SMT DEF Byte
<1> QED
  BY SMT, <1>2, <1>3 DEF DateFromMarch, MarchDate, Ymd, MonthStart

\* Month mp has at most 31 days.
LEMMA MonthsAreShort ==
  ASSUME NEW mp \in Int, 0 <= mp, mp <= 11
  PROVE  /\ MonthStart(mp) \in Int /\ 0 <= MonthStart(mp)
         /\ MonthStart(mp + 1) <= MonthStart(mp) + 31
BY SMT DEF MonthStart

DateAt(era, c, q, k, r) ==
  MarchDate(YearAt(era, c, q, k), (5 * r + 2) \div 153, r)

\* A day found in a month is one of its 31 days at most.
LEMMA DayInMonth ==
  ASSUME NEW r \in Int, 0 <= r, r <= 365,
         NEW mp \in Int, mp = (5 * r + 2) \div 153
  PROVE  r < MonthStart(mp) + 31
<1>1. /\ 0 <= mp /\ mp <= 11 /\ r < MonthStart(mp + 1)
  BY SMT, MonthFound
<1>2. MonthStart(mp) \in Int /\ MonthStart(mp + 1) \in Int
  BY SMT DEF MonthStart
<1>3. MonthStart(mp + 1) <= MonthStart(mp) + 31
  BY SMT, <1>1, MonthsAreShort
<1> QED
  BY SMT, <1>1, <1>2, <1>3

\* from_days() finds the date of a place, its year cut to a short, and
\* to_days() finds the place of a date.
LEMMA DateOfAnyDay ==
  ASSUME NEW era \in Int, NEW c \in Int, NEW q \in Int, NEW k \in Int,
         NEW r \in Int, Parts(c, q, k, r)
  PROVE  LET x == DateAt(era, c, q, k, r)
         IN  FromDays(DayAt(era, c, q, k, r)) = [y |-> Short(x.y), m |-> x.m, d |-> x.d]
<1> DEFINE doe == DayOfEra(c, q, k, r)
           yoe == YearOfEraAt(c, q, k)
           dp  == DayAt(era, c, q, k, r)
           mp  == (5 * r + 2) \div 153
<1>1. doe \in Int /\ 0 <= doe /\ doe <= 146096
  BY SMT DEF Parts, DayOfEra
<1>2. /\ yoe \in Int /\ 0 <= yoe /\ yoe <= 399
      /\ 365 * yoe + yoe \div 4 - yoe \div 100 = doe - r
  BY SMT, DayOfYearFound
<1>3. YearOfEra(doe) = yoe
  BY SMT, YearFound
<1>4. dp = 146097 * era + doe - 719468
  BY SMT DEF DayAt
<1>5. YearAt(era, c, q, k) = yoe + era * 400 /\ yoe + era * 400 \in Int
  BY SMT, <1>2 DEF YearAt
<1> HIDE DEF doe, yoe, dp
<1>6. FromDays(dp) = DateOfEra(era, doe, yoe)
  <2>1. PICK z \in Int : z = dp + 719468
    BY SMT, <1>1, <1>4
  <2>2. z = 146097 * era + doe
    BY SMT, <1>1, <1>4, <2>1
  <2>3. Cut(IF z >= 0 THEN z ELSE z - 146096, 146097) = era
    BY SMT, <1>1, <2>2 DEF Cut
  <2>4. z - era * 146097 = doe
    BY SMT, <1>1, <2>2
  <2> QED
    BY SMT, <1>3, <2>1, <2>3, <2>4 DEF FromDays
<1>7. doe - (365 * yoe + yoe \div 4 - yoe \div 100) = r
  BY SMT, <1>1, <1>2
<1>8. DateOfEra(era, doe, yoe) = DateFromMarch(YearAt(era, c, q, k), r, mp)
  BY SMT, <1>5, <1>7 DEF DateOfEra, DateOfYear
<1>9. r \in Int /\ 0 <= r /\ r <= 365 /\ mp \in Int
  BY SMT DEF Parts
<1>10. /\ 0 <= mp /\ mp <= 11
       /\ MonthStart(mp) \in Int /\ MonthStart(mp) <= r /\ r < MonthStart(mp) + 31
  BY SMT, <1>9, MonthFound, DayInMonth
<1>11. DateAt(era, c, q, k, r) = MarchDate(YearAt(era, c, q, k), mp, r)
  BY DEF DateAt
<1> HIDE DEF mp
<1> DEFINE x == MarchDate(YearAt(era, c, q, k), mp, r)
<1>12. DateFromMarch(YearAt(era, c, q, k), r, mp) = [y |-> Short(x.y), m |-> x.m, d |-> x.d]
  BY SMT, <1>5, <1>9, <1>10, DateFitsWidths
<1> QED
  BY <1>6, <1>8, <1>11, <1>12 DEF dp

\* The date of a day, where the year fits.
LEMMA DateOfDay ==
  ASSUME NEW era \in Int, NEW c \in Int, NEW q \in Int, NEW k \in Int,
         NEW r \in Int, Parts(c, q, k, r),
         MinYear <= DateAt(era, c, q, k, r).y, DateAt(era, c, q, k, r).y <= MaxYear
  PROVE  FromDays(DayAt(era, c, q, k, r)) = DateAt(era, c, q, k, r)
<1> DEFINE x == DateAt(era, c, q, k, r)
<1>1. x.y \in Int
  <2>1. YearAt(era, c, q, k) \in Int
    BY SMT DEF YearAt, YearOfEraAt
  <2> QED
    BY SMT, <2>1 DEF DateAt, MarchDate
<1>2. Short(x.y) = x.y
  BY <1>1, ShortKeeps
<1>3. x = [y |-> x.y, m |-> x.m, d |-> x.d]
  BY DEF DateAt, MarchDate
<1>4. FromDays(DayAt(era, c, q, k, r)) = [y |-> Short(x.y), m |-> x.m, d |-> x.d]
  BY DateOfAnyDay
<1> HIDE DEF x
<1> QED
  BY <1>2, <1>3, <1>4 DEF x

\* The day of a date, from its place.
LEMMA DayOfDate ==
  ASSUME NEW era \in Int, NEW c \in Int, NEW q \in Int, NEW k \in Int,
         NEW r \in Int, Parts(c, q, k, r), NEW mp \in Int, 0 <= mp, mp <= 11
  PROVE  ToDays(MarchDate(YearAt(era, c, q, k), mp, r)) = DayAt(era, c, q, k, r)
<1> DEFINE y    == YearAt(era, c, q, k)
           yoe  == YearOfEraAt(c, q, k)
           date == MarchDate(y, mp, r)
           m    == MonthFromMarch(mp)
<1>1. m \in Int /\ (IF m > 2 THEN m - 3 ELSE m + 9) = mp
  BY SMT DEF MonthFromMarch
<1>2. /\ yoe \in Int /\ 0 <= yoe /\ yoe <= 399
      /\ 365 * yoe + yoe \div 4 - yoe \div 100 = DayOfEra(c, q, k, r) - r
  BY SMT, DayOfYearFound
<1>3. y \in Int /\ y = 400 * era + yoe
  BY SMT, <1>2 DEF YearAt
<1> HIDE DEF y, yoe
<1>4. (IF m <= 2 THEN date.y - 1 ELSE date.y) = y
  BY SMT, <1>1, <1>3 DEF MarchDate
<1>5. Cut(IF y >= 0 THEN y ELSE y - 399, 400) = era /\ y - era * 400 = yoe
  BY SMT, <1>2, <1>3 DEF Cut
<1>6. (153 * mp + 2) \div 5 + date.d - 1 = r
  BY SMT DEF MarchDate, MonthStart
<1>7. date.m = m
  BY DEF MarchDate
<1>8. DayOfEra(c, q, k, r) \in Int /\ yoe \div 4 \in Int /\ yoe \div 100 \in Int
  BY SMT, <1>2 DEF DayOfEra
<1> HIDE DEF date, m
<1>9. ToDays(date) = era * 146097 + (yoe * 365 + yoe \div 4 - yoe \div 100 + r) - 719468
  BY SMT, <1>1, <1>4, <1>5, <1>6, <1>7 DEF ToDays
<1>10. ToDays(date) = 146097 * era + DayOfEra(c, q, k, r) - 719468
  BY SMT, <1>2, <1>8, <1>9
<1> QED
  BY SMT, <1>10 DEF DayAt, date, y

\* The days of the range as numbers.
LEMMA DaysAre ==
  \A n : n \in Days <=> n \in Int /\ -12687428 <= n /\ n <= 11248737
<1>1. PICK i \in Int, j \in Int :
        /\ i = ToDays(Ymd(MinYear, 1, 1)) /\ i = -12687428
        /\ j = ToDays(Ymd(MaxYear, 12, 31)) /\ j = 11248737
  <2>1. ToDays(Ymd(MinYear, 1, 1)) = -12687428
    BY SMT DEF ToDays, Ymd, Short, Byte, MinYear, Cut
  <2>2. ToDays(Ymd(MaxYear, 12, 31)) = 11248737
    BY SMT DEF ToDays, Ymd, Short, Byte, MaxYear, Cut
  <2> QED
    BY SMT, <2>1, <2>2
<1>2. Days = i .. j
  BY SMT, <1>1 DEF Days
<1>3. \A n : n \in i .. j <=> n \in Int /\ i <= n /\ n <= j
  BY SMT
<1>4. ASSUME NEW n
      PROVE  n \in Days <=> n \in Int /\ -12687428 <= n /\ n <= 11248737
  <2>1. n \in Days <=> n \in Int /\ i <= n /\ n <= j
    BY SMT, <1>2, <1>3
  <2> QED
    BY SMT, <1>1, <2>1
<1> QED
  BY SMT, <1>4

LEMMA DaysBounds ==
  ASSUME NEW dp \in Days
  PROVE  dp \in Int /\ -12687428 <= dp /\ dp <= 11248737
BY SMT, DaysAre

\* The year of a day of the range fits its field.
LEMMA YearsFit ==
  ASSUME NEW era \in Int, NEW c \in Int, NEW q \in Int, NEW k \in Int,
         NEW r \in Int, Parts(c, q, k, r), DayAt(era, c, q, k, r) \in Days
  PROVE  /\ DateAt(era, c, q, k, r).y \in Int
         /\ MinYear <= DateAt(era, c, q, k, r).y
         /\ DateAt(era, c, q, k, r).y <= MaxYear
<1> DEFINE y == YearAt(era, c, q, k)
           doe == DayOfEra(c, q, k, r)
<1>1. /\ -12687428 <= DayAt(era, c, q, k, r)
      /\ DayAt(era, c, q, k, r) <= 11248737
  BY SMT, DaysBounds
<1>2. doe \in Int /\ 0 <= doe /\ doe <= 146096
  BY SMT DEF Parts, DayOfEra
<1>3. -11967960 <= 146097 * era + doe /\ 146097 * era + doe <= 11968205
  BY SMT, <1>1, <1>2 DEF DayAt
<1>4. -82 <= era /\ era <= 81
  BY SMT, <1>2, <1>3
<1>5. y \in Int /\ y = 400 * era + 100 * c + 4 * q + k
  BY SMT DEF YearAt, YearOfEraAt, Parts
<1>6. DateAt(era, c, q, k, r).y = y + (IF r >= 306 THEN 1 ELSE 0)
  <2>1. (5 * r + 2) \div 153 < 10 <=> r < 306
    BY SMT DEF Parts
  <2>2. MonthFromMarch((5 * r + 2) \div 153) <= 2 <=> r >= 306
    BY SMT, <2>1 DEF Parts, MonthFromMarch
  <2> QED
    BY SMT, <1>5, <2>2 DEF DateAt, MarchDate
<1> HIDE DEF y
<1>7. CASE era = -82
  <2>1. 36524 * c + 1461 * q + 365 * k + r >= 11994
    BY SMT, <1>3, <1>7 DEF DayOfEra
  <2>2. c >= 1 \/ q >= 9 \/ (q = 8 /\ (k >= 1 \/ r >= 306))
    BY SMT, <2>1 DEF Parts
  <2> QED
    BY SMT, <1>5, <1>6, <1>7, <2>2 DEF Parts, MinYear, MaxYear
<1>8. CASE era = 81
  <2>1. 36524 * c + 1461 * q + 365 * k + r <= 134348
    BY SMT, <1>3, <1>8 DEF DayOfEra
  <2>2. c <= 2 \/ q <= 15 \/ (q = 16 /\ (k <= 2 \/ r <= 305))
    BY SMT, <2>1 DEF Parts
  <2> QED
    BY SMT, <1>5, <1>6, <1>8, <2>2 DEF Parts, MinYear, MaxYear
<1>9. CASE -82 < era /\ era < 81
  BY SMT, <1>5, <1>6, <1>9 DEF Parts, MinYear, MaxYear
<1> QED
  BY SMT, <1>4, <1>7, <1>8, <1>9

\* The date of a day of the range, and what its place says of it.
LEMMA DayPlace ==
  ASSUME NEW dp \in Days
  PROVE  \E era, c, q, k, r \in Int :
           /\ Parts(c, q, k, r) /\ dp = DayAt(era, c, q, k, r)
           /\ FromDays(dp) = DateAt(era, c, q, k, r)
           /\ DateAt(era, c, q, k, r).y \in Int
           /\ MinYear <= DateAt(era, c, q, k, r).y
           /\ DateAt(era, c, q, k, r).y <= MaxYear
<1>1. dp \in Int
  BY SMT, DaysBounds
<1>2. PICK era \in Int, c \in Int, q \in Int, k \in Int, r \in Int :
        Parts(c, q, k, r) /\ dp = DayAt(era, c, q, k, r)
  BY <1>1, DayParts
<1>3. /\ DateAt(era, c, q, k, r).y \in Int
      /\ MinYear <= DateAt(era, c, q, k, r).y
      /\ DateAt(era, c, q, k, r).y <= MaxYear
  BY <1>2, YearsFit
<1>4. FromDays(dp) = DateAt(era, c, q, k, r)
  BY <1>2, <1>3, DateOfDay
<1> QED
  BY <1>2, <1>3, <1>4

\* from_days() and to_days() undo each other: the date computed for a day is
\* the date of that day and of no other, for each of the 24 million days whose
\* year fits a short.
THEOREM DaysThereAndBack == \A dp \in Days : ToDays(FromDays(dp)) = dp
<1> SUFFICES ASSUME NEW dp \in Days
             PROVE  ToDays(FromDays(dp)) = dp
  OBVIOUS
<1>1. PICK era \in Int, c \in Int, q \in Int, k \in Int, r \in Int :
        /\ Parts(c, q, k, r) /\ dp = DayAt(era, c, q, k, r)
        /\ FromDays(dp) = DateAt(era, c, q, k, r)
  BY DayPlace
<1>2. /\ (5 * r + 2) \div 153 \in Int
      /\ 0 <= (5 * r + 2) \div 153 /\ (5 * r + 2) \div 153 <= 11
  BY SMT, <1>1 DEF Parts
<1>3. ToDays(DateAt(era, c, q, k, r)) = DayAt(era, c, q, k, r)
  BY SMT, <1>1, <1>2, DayOfDate DEF DateAt
<1> QED
  BY <1>1, <1>3

----------------------------------------------------------------------------
\* Dates that exist.

\* The months from March to January have the lengths that last_day() gives.
LEMMA MonthLengths ==
  ASSUME NEW y, NEW mp \in Int, 0 <= mp, mp <= 10
  PROVE  MonthStart(mp + 1) = MonthStart(mp) + LastDay(y, MonthFromMarch(mp))
<1> USE DEF MonthStart, LastDay, MonthFromMarch, MonthOk
<1>0. CASE mp = 0
  BY SMT, <1>0
<1>1. CASE mp = 1
  BY SMT, <1>1
<1>2. CASE mp = 2
  BY SMT, <1>2
<1>3. CASE mp = 3
  BY SMT, <1>3
<1>4. CASE mp = 4
  BY SMT, <1>4
<1>5. CASE mp = 5
  BY SMT, <1>5
<1>6. CASE mp = 6
  BY SMT, <1>6
<1>7. CASE mp = 7
  BY SMT, <1>7
<1>8. CASE mp = 8
  BY SMT, <1>8
<1>9. CASE mp = 9
  BY SMT, <1>9
<1>10. CASE mp = 10
  BY SMT, <1>10
<1> QED
  BY SMT, <1>0, <1>1, <1>2, <1>3, <1>4, <1>5, <1>6, <1>7, <1>8, <1>9, <1>10

\* A year that begins in March ends with a leap day just when its last day may
\* be day 365.
LEMMA LeapDays ==
  ASSUME NEW era \in Int, NEW c \in Int, NEW q \in Int, NEW k \in Int,
         Parts(c, q, k, 0)
  PROVE  IsLeap(YearAt(era, c, q, k) + 1) <=> k = 3 /\ (q = 24 => c = 3)
<1>0. PICK y \in Int : y = 400 * era + 100 * c + 4 * q + k
  BY SMT
<1>1. (y + 1) % 4 = 0 <=> k = 3
  BY SMT, <1>0 DEF Parts
<1>2. ASSUME k = 3
      PROVE  (y + 1) % 100 = 0 <=> q = 24
  BY SMT, <1>0, <1>2 DEF Parts
<1>3. ASSUME k = 3, q = 24
      PROVE  (y + 1) % 400 = 0 <=> c = 3
  BY SMT, <1>0, <1>3 DEF Parts
<1>4. (y + 1) % 400 = 0 => (y + 1) % 100 = 0
  BY SMT, <1>0
<1>5. IsLeap(y + 1) <=> k = 3 /\ (q = 24 => c = 3)
  BY SMT, <1>1, <1>2, <1>3, <1>4 DEF IsLeap
<1> QED
  BY SMT, <1>0, <1>5 DEF YearAt, YearOfEraAt, Parts

LEMMA FebruaryLength ==
  ASSUME NEW y
  PROVE  LastDay(y, 2) = IF IsLeap(y) THEN 29 ELSE 28
BY SMT DEF LastDay, MonthOk

LEMMA YearNumbers == MinYear \in Int /\ MaxYear \in Int
BY SMT DEF MinYear, MaxYear

LEMMA YearInRange ==
  ASSUME NEW y \in Int, MinYear <= y, y <= MaxYear
  PROVE  YearOk(y) /\ y \in MinYear..MaxYear
<1>1. YearOk(y)
  BY SMT DEF YearOk, MinYear
<1> QED
  BY SMT, <1>1, YearNumbers

\* Each day from the first to the last of the range has a date that exists:
\* a month from January to December and a day which that month has.
THEOREM EveryDayHasADate ==
  \A dp \in Days : YmdOk(FromDays(dp)) /\ FromDays(dp).y \in MinYear..MaxYear
<1> SUFFICES ASSUME NEW dp \in Days
             PROVE  YmdOk(FromDays(dp)) /\ FromDays(dp).y \in MinYear..MaxYear
  OBVIOUS
<1>1. PICK era \in Int, c \in Int, q \in Int, k \in Int, r \in Int :
        /\ Parts(c, q, k, r) /\ dp = DayAt(era, c, q, k, r)
        /\ FromDays(dp) = DateAt(era, c, q, k, r)
        /\ DateAt(era, c, q, k, r).y \in Int
        /\ MinYear <= DateAt(era, c, q, k, r).y
        /\ DateAt(era, c, q, k, r).y <= MaxYear
  BY DayPlace
<1> DEFINE y    == YearAt(era, c, q, k)
           mp   == (5 * r + 2) \div 153
           date == MarchDate(y, mp, r)
<1>2. y \in Int /\ mp \in Int /\ r \in Int /\ 0 <= r /\ r <= 365
  BY SMT, <1>1 DEF Parts, YearAt, YearOfEraAt
<1>3. DateAt(era, c, q, k, r) = date
  BY DEF DateAt
<1>4. /\ 0 <= mp /\ mp <= 11 /\ MonthStart(mp) \in Int
      /\ MonthStart(mp) <= r /\ r < MonthStart(mp + 1)
  BY SMT, <1>2, MonthFound
<1>5. r = 365 => IsLeap(y + 1)
  <2>1. Parts(c, q, k, 0)
    BY SMT, <1>1 DEF Parts
  <2>2. IsLeap(y + 1) <=> k = 3 /\ (q = 24 => c = 3)
    BY <2>1, LeapDays
  <2> QED
    BY SMT, <1>1, <2>2 DEF Parts
<1> HIDE DEF mp, y
<1>6. MonthOk(date.m)
  BY SMT, <1>2, <1>4 DEF MonthOk, MarchDate, MonthFromMarch
<1>7. 1 <= date.d
  BY SMT, <1>2, <1>4 DEF MarchDate
<1>8. date.d <= LastDay(date.y, date.m)
  <2>1. CASE mp <= 10
    <3>1. MonthStart(mp + 1) = MonthStart(mp) + LastDay(date.y, MonthFromMarch(mp))
      BY SMT, <1>2, <1>4, <2>1, MonthLengths
    <3>2. MonthStart(mp + 1) \in Int /\ LastDay(date.y, MonthFromMarch(mp)) \in Int
      BY SMT, <1>2, <1>4 DEF MonthStart, LastDay, MonthFromMarch, MonthOk
    <3> QED
      BY SMT, <1>2, <1>4, <3>1, <3>2 DEF MarchDate
  <2>2. CASE mp = 11
    <3>1. date.m = 2 /\ date.y = y + 1 /\ date.d = r - 336
      BY SMT, <1>2, <2>2 DEF MarchDate, MonthFromMarch, MonthStart
    <3>2. LastDay(date.y, date.m) = IF IsLeap(y + 1) THEN 29 ELSE 28
      BY SMT, <3>1, FebruaryLength
    <3> QED
      BY SMT, <1>2, <1>5, <3>1, <3>2
  <2> QED
    BY SMT, <1>2, <1>4, <2>1, <2>2
<1> HIDE DEF date
<1>9. YearOk(date.y) /\ date.y \in MinYear..MaxYear
  <2>1. date.y \in Int /\ MinYear <= date.y /\ date.y <= MaxYear
    BY <1>1, <1>3
  <2> QED
    BY <2>1, YearInRange
<1> QED
  BY <1>1, <1>3, <1>6, <1>7, <1>8, <1>9 DEF YmdOk

\* Every year has a place.
LEMMA YearParts ==
  ASSUME NEW y \in Int
  PROVE  \E era, c, q, k \in Int : Parts(c, q, k, 0) /\ y = YearAt(era, c, q, k)
<1>1. PICK era \in Int, yoe \in Int : y = 400 * era + yoe /\ 0 <= yoe /\ yoe <= 399
  <2>1. /\ y = 400 * (y \div 400) + (y % 400) /\ y \div 400 \in Int
        /\ y % 400 \in Int /\ 0 <= y % 400 /\ y % 400 <= 399
    BY SMT
  <2> QED
    BY SMT, <2>1
<1>2. PICK c \in Int, a \in Int : yoe = 100 * c + a /\ 0 <= a /\ a <= 99
  <2>1. /\ yoe = 100 * (yoe \div 100) + (yoe % 100) /\ yoe \div 100 \in Int
        /\ yoe % 100 \in Int /\ 0 <= yoe % 100 /\ yoe % 100 <= 99
    BY SMT
  <2> QED
    BY SMT, <2>1
<1>3. PICK q \in Int, k \in Int : a = 4 * q + k /\ 0 <= k /\ k <= 3
  <2>1. /\ a = 4 * (a \div 4) + (a % 4) /\ a \div 4 \in Int
        /\ a % 4 \in Int /\ 0 <= a % 4 /\ a % 4 <= 3
    BY SMT
  <2> QED
    BY SMT, <2>1
<1>4. Parts(c, q, k, 0)
  BY SMT, <1>1, <1>2, <1>3 DEF Parts
<1>5. y = YearAt(era, c, q, k)
  BY SMT, <1>1, <1>2, <1>3 DEF YearAt, YearOfEraAt
<1> QED
  BY <1>4, <1>5

\* to_days() and from_days() undo each other from the other side too: each date
\* that exists is the date computed for its day, so that two dates never share
\* a day.
THEOREM DatesThereAndBack ==
  \A date \in [y : MinYear..MaxYear, m : 1..12, d : 1..31] :
    YmdOk(date) => FromDays(ToDays(date)) = date
<1> SUFFICES ASSUME NEW date \in [y : MinYear..MaxYear, m : 1..12, d : 1..31],
                    YmdOk(date)
             PROVE  FromDays(ToDays(date)) = date
  OBVIOUS
<1> DEFINE mp == IF date.m > 2 THEN date.m - 3 ELSE date.m + 9
           y  == IF date.m <= 2 THEN date.y - 1 ELSE date.y
           r  == MonthStart(mp) + date.d - 1
<1>1. /\ date.y \in Int /\ MinYear <= date.y /\ date.y <= MaxYear
      /\ date.m \in Int /\ 1 <= date.m /\ date.m <= 12
      /\ date.d \in Int /\ 1 <= date.d /\ date.d <= LastDay(date.y, date.m)
  <2>1. MinYear \in Int /\ MaxYear \in Int
    BY YearNumbers
  <2>2. date.y \in MinYear..MaxYear /\ date.m \in 1..12 /\ date.d \in 1..31
    BY SMT
  <2>3. 1 <= date.d /\ date.d <= LastDay(date.y, date.m)
    BY SMT DEF YmdOk
  <2> QED
    BY SMT, <2>1, <2>2, <2>3
<1>2. date = [y |-> date.y, m |-> date.m, d |-> date.d]
  BY SMT
<1>3. mp \in Int /\ 0 <= mp /\ mp <= 11 /\ y \in Int /\ MonthFromMarch(mp) = date.m
  BY SMT, <1>1 DEF MonthFromMarch
<1>4. MonthStart(mp) \in Int /\ 0 <= MonthStart(mp) /\ MonthStart(mp + 1) \in Int
  BY SMT, <1>3 DEF MonthStart
<1>5. date.y = y + (IF MonthFromMarch(mp) <= 2 THEN 1 ELSE 0)
  BY SMT, <1>1, <1>3
<1> HIDE DEF mp, y
<1>6. date = MarchDate(y, mp, r)
  <2>1. r - MonthStart(mp) + 1 = date.d
    BY SMT, <1>1, <1>4
  <2> HIDE DEF r
  <2> QED
    BY <1>2, <1>3, <1>5, <2>1 DEF MarchDate
<1>7. PICK era \in Int, c \in Int, q \in Int, k \in Int :
        Parts(c, q, k, 0) /\ y = YearAt(era, c, q, k)
  BY <1>3, YearParts
<1>8. /\ MonthStart(mp) <= r /\ r < MonthStart(mp + 1) /\ r \in Int /\ 0 <= r
      /\ r <= 365 /\ (r = 365 => IsLeap(y + 1))
  <2>1. CASE mp <= 10
    <3>1. MonthStart(mp + 1) = MonthStart(mp) + LastDay(date.y, date.m)
      BY SMT, <1>3, <2>1, MonthLengths
    <3>2. LastDay(date.y, date.m) \in Int
      BY SMT, <1>1 DEF LastDay, MonthOk
    <3>3. MonthStart(mp + 1) <= 337
      BY SMT, <1>3, <2>1 DEF MonthStart
    <3> QED
      BY SMT, <1>1, <1>4, <3>1, <3>2, <3>3
  <2>2. CASE mp = 11
    <3>1. date.m = 2 /\ date.y = y + 1 /\ MonthStart(mp) = 337 /\ MonthStart(mp + 1) = 367
      BY SMT, <1>3, <1>5, <2>2 DEF MonthFromMarch, MonthStart
    <3>2. LastDay(date.y, date.m) = IF IsLeap(y + 1) THEN 29 ELSE 28
      BY SMT, <3>1, FebruaryLength
    <3> QED
      BY SMT, <1>1, <3>1, <3>2
  <2> QED
    BY SMT, <1>3, <2>1, <2>2
<1>9. Parts(c, q, k, r)
  <2>1. IsLeap(y + 1) <=> k = 3 /\ (q = 24 => c = 3)
    BY <1>7, LeapDays
  <2> QED
    BY SMT, <1>7, <1>8, <2>1 DEF Parts
<1>10. (5 * r + 2) \div 153 = mp
  BY SMT, <1>3, <1>8, MonthKept
<1> HIDE DEF r
<1>11. DateAt(era, c, q, k, r) = date
  BY <1>6, <1>7, <1>10 DEF DateAt
<1>12. ToDays(date) = DayAt(era, c, q, k, r)
  BY SMT, <1>3, <1>6, <1>7, <1>8, <1>9, DayOfDate
<1>13. FromDays(DayAt(era, c, q, k, r)) = DateAt(era, c, q, k, r)
  <2>1. /\ MinYear <= DateAt(era, c, q, k, r).y
        /\ DateAt(era, c, q, k, r).y <= MaxYear
    BY <1>1, <1>11
  <2>2. r \in Int
    BY <1>8
  <2> QED
    BY <1>7, <1>9, <2>1, <2>2, DateOfDay
<1> QED
  BY <1>11, <1>12, <1>13

----------------------------------------------------------------------------
\* The next day.

NextDay(x) ==
  IF x.d < LastDay(x.y, x.m) THEN [y |-> x.y, m |-> x.m, d |-> x.d + 1]
  ELSE IF x.m < 12 THEN [y |-> x.y, m |-> x.m + 1, d |-> 1]
  ELSE [y |-> x.y + 1, m |-> 1, d |-> 1]

EndsYear(era, c, q, k, r) ==
  r = IF IsLeap(YearAt(era, c, q, k) + 1) THEN 365 ELSE 364

NextYearFollows(era, c, q, k, r) ==
  \E era1, c1, q1, k1, r1 \in Int :
    /\ Parts(c1, q1, k1, r1) /\ r1 = 0
    /\ YearAt(era1, c1, q1, k1) = YearAt(era, c, q, k) + 1
    /\ DayAt(era1, c1, q1, k1, r1) = DayAt(era, c, q, k, r) + 1

\* After the last day of a year that begins in March comes the first of the
\* next, in the place that follows.
LEMMA NextYearPlace ==
  ASSUME NEW era \in Int, NEW c \in Int, NEW q \in Int, NEW k \in Int,
         NEW r \in Int, Parts(c, q, k, r),
         EndsYear(era, c, q, k, r)
  PROVE  NextYearFollows(era, c, q, k, r)
<1>1. Parts(c, q, k, 0)
  BY SMT DEF Parts
<1>2. IsLeap(YearAt(era, c, q, k) + 1) <=> k = 3 /\ (q = 24 => c = 3)
  BY <1>1, LeapDays
<1>3. r = IF k = 3 /\ (q = 24 => c = 3) THEN 365 ELSE 364
  BY SMT, <1>2 DEF EndsYear
<1> USE DEF YearAt, YearOfEraAt, DayAt, DayOfEra, Parts
<1>4. CASE k < 3
  <2>1. Parts(c, q, k + 1, 0)
    BY SMT, <1>4
  <2>2. YearAt(era, c, q, k + 1) = YearAt(era, c, q, k) + 1
    BY SMT
  <2>3. DayAt(era, c, q, k + 1, 0) = DayAt(era, c, q, k, r) + 1
    BY SMT, <1>3, <1>4
  <2>4. k + 1 \in Int /\ 0 \in Int
    BY SMT
  <2> HIDE DEF YearAt, DayAt, Parts
  <2> QED
    BY <2>1, <2>2, <2>3, <2>4 DEF NextYearFollows
<1>5. CASE k = 3 /\ q < 24
  <2>1. Parts(c, q + 1, 0, 0)
    BY SMT, <1>5
  <2>2. YearAt(era, c, q + 1, 0) = YearAt(era, c, q, k) + 1
    BY SMT, <1>5
  <2>3. DayAt(era, c, q + 1, 0, 0) = DayAt(era, c, q, k, r) + 1
    BY SMT, <1>3, <1>5
  <2>4. q + 1 \in Int /\ 0 \in Int
    BY SMT
  <2> HIDE DEF YearAt, DayAt, Parts
  <2> QED
    BY <2>1, <2>2, <2>3, <2>4 DEF NextYearFollows
<1>6. CASE k = 3 /\ q = 24 /\ c < 3
  <2>1. Parts(c + 1, 0, 0, 0)
    BY SMT, <1>6
  <2>2. YearAt(era, c + 1, 0, 0) = YearAt(era, c, q, k) + 1
    BY SMT, <1>6
  <2>3. DayAt(era, c + 1, 0, 0, 0) = DayAt(era, c, q, k, r) + 1
    BY SMT, <1>3, <1>6
  <2>4. c + 1 \in Int /\ 0 \in Int
    BY SMT
  <2> HIDE DEF YearAt, DayAt, Parts
  <2> QED
    BY <2>1, <2>2, <2>3, <2>4 DEF NextYearFollows
<1>7. CASE k = 3 /\ q = 24 /\ c = 3
  <2>1. Parts(0, 0, 0, 0)
    BY SMT
  <2>2. YearAt(era + 1, 0, 0, 0) = YearAt(era, c, q, k) + 1
    BY SMT, <1>7
  <2>3. DayAt(era + 1, 0, 0, 0, 0) = DayAt(era, c, q, k, r) + 1
    BY SMT, <1>3, <1>7
  <2>4. era + 1 \in Int /\ 0 \in Int
    BY SMT
  <2> HIDE DEF YearAt, DayAt, Parts
  <2> QED
    BY <2>1, <2>2, <2>3, <2>4 DEF NextYearFollows
<1> QED
  BY SMT, <1>4, <1>5, <1>6, <1>7

\* Within such a year a date is followed by the next of its month or by the
\* first of the next month.
LEMMA NextInYear ==
  ASSUME NEW y \in Int, NEW r \in Int, 0 <= r,
         r < IF IsLeap(y + 1) THEN 365 ELSE 364
  PROVE  MarchDate(y, (5 * (r + 1) + 2) \div 153, r + 1) =
           NextDay(MarchDate(y, (5 * r + 2) \div 153, r))
<1>1. PICK mp \in Int : mp = (5 * r + 2) \div 153
  BY SMT
<1>2. /\ 0 <= mp /\ mp <= 11 /\ MonthStart(mp) \in Int
      /\ MonthStart(mp) <= r /\ r < MonthStart(mp + 1)
  BY SMT, <1>1, MonthFound
<1>3. MonthStart(mp + 1) \in Int
  BY SMT, <1>2 DEF MonthStart
<1> DEFINE x == MarchDate(y, mp, r)
<1>4. /\ x = [y |-> x.y, m |-> x.m, d |-> x.d]
      /\ x.m = MonthFromMarch(mp) /\ x.d = r - MonthStart(mp) + 1
      /\ x.y = y + (IF MonthFromMarch(mp) <= 2 THEN 1 ELSE 0)
  BY SMT DEF MarchDate
<1>5. CASE mp = 11
  <2>1. MonthStart(11) = 337 /\ MonthStart(12) = 367 /\ MonthFromMarch(11) = 2
    BY SMT DEF MonthStart, MonthFromMarch
  <2>2. LastDay(x.y, x.m) = IF IsLeap(y + 1) THEN 29 ELSE 28
    BY SMT, <1>4, <1>5, <2>1, FebruaryLength
  <2>3. x.d < LastDay(x.y, x.m)
    BY SMT, <1>4, <1>5, <2>1, <2>2
  <2>4. (5 * (r + 1) + 2) \div 153 = 11
    BY SMT, <1>2, <1>5, <2>1, MonthKept
  <2> QED
    BY SMT, <1>1, <1>5, <2>3, <2>4, <2>1 DEF NextDay, MarchDate
<1>6. CASE mp <= 10
  <2>1. MonthStart(mp + 1) = MonthStart(mp) + LastDay(x.y, x.m)
    BY SMT, <1>2, <1>4, <1>6, MonthLengths
  <2>2. LastDay(x.y, x.m) \in Int
    BY SMT, <1>2, <1>4 DEF LastDay, MonthOk, MonthFromMarch
  <2>3. CASE x.d < LastDay(x.y, x.m)
    <3>1. r + 1 < MonthStart(mp + 1)
      BY SMT, <1>2, <1>4, <2>1, <2>2, <2>3
    <3>2. (5 * (r + 1) + 2) \div 153 = mp
      BY SMT, <1>2, <3>1, MonthKept
    <3> QED
      BY SMT, <1>1, <1>2, <2>3, <3>2 DEF NextDay, MarchDate
  <2>4. CASE ~(x.d < LastDay(x.y, x.m))
    <3>1. r + 1 = MonthStart(mp + 1)
      BY SMT, <1>2, <1>3, <1>4, <2>1, <2>2, <2>4
    <3>2. (5 * (r + 1) + 2) \div 153 = mp + 1
      BY SMT, <1>2, <1>6, <3>1 DEF MonthStart
    <3>3. MarchDate(y, mp + 1, r + 1) =
            [y |-> y + (IF MonthFromMarch(mp + 1) <= 2 THEN 1 ELSE 0),
             m |-> MonthFromMarch(mp + 1), d |-> 1]
      BY SMT, <1>3, <3>1 DEF MarchDate
    <3>4. CASE mp = 9
      <4>1. x.m = 12 /\ x.y = y /\ MonthFromMarch(mp + 1) = 1
        BY SMT, <1>4, <3>4 DEF MonthFromMarch
      <4> HIDE DEF x
      <4>2. NextDay(x) = [y |-> y + 1, m |-> 1, d |-> 1]
        BY SMT, <2>4, <4>1 DEF NextDay
      <4> QED
        BY SMT, <1>1, <3>2, <3>3, <4>1, <4>2 DEF x
    <3>5. CASE mp # 9
      <4>1. /\ x.m < 12 /\ MonthFromMarch(mp + 1) = x.m + 1
            /\ x.y = y + (IF MonthFromMarch(mp + 1) <= 2 THEN 1 ELSE 0)
        BY SMT, <1>2, <1>4, <1>6, <3>5 DEF MonthFromMarch
      <4> HIDE DEF x
      <4>2. NextDay(x) = [y |-> x.y, m |-> x.m + 1, d |-> 1]
        BY SMT, <1>4, <2>4, <4>1 DEF NextDay
      <4> QED
        BY SMT, <1>1, <3>2, <3>3, <4>1, <4>2 DEF x
    <3> QED
      BY <3>4, <3>5
  <2> QED
    BY <2>3, <2>4
<1> QED
  BY SMT, <1>2, <1>5, <1>6

\* The calendar goes on as the one on the wall does: the date of the next day
\* is the next of the month, the first of the next month or the first of
\* January, over leap days, centuries, eras, the epoch and the year 0.
THEOREM DatesGoOn ==
  \A dp \in Days : dp + 1 \in Days => FromDays(dp + 1) = NextDay(FromDays(dp))
<1> SUFFICES ASSUME NEW dp \in Days, dp + 1 \in Days
             PROVE  FromDays(dp + 1) = NextDay(FromDays(dp))
  OBVIOUS
<1>1. PICK era \in Int, c \in Int, q \in Int, k \in Int, r \in Int :
        /\ Parts(c, q, k, r) /\ dp = DayAt(era, c, q, k, r)
        /\ FromDays(dp) = DateAt(era, c, q, k, r)
  BY DayPlace
<1> DEFINE y == YearAt(era, c, q, k)
<1>2. /\ y \in Int /\ 0 <= r /\ r <= 365
      /\ IsLeap(y + 1) <=> k = 3 /\ (q = 24 => c = 3)
  <2>1. Parts(c, q, k, 0)
    BY SMT, <1>1 DEF Parts
  <2>2. y \in Int /\ 0 <= r /\ r <= 365
    BY SMT, <1>1 DEF Parts, YearAt, YearOfEraAt
  <2> QED
    BY <1>1, <2>1, <2>2, LeapDays
<1>3. CASE r < IF IsLeap(y + 1) THEN 365 ELSE 364
  <2>1. Parts(c, q, k, r + 1)
    BY SMT, <1>1, <1>2, <1>3 DEF Parts
  <2>2. dp + 1 = DayAt(era, c, q, k, r + 1) /\ r + 1 \in Int
    BY SMT, <1>1 DEF DayAt, DayOfEra, Parts
  <2>3. FromDays(dp + 1) = DateAt(era, c, q, k, r + 1)
    <3>1. /\ MinYear <= DateAt(era, c, q, k, r + 1).y
          /\ DateAt(era, c, q, k, r + 1).y <= MaxYear
      <4>1. DayAt(era, c, q, k, r + 1) \in Days
        BY <2>2
      <4> QED
        BY <1>1, <2>1, <2>2, <4>1, YearsFit
    <3>2. FromDays(DayAt(era, c, q, k, r + 1)) = DateAt(era, c, q, k, r + 1)
      BY <1>1, <2>1, <2>2, <3>1, DateOfDay
    <3> QED
      BY <2>2, <3>2
  <2> HIDE DEF y
  <2>4. MarchDate(y, (5 * (r + 1) + 2) \div 153, r + 1) =
          NextDay(MarchDate(y, (5 * r + 2) \div 153, r))
    BY SMT, <1>2, <1>3, NextInYear
  <2> QED
    BY SMT, <1>1, <2>3, <2>4 DEF DateAt, y
<1>4. CASE r = IF IsLeap(y + 1) THEN 365 ELSE 364
  <2>1. PICK era1 \in Int, c1 \in Int, q1 \in Int, k1 \in Int, r1 \in Int :
          /\ Parts(c1, q1, k1, r1) /\ r1 = 0
          /\ YearAt(era1, c1, q1, k1) = YearAt(era, c, q, k) + 1
          /\ DayAt(era1, c1, q1, k1, r1) = DayAt(era, c, q, k, r) + 1
    <3>1. EndsYear(era, c, q, k, r)
      BY <1>4 DEF EndsYear
    <3>2. Parts(c, q, k, r)
      BY <1>1
    <3>3. NextYearFollows(era, c, q, k, r)
      BY <3>1, <3>2, NextYearPlace
    <3> QED
      BY <3>3 DEF NextYearFollows
  <2>2. FromDays(dp + 1) = DateAt(era1, c1, q1, k1, r1)
    <3>1. dp + 1 = DayAt(era1, c1, q1, k1, r1)
      BY <1>1, <2>1
    <3>2. DayAt(era1, c1, q1, k1, r1) \in Days
      BY <3>1
    <3>3. /\ MinYear <= DateAt(era1, c1, q1, k1, r1).y
          /\ DateAt(era1, c1, q1, k1, r1).y <= MaxYear
      BY <2>1, <3>2, YearsFit
    <3>4. Parts(c1, q1, k1, r1)
      BY <2>1
    <3>5. FromDays(DayAt(era1, c1, q1, k1, r1)) = DateAt(era1, c1, q1, k1, r1)
      BY <3>3, <3>4, DateOfDay
    <3> QED
      BY <3>1, <3>5
  <2>3. DateAt(era1, c1, q1, k1, r1) = [y |-> y + 1, m |-> 3, d |-> 1]
    BY SMT, <1>2, <2>1 DEF DateAt, MarchDate, MonthFromMarch, MonthStart
  <2>4. FromDays(dp) = [y |-> y + 1, m |-> 2, d |-> r - 336]
    BY SMT, <1>1, <1>2, <1>4 DEF DateAt, MarchDate, MonthFromMarch, MonthStart
  <2>5. LastDay(y + 1, 2) = r - 336
    BY SMT, <1>4, FebruaryLength
  <2>6. NextDay([y |-> y + 1, m |-> 2, d |-> r - 336]) = [y |-> y + 1, m |-> 3, d |-> 1]
    BY SMT, <1>2, <2>5 DEF NextDay
  <2> QED
    BY <2>2, <2>3, <2>4, <2>6
<1>5. r <= IF IsLeap(y + 1) THEN 365 ELSE 364
  BY SMT, <1>1, <1>2 DEF Parts
<1> QED
  BY SMT, <1>1, <1>2, <1>3, <1>4, <1>5

----------------------------------------------------------------------------
\* Weekdays, months and durations.

\* The weekday computed from a number of days, which the code does on unsigned
\* numbers, moves on by one each day, below the epoch too.
THEOREM WeekdaysGoOn ==
  \A z \in Int :
    /\ WeekdayOk(WeekdayFromDays(z))
    /\ WeekdayFromDays(z + 1) =
         IF WeekdayFromDays(z) = 6 THEN 0 ELSE WeekdayFromDays(z) + 1
<1> SUFFICES ASSUME NEW z \in Int
             PROVE  /\ WeekdayOk(WeekdayFromDays(z))
                    /\ WeekdayFromDays(z + 1) =
                         IF WeekdayFromDays(z) = 6 THEN 0 ELSE WeekdayFromDays(z) + 1
  OBVIOUS
<1>1. ASSUME NEW n \in Int
      PROVE  WeekdayFromDays(n) = (n + 4) % 7
  BY SMT DEF WeekdayFromDays, UnsignedModSeven
<1>2. WeekdayFromDays(z) = (z + 4) % 7 /\ WeekdayFromDays(z + 1) = (z + 1 + 4) % 7
  BY SMT, <1>1
<1>3. /\ (z + 4) % 7 \in Int /\ 0 <= (z + 4) % 7 /\ (z + 4) % 7 <= 6
      /\ (z + 1 + 4) % 7 = IF (z + 4) % 7 = 6 THEN 0 ELSE ((z + 4) % 7) + 1
  BY SMT
<1> QED
  BY SMT, <1>2, <1>3 DEF WeekdayOk

\* Months added to a month of a year, forward or back across any number of
\* years, are counted, and the difference of the two is the number added, as
\* long as the year fits.
THEOREM MonthsAreCounted ==
  \A y \in Int, m \in 1..12, n \in Int :
    LET from == [y |-> y, m |-> m]
        to   == YearMonthPlus(from, n)
    IN  y + (m - 1 + n) \div 12 \in MinYear..MaxYear =>
          to.m \in 1..12 /\ YearMonthMinus(to, from) = n
<1> SUFFICES ASSUME NEW y \in Int, NEW m \in 1..12, NEW n \in Int,
                    y + (m - 1 + n) \div 12 \in MinYear..MaxYear
             PROVE  LET from == [y |-> y, m |-> m]
                        to   == YearMonthPlus(from, n)
                    IN  to.m \in 1..12 /\ YearMonthMinus(to, from) = n
  OBVIOUS
<1> DEFINE dmi  == m - 1 + n
           from == [y |-> y, m |-> m]
           to   == YearMonthPlus(from, n)
<1>1. m \in Int /\ 1 <= m /\ m <= 12 /\ dmi \in Int
  BY SMT
<1>2. PICK dy \in Int, rest \in Int :
        dy = dmi \div 12 /\ dmi = 12 * dy + rest /\ 0 <= rest /\ rest <= 11
  <2>1. /\ dmi \div 12 \in Int /\ dmi % 12 \in Int
        /\ dmi = 12 * (dmi \div 12) + (dmi % 12)
        /\ 0 <= dmi % 12 /\ dmi % 12 <= 11
    BY SMT, <1>1
  <2> QED
    BY SMT, <2>1
<1>3. Cut(IF dmi >= 0 THEN dmi ELSE dmi - 11, 12) = dy
  BY SMT, <1>1, <1>2 DEF Cut
<1>4. YearPlus(y, dy) = y + dy
  <2>1. y + dy \in MinYear..MaxYear
    BY <1>2
  <2>2. y + dy \in Int /\ MinYear <= y + dy /\ y + dy <= MaxYear
    BY SMT, <2>1, YearNumbers
  <2> QED
    BY <2>2, ShortKeeps DEF YearPlus
<1>5. Byte(dmi - dy * 12 + 1) = rest + 1
  BY SMT, <1>1, <1>2 DEF Byte
<1>6. to = [y |-> y + dy, m |-> rest + 1]
  BY <1>3, <1>4, <1>5 DEF YearMonthPlus
<1>7. YearMonthMinus(to, from) = (y + dy - y) * 12 + (rest + 1 - m)
  BY <1>6 DEF YearMonthMinus
<1>8. (y + dy - y) * 12 + (rest + 1 - m) = n
  BY SMT, <1>1, <1>2
<1>9. to.m \in 1..12
  BY SMT, <1>2, <1>6
<1> QED
  BY <1>7, <1>8, <1>9

\* A duration is cut to the coarser unit below it, negative ones too: the rest
\* is never negative and less than a unit.
THEOREM FloorRoundsDown ==
  \A n \in Int, unit \in Nat \ {0} :
    /\ Floor(n, unit) \in Int
    /\ Floor(n, unit) * unit <= n
    /\ n < Floor(n, unit) * unit + unit
<1> SUFFICES ASSUME NEW n \in Int, NEW unit \in Nat \ {0}
             PROVE  /\ Floor(n, unit) \in Int
                    /\ Floor(n, unit) * unit <= n
                    /\ n < Floor(n, unit) * unit + unit
  OBVIOUS
<1>1. ASSUME NEW a \in Nat
      PROVE  \E q \in Int, rest \in Int :
               /\ q = a \div unit /\ a = q * unit + rest
               /\ 0 <= rest /\ rest < unit
  <2>1. /\ a \div unit \in Int /\ a % unit \in Int
        /\ a = unit * (a \div unit) + (a % unit)
        /\ 0 <= a % unit /\ a % unit < unit
    BY SMT, <1>1
  <2>2. unit * (a \div unit) = (a \div unit) * unit
    BY SMT, <2>1
  <2> QED
    BY SMT, <2>1, <2>2
<1>2. CASE n >= 0
  <2>1. PICK q \in Int, rest \in Int :
          /\ q = n \div unit /\ n = q * unit + rest
          /\ 0 <= rest /\ rest < unit
    BY SMT, <1>1, <1>2
  <2>2. Cut(n, unit) = q
    BY SMT, <1>2, <2>1 DEF Cut
  <2>3. q * unit \in Int /\ q * unit <= n /\ n < q * unit + unit
    BY SMT, <2>1
  <2>4. Floor(n, unit) = q
    BY SMT, <2>2, <2>3 DEF Floor
  <2> QED
    BY <2>3, <2>4
<1>3. CASE n < 0
  <2>1. PICK q \in Int, rest \in Int :
          /\ q = (-n) \div unit /\ -n = q * unit + rest
          /\ 0 <= rest /\ rest < unit
    <3>1. -n \in Nat
      BY SMT, <1>3
    <3> QED
      BY <1>1, <3>1
  <2>2. Cut(n, unit) = -q
    BY SMT, <1>3, <2>1 DEF Cut
  <2>3. PICK p \in Int : p = (-q) * unit
    BY SMT, <2>1
  <2>4. p = n + rest /\ (-q - 1) * unit = p - unit
    BY SMT, <2>1, <2>3
  <2>5. Floor(n, unit) = IF p > n THEN -q - 1 ELSE -q
    BY <2>2, <2>3 DEF Floor
  <2>6. CASE rest = 0
    <3>1. Floor(n, unit) = -q
      BY SMT, <2>1, <2>4, <2>5, <2>6
    <3> QED
      BY SMT, <2>1, <2>3, <2>4, <2>6, <3>1
  <2>7. CASE rest > 0
    <3>1. Floor(n, unit) = -q - 1
      BY SMT, <2>1, <2>4, <2>5, <2>7
    <3> QED
      BY SMT, <2>1, <2>3, <2>4, <2>7, <3>1
  <2> QED
    BY SMT, <2>1, <2>6, <2>7
<1> QED
  BY SMT, <1>2, <1>3

----------------------------------------------------------------------------
\* Years.

\* The day before March of the year y, and the first of January.
EraDays(y)   == 365 * y + y \div 4 - y \div 100 + y \div 400
NewYear(y)   == EraDays(y - 1) - 719162

\* The day of a date, without the eras that to_days() goes through.
LEMMA DayNumber ==
  ASSUME NEW y \in Int, NEW m \in Int, 1 <= m, m <= 12, NEW d \in Int
  PROVE  LET mp == IF m > 2 THEN m - 3 ELSE m + 9
             my == IF m <= 2 THEN y - 1 ELSE y
         IN  ToDays([y |-> y, m |-> m, d |-> d]) =
               EraDays(my) + MonthStart(mp) + d - 1 - 719468
<1> DEFINE mp  == IF m > 2 THEN m - 3 ELSE m + 9
           my  == IF m <= 2 THEN y - 1 ELSE y
           doy == (153 * mp + 2) \div 5 + d - 1
<1>1. my \in Int /\ doy \in Int /\ doy = MonthStart(mp) + d - 1
  BY SMT DEF MonthStart
<1> HIDE DEF my
<1>2. PICK era \in Int, yoe \in Int :
        my = 400 * era + yoe /\ 0 <= yoe /\ yoe <= 399
  <2>1. /\ my = 400 * (my \div 400) + (my % 400) /\ my \div 400 \in Int
        /\ my % 400 \in Int /\ 0 <= my % 400 /\ my % 400 <= 399
    BY SMT, <1>1
  <2> QED
    BY SMT, <2>1
<1>3. Cut(IF my >= 0 THEN my ELSE my - 399, 400) = era /\ my - era * 400 = yoe
  BY SMT, <1>1, <1>2 DEF Cut
<1>4. EraDays(my) = 146097 * era + 365 * yoe + yoe \div 4 - yoe \div 100
  BY SMT, <1>1, <1>2 DEF EraDays
<1>5. yoe \div 4 \in Int /\ yoe \div 100 \in Int
  BY SMT, <1>2
<1> HIDE DEF doy
<1>6. ToDays([y |-> y, m |-> m, d |-> d]) =
        era * 146097 + (yoe * 365 + yoe \div 4 - yoe \div 100 + doy) - 719468
  BY <1>3 DEF ToDays, my, doy
<1>7. ToDays([y |-> y, m |-> m, d |-> d]) = EraDays(my) + doy - 719468
  BY SMT, <1>1, <1>2, <1>4, <1>5, <1>6
<1> QED
  BY SMT, <1>1, <1>7 DEF my, EraDays, MonthStart

\* 1 January, and the days of a January and of a December.
LEMMA NewYearDay ==
  ASSUME NEW y \in Int
  PROVE  /\ NewYear(y) \in Int
         /\ \A d \in Int : ToDays([y |-> y, m |-> 1, d |-> d]) = NewYear(y) + d - 1
         /\ \A d \in Int : ToDays([y |-> y, m |-> 12, d |-> d]) = NewYear(y + 1) - 32 + d
<1>1. NewYear(y) \in Int /\ NewYear(y + 1) \in Int
  BY SMT DEF NewYear, EraDays
<1>2. ASSUME NEW d \in Int
      PROVE  ToDays([y |-> y, m |-> 1, d |-> d]) = NewYear(y) + d - 1
  <2>1. ToDays([y |-> y, m |-> 1, d |-> d]) = EraDays(y - 1) + MonthStart(10) + d - 1 - 719468
    BY SMT, DayNumber
  <2> QED
    BY SMT, <2>1 DEF NewYear, MonthStart, EraDays
<1>3. ASSUME NEW d \in Int
      PROVE  ToDays([y |-> y, m |-> 12, d |-> d]) = NewYear(y + 1) - 32 + d
  <2>1. ToDays([y |-> y, m |-> 12, d |-> d]) = EraDays(y) + MonthStart(9) + d - 1 - 719468
    BY SMT, DayNumber
  <2>2. NewYear(y + 1) = EraDays(y) - 719162 /\ EraDays(y) \in Int
    BY SMT DEF NewYear, EraDays
  <2> QED
    BY SMT, <2>1, <2>2 DEF MonthStart
<1> QED
  BY <1>1, <1>2, <1>3

\* A year has 365 days or, if it is a leap year, 366.
LEMMA YearLength ==
  ASSUME NEW y \in Int
  PROVE  NewYear(y + 1) = NewYear(y) + IF IsLeap(y) THEN 366 ELSE 365
<1>1. PICK era \in Int, c \in Int, q \in Int, k \in Int :
        Parts(c, q, k, 0) /\ y - 1 = YearAt(era, c, q, k)
  <2>1. y - 1 \in Int
    BY SMT
  <2> QED
    BY <2>1, YearParts
<1>2. IsLeap(y) <=> k = 3 /\ (q = 24 => c = 3)
  <2>1. YearAt(era, c, q, k) + 1 = y
    BY SMT, <1>1
  <2> QED
    BY <1>1, <2>1, LeapDays
<1>3. y - 1 = 400 * era + 100 * c + 4 * q + k
  BY SMT, <1>1 DEF YearAt, YearOfEraAt
<1>4. EraDays(y - 1) = 365 * (y - 1) + 97 * era + 24 * c + q
  BY SMT, <1>1, <1>3 DEF EraDays, Parts
<1>5. /\ y \div 4 = 100 * era + 25 * c + q + IF k = 3 THEN 1 ELSE 0
      /\ y \div 100 = 4 * era + c + IF k = 3 /\ q = 24 THEN 1 ELSE 0
      /\ y \div 400 = era + IF k = 3 /\ q = 24 /\ c = 3 THEN 1 ELSE 0
  BY SMT, <1>1, <1>3 DEF Parts
<1>6. EraDays(y) = EraDays(y - 1) + IF IsLeap(y) THEN 366 ELSE 365
  BY SMT, <1>2, <1>4, <1>5 DEF EraDays, Parts
<1> QED
  BY SMT, <1>6 DEF NewYear, EraDays

\* The years follow one another.
LEMMA YearsAreLong ==
  ASSUME NEW a \in Int, NEW b \in Int, a <= b
  PROVE  NewYear(b) >= NewYear(a) + 365 * (b - a)
<1>1. ASSUME NEW i \in Int, NEW j \in Int, i <= j
      PROVE  i \div 4 - i \div 100 <= j \div 4 - j \div 100
  <2>1. PICK p \in Int, q \in Int :
          p = i \div 4 /\ q = j \div 4 /\ p <= q
    BY SMT, <1>1
  <2>2. i \div 100 = p \div 25 /\ j \div 100 = q \div 25
    BY SMT, <2>1
  <2>3. p - p \div 25 <= q - q \div 25
    BY SMT, <2>1
  <2> QED
    BY SMT, <2>1, <2>2, <2>3
<1>2. (a - 1) \div 400 <= (b - 1) \div 400
  BY SMT
<1>3. (a - 1) \div 4 - (a - 1) \div 100 <= (b - 1) \div 4 - (b - 1) \div 100
  <2>1. a - 1 \in Int /\ b - 1 \in Int /\ a - 1 <= b - 1
    BY SMT
  <2> QED
    BY <1>1, <2>1
<1> QED
  BY SMT, <1>2, <1>3 DEF NewYear, EraDays

----------------------------------------------------------------------------
\* The days of a year before a month.

BeforeMonth(y, m) ==
  <<0, 31, 59, 90, 120, 151, 181, 212, 243, 273, 304, 334>>[m]
    + (IF m > 2 /\ IsLeap(y) THEN 1 ELSE 0)

\* The day of a date, from its year, its month and its day.
LEMMA DateNumber ==
  ASSUME NEW y \in Int, NEW m \in Int, 1 <= m, m <= 12, NEW d \in Int
  PROVE  ToDays([y |-> y, m |-> m, d |-> d]) = NewYear(y) + BeforeMonth(y, m) + d - 1
<1> DEFINE mp == IF m > 2 THEN m - 3 ELSE m + 9
           my == IF m <= 2 THEN y - 1 ELSE y
<1>1. ToDays([y |-> y, m |-> m, d |-> d]) = EraDays(my) + MonthStart(mp) + d - 1 - 719468
  BY SMT, DayNumber
<1>2. PICK e \in Int, e1 \in Int, n \in Int :
        e = EraDays(y - 1) /\ e1 = EraDays(y) /\ n = NewYear(y) /\ n = e - 719162
  BY SMT DEF EraDays, NewYear
<1>3. e1 = e + IF IsLeap(y) THEN 366 ELSE 365
  BY SMT, <1>2, YearLength DEF EraDays, NewYear
<1>4. EraDays(my) = IF m <= 2 THEN e ELSE e1
  BY <1>2
<1>5. MonthStart(mp) =
        <<306, 337, 0, 31, 61, 92, 122, 153, 184, 214, 245, 275>>[m]
  BY SMT DEF MonthStart
<1>6. IsLeap(y) \in BOOLEAN
  BY DEF IsLeap
<1> HIDE DEF my, mp
<1> QED
  BY SMT, <1>1, <1>2, <1>3, <1>4, <1>5, <1>6 DEF BeforeMonth

\* The months are 28 to 31 days long and fit their year.
LEMMA MonthBounds ==
  ASSUME NEW y \in Int, NEW m \in Int, 1 <= m, m <= 12
  PROVE  /\ BeforeMonth(y, m) \in Int /\ LastDay(y, m) \in Int
         /\ BeforeMonth(y, 1) = 0 /\ 0 <= BeforeMonth(y, m)
         /\ 28 <= LastDay(y, m) /\ LastDay(y, m) <= 31 /\ LastDay(y, 12) = 31
         /\ BeforeMonth(y, m) + LastDay(y, m) <= IF IsLeap(y) THEN 366 ELSE 365
<1>1. IsLeap(y) \in BOOLEAN
  BY DEF IsLeap
<1> QED
  BY SMT, <1>1 DEF BeforeMonth, LastDay, MonthOk

\* A later month begins after an earlier one has ended.
LEMMA MonthsInOrder ==
  ASSUME NEW y \in Int, NEW m \in Int, NEW n \in Int, 1 <= m, m < n, n <= 12
  PROVE  BeforeMonth(y, m) + LastDay(y, m) <= BeforeMonth(y, n)
<1>1. IsLeap(y) \in BOOLEAN
  BY DEF IsLeap
<1> QED
  BY SMT, <1>1 DEF BeforeMonth, LastDay, MonthOk

\* A month begins when the one before it ends.
LEMMA NextMonth ==
  ASSUME NEW y \in Int, NEW m \in Int, 1 <= m, m < 12
  PROVE  BeforeMonth(y, m + 1) = BeforeMonth(y, m) + LastDay(y, m)
<1>1. IsLeap(y) \in BOOLEAN
  BY DEF IsLeap
<1> QED
  BY SMT, <1>1 DEF BeforeMonth, LastDay, MonthOk

\* A date that exists.
GoodDate(x) ==
  /\ x = [y |-> x.y, m |-> x.m, d |-> x.d]
  /\ x.y \in Int /\ MinYear <= x.y /\ x.y <= MaxYear
  /\ x.m \in Int /\ 1 <= x.m /\ x.m <= 12
  /\ x.d \in Int /\ 1 <= x.d /\ x.d <= LastDay(x.y, x.m)

\* The date of a day exists, and is a date of that day.
LEMMA DayHasGoodDate ==
  ASSUME NEW n \in Days
  PROVE  /\ GoodDate(FromDays(n)) /\ YmdOk(FromDays(n))
         /\ ToDays(FromDays(n)) = n
<1>1. /\ ToDays(FromDays(n)) = n
      /\ YmdOk(FromDays(n)) /\ FromDays(n).y \in MinYear..MaxYear
  BY DaysThereAndBack, EveryDayHasADate
<1>2. PICK era \in Int, c \in Int, q \in Int, k \in Int, r \in Int :
        Parts(c, q, k, r) /\ FromDays(n) = DateAt(era, c, q, k, r)
  BY DayPlace
<1> DEFINE x == FromDays(n)
<1>3. x = [y |-> x.y, m |-> x.m, d |-> x.d] /\ x.d \in Int
  <2>1. r \in Int /\ MonthStart((5 * r + 2) \div 153) \in Int
    BY SMT DEF MonthStart
  <2> QED
    BY SMT, <1>2, <2>1 DEF DateAt, MarchDate
<1> HIDE DEF x
<1>4. x.y \in Int /\ MinYear <= x.y /\ x.y <= MaxYear
  BY SMT, <1>1, YearNumbers DEF x
<1>5. x.m \in Int /\ 1 <= x.m /\ x.m <= 12 /\ 1 <= x.d /\ x.d <= LastDay(x.y, x.m)
  BY SMT, <1>1 DEF x, YmdOk, MonthOk
<1>6. GoodDate(x)
  BY <1>3, <1>4, <1>5 DEF GoodDate
<1> QED
  BY <1>1, <1>6 DEF x

\* The day of a date is in the date's year, and the date is the date of it.
LEMMA GoodDateHasDay ==
  ASSUME NEW x, GoodDate(x)
  PROVE  /\ ToDays(x) \in Int
         /\ ToDays(x) = NewYear(x.y) + BeforeMonth(x.y, x.m) + x.d - 1
         /\ NewYear(x.y) <= ToDays(x) /\ ToDays(x) < NewYear(x.y + 1)
         /\ FromDays(ToDays(x)) = x
<1>1. ToDays([y |-> x.y, m |-> x.m, d |-> x.d]) = NewYear(x.y) + BeforeMonth(x.y, x.m) + x.d - 1
  BY SMT, DateNumber DEF GoodDate
<1>2. ToDays(x) = NewYear(x.y) + BeforeMonth(x.y, x.m) + x.d - 1
  BY <1>1 DEF GoodDate
<1>3. /\ NewYear(x.y) \in Int
      /\ BeforeMonth(x.y, x.m) \in Int /\ LastDay(x.y, x.m) \in Int
      /\ 0 <= BeforeMonth(x.y, x.m) /\ LastDay(x.y, x.m) <= 31
      /\ BeforeMonth(x.y, x.m) + LastDay(x.y, x.m) <= IF IsLeap(x.y) THEN 366 ELSE 365
  BY SMT, MonthBounds, NewYearDay DEF GoodDate
<1>4. NewYear(x.y + 1) = NewYear(x.y) + IF IsLeap(x.y) THEN 366 ELSE 365
  BY YearLength DEF GoodDate
<1>5. ToDays(x) \in Int /\ NewYear(x.y) <= ToDays(x) /\ ToDays(x) < NewYear(x.y + 1)
  <2>1. IsLeap(x.y) \in BOOLEAN
    BY DEF IsLeap
  <2> QED
    BY SMT, <1>2, <1>3, <1>4, <2>1 DEF GoodDate
<1>6. x \in [y : MinYear..MaxYear, m : 1..12, d : 1..31]
  BY SMT, <1>3, YearNumbers DEF GoodDate
<1>7. YmdOk(x)
  BY SMT, YearInRange DEF GoodDate, YmdOk, MonthOk
<1> QED
  BY <1>2, <1>5, <1>6, <1>7, DatesThereAndBack

\* The order of the dates is the order of their days.
LEMMA LaterDate ==
  ASSUME NEW x, NEW z, GoodDate(x), GoodDate(z), YmdLess(x, z)
  PROVE  ToDays(x) < ToDays(z)
<1>1. /\ ToDays(x) \in Int /\ ToDays(z) \in Int
      /\ ToDays(x) = NewYear(x.y) + BeforeMonth(x.y, x.m) + x.d - 1
      /\ ToDays(z) = NewYear(z.y) + BeforeMonth(z.y, z.m) + z.d - 1
      /\ ToDays(x) < NewYear(x.y + 1) /\ NewYear(z.y) <= ToDays(z)
  BY GoodDateHasDay
<1>2. /\ NewYear(x.y) \in Int /\ NewYear(x.y + 1) \in Int /\ NewYear(z.y) \in Int
      /\ BeforeMonth(x.y, x.m) \in Int /\ BeforeMonth(z.y, z.m) \in Int
      /\ LastDay(x.y, x.m) \in Int
  BY SMT, NewYearDay, MonthBounds DEF GoodDate
<1>3. CASE x.y < z.y
  <2>1. x.y + 1 \in Int /\ z.y \in Int /\ x.y + 1 <= z.y
    BY SMT, <1>3 DEF GoodDate
  <2>2. NewYear(z.y) >= NewYear(x.y + 1) + 365 * (z.y - (x.y + 1))
    BY <2>1, YearsAreLong
  <2> QED
    BY SMT, <1>1, <1>2, <2>1, <2>2
<1>4. CASE x.y = z.y /\ x.m < z.m
  <2>1. BeforeMonth(x.y, x.m) + LastDay(x.y, x.m) <= BeforeMonth(z.y, z.m)
    BY SMT, <1>4, MonthsInOrder DEF GoodDate
  <2> QED
    BY SMT, <1>1, <1>2, <1>4, <2>1 DEF GoodDate
<1>5. CASE x.y = z.y /\ x.m = z.m /\ x.d < z.d
  BY SMT, <1>1, <1>2, <1>5 DEF GoodDate
<1> QED
  BY <1>3, <1>4, <1>5 DEF YmdLess

\* A later day has a later date.
LEMMA DatesInOrder ==
  ASSUME NEW i \in Days, NEW j \in Days, i < j
  PROVE  YmdLess(FromDays(i), FromDays(j)) /\ ~YmdLess(FromDays(j), FromDays(i))
<1> DEFINE x == FromDays(i)
           z == FromDays(j)
<1>1. GoodDate(x) /\ GoodDate(z) /\ ToDays(x) = i /\ ToDays(z) = j /\ i \in Int /\ j \in Int
  BY DayHasGoodDate, DaysBounds
<1> HIDE DEF x, z
<1>2. ~YmdLess(z, x)
  BY SMT, <1>1, LaterDate
<1>3. x # z
  BY SMT, <1>1
<1>4. YmdLess(x, z)
  BY SMT, <1>1, <1>2, <1>3 DEF GoodDate, YmdLess
<1> QED
  BY <1>2, <1>4 DEF x, z

----------------------------------------------------------------------------
\* Weeks.

\* The weekday is the day modulo seven, on either side of the epoch.
LEMMA WeekdayNumber ==
  ASSUME NEW n \in Int
  PROVE  WeekdayFromDays(n) = (n + 4) % 7
BY SMT DEF WeekdayFromDays, UnsignedModSeven

\* The days from one weekday to the next other one.
LEMMA WeekdayDistance ==
  ASSUME NEW i \in 0..6, NEW j \in 0..6
  PROVE  WeekdayMinus(i, j) = IF i >= j THEN i - j ELSE i - j + 7
BY SMT DEF WeekdayMinus, Cut

LEMMA WeekdayKnown ==
  ASSUME NEW n \in Int
  PROVE  WeekdayFromDays(n) \in 0..6
BY SMT, WeekdayNumber

\* The parts of a date fit their fields.
LEMMA DateParts ==
  ASSUME NEW y \in Int, -32768 <= y, y <= MaxYear,
         NEW m \in Int, 1 <= m, m <= 12, NEW d \in Int, 0 <= d, d <= 31
  PROVE  Ymd(y, m, d) = [y |-> y, m |-> m, d |-> d]
<1>1. Short(y) = y
  BY SMT DEF Short, MaxYear
<1>2. Byte(m) = m /\ Byte(d) = d
  BY SMT DEF Byte
<1> QED
  BY <1>1, <1>2 DEF Ymd

\* The first of the weekdays w of a year is one of its first seven days.
LEMMA FirstWeekdayFound ==
  ASSUME NEW y \in Int, MinYear <= y, y <= MaxYear, NEW w \in 0..6
  PROVE  LET st == FirstWeekday(y, w)
         IN  /\ st \in Int /\ WeekdayFromDays(st) = w
             /\ NewYear(y) <= st /\ st <= NewYear(y) + 6
<1>1. PICK j \in Int : j = NewYear(y) /\ ToDays(Ymd(y, 1, 1)) = j
  <2>1. Ymd(y, 1, 1) = [y |-> y, m |-> 1, d |-> 1]
    BY SMT, DateParts DEF MinYear
  <2>2. NewYear(y) \in Int /\ ToDays([y |-> y, m |-> 1, d |-> 1]) = NewYear(y) + 1 - 1
    BY NewYearDay
  <2> QED
    BY SMT, <2>1, <2>2
<1>2. WeekdayFromDays(j) \in 0..6 /\ WeekdayFromDays(j) = (j + 4) % 7
  BY WeekdayNumber, WeekdayKnown
<1>3. FirstWeekday(y, w) = j + WeekdayMinus(w, WeekdayFromDays(j)) + (1 - 1) * 7
  BY <1>1 DEF FirstWeekday, NthWeekdayToDays
<1>4. FirstWeekday(y, w) =
        j + IF w >= WeekdayFromDays(j) THEN w - WeekdayFromDays(j)
            ELSE w - WeekdayFromDays(j) + 7
  BY SMT, <1>2, <1>3, WeekdayDistance
<1>5. PICK st \in Int : st = FirstWeekday(y, w) /\ j <= st /\ st <= j + 6
  BY SMT, <1>2, <1>4
<1>6. (st + 4) % 7 = w
  BY SMT, <1>2, <1>4, <1>5
<1> QED
  BY <1>1, <1>5, <1>6, WeekdayNumber

\* The number of the week of a day, of weeks that begin with the weekday w:
\* one more each w, from 0 or 1 at the start of the year.
Week(n, st) == (n - st + 7) \div 7

\* The number of the week, from the first day of week 1.
LEMMA WeekNumberFound ==
  ASSUME NEW x, GoodDate(x), NEW w \in 0..6
  PROVE  WeekNumber(x, w) = Week(ToDays(x), FirstWeekday(x.y, w))
<1>1. PICK n \in Int, st \in Int, j \in Int :
        /\ n = ToDays(x) /\ st = FirstWeekday(x.y, w) /\ j = NewYear(x.y)
        /\ j <= n /\ j <= st /\ st <= j + 6
  <2>1. ToDays(x) \in Int /\ NewYear(x.y) <= ToDays(x)
    BY GoodDateHasDay
  <2>2. /\ FirstWeekday(x.y, w) \in Int /\ NewYear(x.y) <= FirstWeekday(x.y, w)
        /\ FirstWeekday(x.y, w) <= NewYear(x.y) + 6
    BY FirstWeekdayFound DEF GoodDate
  <2>3. NewYear(x.y) \in Int
    BY NewYearDay DEF GoodDate
  <2> QED
    BY <2>1, <2>2, <2>3
<1>2. (IF n < st THEN 0 ELSE Cut(n - st, 7) + 1) = Week(n, st)
  BY SMT, <1>1 DEF Week, Cut
<1> QED
  BY <1>1, <1>2 DEF WeekNumber

\* A week number goes on to the next day of the year, and starts again at the
\* new year.
LEMMA WeekGoesOn ==
  ASSUME NEW x, GoodDate(x), NEW z, GoodDate(z), ToDays(z) = ToDays(x) + 1,
         NEW w \in 0..6
  PROVE  LET more == IF WeekdayFromDays(ToDays(z)) = w THEN 1 ELSE 0
         IN  /\ z.y = x.y => WeekNumber(z, w) = WeekNumber(x, w) + more
             /\ z.m = 1 /\ z.d = 1 => WeekNumber(z, w) = more
<1>1. PICK n \in Int, st \in Int, j \in Int :
        /\ n = ToDays(z) /\ st = FirstWeekday(z.y, w) /\ j = NewYear(z.y)
        /\ j <= n /\ j <= st /\ st <= j + 6 /\ (st + 4) % 7 = w
  <2>1. ToDays(z) \in Int /\ NewYear(z.y) <= ToDays(z)
    BY GoodDateHasDay
  <2>2. /\ FirstWeekday(z.y, w) \in Int /\ NewYear(z.y) <= FirstWeekday(z.y, w)
        /\ FirstWeekday(z.y, w) <= NewYear(z.y) + 6
        /\ WeekdayFromDays(FirstWeekday(z.y, w)) = w
    BY FirstWeekdayFound DEF GoodDate
  <2>3. NewYear(z.y) \in Int
    BY NewYearDay DEF GoodDate
  <2>4. (FirstWeekday(z.y, w) + 4) % 7 = w
    BY <2>2, WeekdayNumber
  <2> QED
    BY <2>1, <2>2, <2>3, <2>4
<1>2. WeekNumber(z, w) = Week(n, st) /\ WeekdayFromDays(n) = (n + 4) % 7
  BY <1>1, WeekNumberFound, WeekdayNumber
<1>3. ASSUME z.y = x.y
      PROVE  WeekNumber(z, w) = WeekNumber(x, w) + IF (n + 4) % 7 = w THEN 1 ELSE 0
  <2>1. WeekNumber(x, w) = Week(n - 1, st)
    <3>1. ToDays(x) = n - 1
      <4>1. ToDays(x) \in Int
        BY GoodDateHasDay
      <4> QED
        BY SMT, <1>1, <4>1
    <3> QED
      BY <1>1, <1>3, <3>1, WeekNumberFound
  <2>2. Week(n, st) = Week(n - 1, st) + IF (n + 4) % 7 = w THEN 1 ELSE 0
    BY SMT, <1>1 DEF Week
  <2> QED
    BY <1>2, <2>1, <2>2
<1>4. ASSUME z.m = 1, z.d = 1
      PROVE  WeekNumber(z, w) = IF (n + 4) % 7 = w THEN 1 ELSE 0
  <2>1. n = j
    <3>1. ToDays([y |-> z.y, m |-> 1, d |-> 1]) = NewYear(z.y) + 1 - 1
      BY NewYearDay DEF GoodDate
    <3>2. z = [y |-> z.y, m |-> 1, d |-> 1]
      BY <1>4 DEF GoodDate
    <3> QED
      BY SMT, <1>1, <3>1, <3>2
  <2>2. Week(n, st) = IF (n + 4) % 7 = w THEN 1 ELSE 0
    BY SMT, <1>1, <2>1 DEF Week
  <2> QED
    BY <1>2, <2>2
<1> QED
  BY <1>1, <1>2, <1>3, <1>4

\* The weeks of a year are numbered 0 to 53.
LEMMA WeekBounds ==
  ASSUME NEW x, GoodDate(x), NEW w \in 0..6
  PROVE  WeekNumber(x, w) \in 0..53
<1>1. PICK n \in Int, st \in Int, j \in Int :
        /\ n = ToDays(x) /\ st = FirstWeekday(x.y, w) /\ j = NewYear(x.y)
        /\ j <= n /\ j <= st /\ st <= j + 6 /\ n <= j + 365
  <2>1. ToDays(x) \in Int /\ NewYear(x.y) <= ToDays(x) /\ ToDays(x) < NewYear(x.y + 1)
    BY GoodDateHasDay
  <2>2. /\ FirstWeekday(x.y, w) \in Int /\ NewYear(x.y) <= FirstWeekday(x.y, w)
        /\ FirstWeekday(x.y, w) <= NewYear(x.y) + 6
    BY FirstWeekdayFound DEF GoodDate
  <2>3. NewYear(x.y) \in Int
    BY NewYearDay DEF GoodDate
  <2>4. NewYear(x.y + 1) = NewYear(x.y) + IF IsLeap(x.y) THEN 366 ELSE 365
    BY YearLength DEF GoodDate
  <2>5. ToDays(x) <= NewYear(x.y) + 365
    BY SMT, <2>1, <2>3, <2>4
  <2> QED
    BY <2>1, <2>2, <2>3, <2>5
<1>2. Week(n, st) \in 0..53
  BY SMT, <1>1 DEF Week
<1> QED
  BY <1>1, <1>2, WeekNumberFound

\* The day of the year.
LEMMA DayOfYearIs ==
  ASSUME NEW x, GoodDate(x), NEW f, f.ymd = x
  PROVE  /\ DayOfYear(f) = ToDays(x) - NewYear(x.y) + 1
         /\ DayOfYear(f) \in 1..366
<1>1. YmdOk(x) /\ Ymd(x.y, 1, 1) = [y |-> x.y, m |-> 1, d |-> 1]
  <2>1. YmdOk(x)
    BY SMT, YearInRange DEF GoodDate, YmdOk, MonthOk
  <2>2. Ymd(x.y, 1, 1) = [y |-> x.y, m |-> 1, d |-> 1]
    BY SMT, DateParts DEF GoodDate, MinYear
  <2> QED
    BY <2>1, <2>2
<1>2. PICK j \in Int : j = NewYear(x.y) /\ ToDays(Ymd(x.y, 1, 1)) = j
  <2>1. NewYear(x.y) \in Int /\ ToDays([y |-> x.y, m |-> 1, d |-> 1]) = NewYear(x.y) + 1 - 1
    BY NewYearDay DEF GoodDate
  <2> QED
    BY SMT, <1>1, <2>1
<1>3. DayOfYear(f) = ToDays(x) - j + 1
  BY <1>1, <1>2 DEF DayOfYear
<1>4. /\ ToDays(x) \in Int /\ j <= ToDays(x)
      /\ ToDays(x) < j + IF IsLeap(x.y) THEN 366 ELSE 365
  BY <1>2, GoodDateHasDay, YearLength DEF GoodDate
<1> QED
  BY SMT, <1>2, <1>3, <1>4

----------------------------------------------------------------------------
\* ISO years: each starts on the Monday that is within three days of the first
\* of January.

IsoMonday(y) == NewYear(y) + 3 - ((NewYear(y) - 1) % 7)

\* The year after the last one is computed as -32768, and still starts right.
AsShort(y) == IF y = MaxYear + 1 THEN -32768 ELSE y

\* iso_week::year_start() finds the Monday.
LEMMA IsoStartIs ==
  ASSUME NEW y \in Int, MinYear <= y, y <= MaxYear + 1
  PROVE  IsoStart(AsShort(y)) = IsoMonday(y)
<1>1. YearPlus(AsShort(y), -1) = y - 1
  BY SMT DEF YearPlus, Short, AsShort, MinYear, MaxYear
<1>2. PICK n \in Int : n = NewYear(y) /\ ToDays(Ymd(y - 1, 12, LastDay(y - 1, 12))) = n - 1
  <2>1. LastDay(y - 1, 12) = 31
    BY SMT DEF LastDay, MonthOk
  <2>2. Ymd(y - 1, 12, 31) = [y |-> y - 1, m |-> 12, d |-> 31]
    BY SMT, DateParts DEF MinYear, MaxYear
  <2>3. NewYear(y) \in Int
    BY NewYearDay
  <2>4. ToDays([y |-> y - 1, m |-> 12, d |-> 31]) = NewYear(y) - 32 + 31
    <3>1. y - 1 \in Int /\ y - 1 + 1 = y
      BY SMT
    <3>2. \A d \in Int : ToDays([y |-> y - 1, m |-> 12, d |-> d]) = NewYear(y - 1 + 1) - 32 + d
      BY <3>1, NewYearDay
    <3> QED
      BY SMT, <3>1, <3>2
  <2> QED
    BY SMT, <2>1, <2>2, <2>3, <2>4
<1>3. WeekdayFromDays(n - 1) = (n + 3) % 7 /\ (n + 3) % 7 \in 0..6
  BY SMT, <1>2, WeekdayNumber
<1>4. WeekdayMinus(WeekdayFromDays(n - 1), Thursday) = (n - 1) % 7
  <2>1. WeekdayMinus((n + 3) % 7, 4) =
          IF (n + 3) % 7 >= 4 THEN ((n + 3) % 7) - 4 ELSE ((n + 3) % 7) - 4 + 7
    BY SMT, <1>3, WeekdayDistance
  <2>2. (n - 1) % 7 = IF (n + 3) % 7 >= 4 THEN ((n + 3) % 7) - 4 ELSE ((n + 3) % 7) - 4 + 7
    BY SMT, <1>2
  <2> QED
    BY <1>3, <2>1, <2>2 DEF Thursday
<1>5. WeekdayMinus(Monday, Thursday) = 4
  BY SMT DEF WeekdayMinus, Monday, Thursday, Cut
<1>6. IsoStart(AsShort(y)) = (n - 1) - ((n - 1) % 7) + 4
  BY <1>1, <1>2, <1>4, <1>5 DEF IsoStart, LastWeekdayToDays
<1> QED
  BY SMT, <1>2, <1>6 DEF IsoMonday

\* It is the one Monday within three days of the first of January.
LEMMA IsoMondayIs ==
  ASSUME NEW y \in Int
  PROVE  /\ IsoMonday(y) \in Int /\ WeekdayFromDays(IsoMonday(y)) = 1
         /\ NewYear(y) - 3 <= IsoMonday(y) /\ IsoMonday(y) <= NewYear(y) + 3
         /\ \A n \in Int :
              /\ WeekdayFromDays(n) = 1
              /\ NewYear(y) - 3 <= n /\ n <= NewYear(y) + 3
              => n = IsoMonday(y)
<1>1. PICK j \in Int : j = NewYear(y) /\ IsoMonday(y) = j + 3 - ((j - 1) % 7)
  BY NewYearDay DEF IsoMonday
<1>2. PICK s \in Int : s = IsoMonday(y) /\ j - 3 <= s /\ s <= j + 3 /\ (s + 4) % 7 = 1
  BY SMT, <1>1
<1>3. ASSUME NEW n \in Int, WeekdayFromDays(n) = 1, j - 3 <= n, n <= j + 3
      PROVE  n = s
  BY SMT, <1>2, <1>3, WeekdayNumber
<1>4. WeekdayFromDays(s) = 1
  BY <1>2, WeekdayNumber
<1> QED
  BY SMT, <1>1, <1>2, <1>3, <1>4

\* ISO years of 52 or 53 weeks follow one another.
LEMMA IsoYearLength ==
  ASSUME NEW y \in Int
  PROVE  /\ IsoMonday(y + 1) \in Int
         /\ IsoMonday(y + 1) >= IsoMonday(y) + 364
         /\ IsoMonday(y + 1) <= IsoMonday(y) + 371
<1>1. PICK s \in Int, t \in Int, j \in Int, i \in Int :
        /\ s = IsoMonday(y) /\ t = IsoMonday(y + 1)
        /\ j = NewYear(y) /\ i = NewYear(y + 1)
        /\ j - 3 <= s /\ s <= j + 3 /\ i - 3 <= t /\ t <= i + 3
        /\ (s + 4) % 7 = 1 /\ (t + 4) % 7 = 1
  <2>1. y + 1 \in Int
    BY SMT
  <2>2. ASSUME NEW n \in Int
        PROVE  /\ IsoMonday(n) \in Int /\ NewYear(n) \in Int
               /\ NewYear(n) - 3 <= IsoMonday(n) /\ IsoMonday(n) <= NewYear(n) + 3
               /\ (IsoMonday(n) + 4) % 7 = 1
    BY IsoMondayIs, NewYearDay, WeekdayNumber
  <2> QED
    BY <2>1, <2>2
<1>2. i = j + IF IsLeap(y) THEN 366 ELSE 365
  BY <1>1, YearLength
<1>3. t >= s + 364 /\ t <= s + 371
  BY SMT, <1>1, <1>2
<1> QED
  BY <1>1, <1>3

InIsoYear(n, y) == IsoMonday(y) <= n /\ n < IsoMonday(y + 1)

\* ISO years begin one after the other.
LEMMA IsoYearsFollow ==
  ASSUME NEW a \in Int, NEW b \in Int, a < b
  PROVE  IsoMonday(a) < IsoMonday(b)
<1>1. NewYear(b) >= NewYear(a) + 365 * (b - a)
  BY SMT, YearsAreLong
<1>2. /\ IsoMonday(a) \in Int /\ IsoMonday(b) \in Int
      /\ NewYear(a) \in Int /\ NewYear(b) \in Int
      /\ IsoMonday(a) <= NewYear(a) + 3 /\ NewYear(b) - 3 <= IsoMonday(b)
  BY IsoMondayIs, NewYearDay
<1> QED
  BY SMT, <1>1, <1>2

\* A day is in one ISO year only.
LEMMA OneIsoYear ==
  ASSUME NEW n \in Int, NEW a \in Int, NEW b \in Int, InIsoYear(n, a), InIsoYear(n, b)
  PROVE  a = b
<1>1. ASSUME NEW i \in Int, NEW j \in Int, i < j, InIsoYear(n, i), InIsoYear(n, j)
      PROVE  FALSE
  <2>1. IsoMonday(i + 1) <= IsoMonday(j)
    <3>1. i + 1 \in Int /\ (i + 1 = j \/ i + 1 < j)
      BY SMT, <1>1
    <3>2. IsoMonday(i + 1) \in Int /\ IsoMonday(j) \in Int
      BY <3>1, IsoMondayIs
    <3> QED
      BY SMT, <3>1, <3>2, IsoYearsFollow
  <2>2. IsoMonday(i + 1) \in Int /\ IsoMonday(j) \in Int
    BY SMT, IsoMondayIs
  <2> QED
    BY SMT, <1>1, <2>1, <2>2 DEF InIsoYear
<1> QED
  BY SMT, <1>1

----------------------------------------------------------------------------
\* The ISO year of a day, and its week.

\* The days after the range have a year that does not fit: it wraps around.
LEMMA TheLastDays ==
  ASSUME NEW n \in Int, 11248738 <= n, n <= 11248744
  PROVE  FromDays(n).y = -32768 /\ FromDays(n).m = 1
<1>1. PICK r \in Int : r = n - 11248432 /\ 306 <= r /\ r <= 312
  BY SMT
<1>2. Parts(3, 16, 3, r) /\ DayAt(81, 3, 16, 3, r) = n
  BY SMT, <1>1 DEF Parts, DayAt, DayOfEra
<1>3. PICK x : x = DateAt(81, 3, 16, 3, r)
  OBVIOUS
<1>4. FromDays(n) = [y |-> Short(x.y), m |-> x.m, d |-> x.d]
  <2>1. 81 \in Int /\ 3 \in Int /\ 16 \in Int
    BY SMT
  <2>2. FromDays(DayAt(81, 3, 16, 3, r)) = [y |-> Short(x.y), m |-> x.m, d |-> x.d]
    BY SMT, <1>1, <1>2, <1>3, <2>1, DateOfAnyDay
  <2> QED
    BY SMT, <1>2, <2>2
<1>5. (5 * r + 2) \div 153 = 10
  BY SMT, <1>1
<1>6. x = [y |-> 32768, m |-> 1, d |-> r - MonthStart(10) + 1]
  BY SMT, <1>3, <1>5 DEF DateAt, MarchDate, MonthFromMarch, YearAt, YearOfEraAt
<1>7. Short(32768) = -32768
  BY SMT DEF Short
<1> QED
  BY SMT, <1>4, <1>6, <1>7

\* The range begins on a Saturday, and the year after it on a Monday.
LEMMA EndsOfRange ==
  /\ NewYear(MinYear) = -12687428 /\ IsoMonday(MinYear) = -12687426
  /\ NewYear(MaxYear + 1) = 11248738 /\ IsoMonday(MaxYear + 1) = 11248738
<1>1. NewYear(MinYear) = -12687428 /\ NewYear(MaxYear + 1) = 11248738
  BY SMT DEF NewYear, EraDays, MinYear, MaxYear
<1>2. PICK i \in Int, j \in Int : i = -12687429 /\ j = 11248737
  BY SMT
<1>3. i % 7 = 1 /\ j % 7 = 3
  <2>1. PICK p \in Int, q \in Int : i = 7 * p + 1 /\ j = 7 * q + 3
    BY SMT, <1>2
  <2> QED
    BY SMT, <2>1
<1>4. NewYear(MinYear) - 1 = i /\ NewYear(MaxYear + 1) - 1 = j
  BY SMT, <1>1, <1>2
<1>5. /\ IsoMonday(MinYear) = NewYear(MinYear) + 3 - (i % 7)
      /\ IsoMonday(MaxYear + 1) = NewYear(MaxYear + 1) + 3 - (j % 7)
  BY <1>4 DEF IsoMonday
<1> QED
  BY SMT, <1>1, <1>3, <1>5

\* The ISO year that is computed is the one the day is in.
LEMMA IsoYearFound ==
  ASSUME NEW n \in Days, n >= IsoMonday(MinYear)
  PROVE  /\ IsoYear(n) \in Int /\ MinYear <= IsoYear(n) /\ IsoYear(n) <= MaxYear
         /\ InIsoYear(n, IsoYear(n))
<1>1. PICK y \in Int :
        /\ MinYear <= y /\ y <= MaxYear + 1 /\ FromDays(n + 3).y = AsShort(y)
        /\ NewYear(y) <= n + 3 /\ n + 3 < NewYear(y + 1)
  <2>1. /\ n \in Int /\ -12687428 <= n /\ n <= 11248737
    BY DaysBounds
  <2>2. CASE n + 3 \in Days
    <3>1. GoodDate(FromDays(n + 3)) /\ ToDays(FromDays(n + 3)) = n + 3
      BY <2>2, DayHasGoodDate
    <3>2. /\ NewYear(FromDays(n + 3).y) <= n + 3
          /\ n + 3 < NewYear(FromDays(n + 3).y + 1)
      BY <3>1, GoodDateHasDay
    <3>3. FromDays(n + 3).y \in Int /\ MinYear <= FromDays(n + 3).y /\ FromDays(n + 3).y <= MaxYear
      BY <3>1 DEF GoodDate
    <3>4. FromDays(n + 3).y <= MaxYear + 1 /\ AsShort(FromDays(n + 3).y) = FromDays(n + 3).y
      BY SMT, <3>3 DEF AsShort, MaxYear
    <3> QED
      BY <3>2, <3>3, <3>4
  <2>3. CASE n + 3 \notin Days
    <3>1. 11248738 <= n + 3 /\ n + 3 <= 11248740 /\ n + 3 \in Int
      BY SMT, <2>1, <2>3, DaysAre
    <3>2. FromDays(n + 3).y = AsShort(MaxYear + 1)
      BY SMT, <3>1, TheLastDays DEF AsShort
    <3>3. NewYear(MaxYear + 1) <= n + 3 /\ n + 3 < NewYear(MaxYear + 1 + 1)
      <4>1. NewYear(MaxYear + 1 + 1) = 11248738 + IF IsLeap(MaxYear + 1) THEN 366 ELSE 365
        BY SMT, YearLength, EndsOfRange, YearNumbers
      <4> QED
        BY SMT, <3>1, <4>1, EndsOfRange
    <3>4. MaxYear + 1 \in Int /\ MinYear <= MaxYear + 1
      BY SMT DEF MinYear, MaxYear
    <3> QED
      BY SMT, <3>2, <3>3, <3>4
  <2> QED
    BY <2>2, <2>3
<1>2. /\ IsoMonday(y) \in Int /\ IsoMonday(y) <= NewYear(y) + 3
      /\ NewYear(y) - 3 <= IsoMonday(y) /\ NewYear(y) \in Int
      /\ IsoMonday(y + 1) \in Int /\ NewYear(y + 1) - 3 <= IsoMonday(y + 1)
      /\ NewYear(y + 1) \in Int
  <2>1. y + 1 \in Int
    BY SMT
  <2> QED
    BY <2>1, IsoMondayIs, NewYearDay
<1>3. IsoStart(AsShort(y)) = IsoMonday(y)
  BY <1>1, IsoStartIs
<1>4. n \in Int /\ n <= 11248737
  BY DaysBounds
<1>5. CASE n < IsoMonday(y)
  <2>1. y # MinYear /\ y - 1 \in Int /\ MinYear <= y - 1 /\ y - 1 <= MaxYear
    <3>1. y # MinYear
      BY SMT, <1>2, <1>4, <1>5
    <3> QED
      BY SMT, <1>1, <3>1 DEF MinYear, MaxYear
  <2>2. IsoYear(n) = y - 1
    <3>1. YearPlus(AsShort(y), -1) = y - 1
      BY SMT, <1>1, <2>1 DEF YearPlus, Short, AsShort, MinYear, MaxYear
    <3> QED
      BY <1>1, <1>3, <1>5, <3>1 DEF IsoYear
  <2>3. IsoMonday(y - 1) <= n
    <3>1. /\ IsoMonday(y - 1) \in Int /\ IsoMonday(y - 1) <= NewYear(y - 1) + 3
          /\ NewYear(y - 1) \in Int
      BY <2>1, IsoMondayIs, NewYearDay
    <3>2. NewYear(y) >= NewYear(y - 1) + 365 * (y - (y - 1))
      BY SMT, <2>1, YearsAreLong
    <3> QED
      BY SMT, <1>1, <1>2, <1>4, <3>1, <3>2
  <2>4. y - 1 + 1 = y
    BY SMT
  <2> QED
    BY <1>5, <2>1, <2>2, <2>3, <2>4 DEF InIsoYear
<1>6. CASE ~(n < IsoMonday(y))
  <2>1. IsoYear(n) = AsShort(y)
    BY <1>1, <1>3, <1>6 DEF IsoYear
  <2>2. y <= MaxYear /\ AsShort(y) = y
    <3>1. y # MaxYear + 1
      BY SMT, <1>2, <1>4, <1>6, EndsOfRange
    <3> QED
      BY SMT, <1>1, <3>1 DEF AsShort, MaxYear
  <2>3. IsoMonday(y) <= n /\ n < IsoMonday(y + 1)
    BY SMT, <1>1, <1>2, <1>4, <1>6
  <2> QED
    BY <1>1, <2>1, <2>2, <2>3 DEF InIsoYear
<1> QED
  BY <1>5, <1>6

\* So is the week.
LEMMA IsoWeekFound ==
  ASSUME NEW n \in Days, n >= IsoMonday(MinYear)
  PROVE  /\ IsoWeek(n) = (n - IsoMonday(IsoYear(n))) \div 7 + 1
         /\ IsoWeek(n) \in 1..53
<1>1. PICK y \in Int :
        y = IsoYear(n) /\ MinYear <= y /\ y <= MaxYear /\ InIsoYear(n, y)
  BY IsoYearFound
<1>2. PICK s \in Int :
        s = IsoMonday(y) /\ IsoStart(y) = s /\ n \in Int /\ s <= n /\ n < s + 371
  <2>1. AsShort(y) = y /\ y <= MaxYear + 1
    BY SMT, <1>1 DEF AsShort, MaxYear
  <2>2. IsoStart(y) = IsoMonday(y)
    BY <1>1, <2>1, IsoStartIs
  <2>3. /\ IsoMonday(y) \in Int /\ IsoMonday(y + 1) \in Int
        /\ IsoMonday(y + 1) <= IsoMonday(y) + 371
    BY IsoMondayIs, IsoYearLength
  <2>4. n \in Int
    BY SMT, DaysBounds
  <2> QED
    BY SMT, <1>1, <2>2, <2>3, <2>4 DEF InIsoYear
<1>3. Cut(n - s, 7) = (n - s) \div 7 /\ (n - s) \div 7 + 1 \in 1..53
  BY SMT, <1>2 DEF Cut
<1> QED
  BY <1>1, <1>2, <1>3 DEF IsoWeek

\* The first two days of the range are in the year before it, which a short
\* still holds, but whose start it does not.
LEMMA TheFirstDays ==
  ASSUME NEW n \in Days, n < IsoMonday(MinYear)
  PROVE  /\ n \in Int /\ -12687428 <= n /\ n <= -12687427
         /\ IsoYear(n) = -32768 /\ IsoWeek(n) = -3419451
<1>1. /\ n \in Int /\ -12687428 <= n /\ n <= -12687427
      /\ MinYear \in Int /\ MinYear <= MaxYear /\ MinYear + 1 \in Int
  BY SMT, DaysBounds, EndsOfRange DEF MinYear, MaxYear
<1>2. PICK d \in Int : d = n + 12687432 /\ 4 <= d /\ d <= 5
  BY SMT, <1>1
<1> DEFINE x == [y |-> MinYear, m |-> 1, d |-> d]
<1>3. GoodDate(x)
  <2>1. LastDay(MinYear, 1) = 31
    BY SMT DEF LastDay, MonthOk
  <2> QED
    BY SMT, <1>1, <1>2, <2>1 DEF GoodDate
<1>4. ToDays(x) = n + 3
  <2>1. ToDays(x) = NewYear(MinYear) + d - 1
    BY SMT, <1>1, <1>2, NewYearDay
  <2> QED
    BY SMT, <1>1, <1>2, <2>1, EndsOfRange
<1>5. FromDays(n + 3) = x
  BY SMT, <1>3, <1>4, GoodDateHasDay
<1>6. IsoStart(MinYear) = IsoMonday(MinYear)
  <2>1. AsShort(MinYear) = MinYear /\ MinYear <= MaxYear + 1
    BY SMT DEF AsShort, MinYear, MaxYear
  <2>2. MinYear <= MinYear
    BY SMT, <1>1
  <2>3. IsoStart(AsShort(MinYear)) = IsoMonday(MinYear)
    BY SMT, <1>1, <2>1, <2>2, IsoStartIs
  <2> QED
    BY <2>1, <2>3
<1>7. IsoYear(n) = YearPlus(MinYear, -1)
  BY SMT, <1>5, <1>6 DEF IsoYear
<1>8. YearPlus(MinYear, -1) = -32768
  BY SMT DEF YearPlus, Short, MinYear
<1>9. IsoStart(-32768) = 11248738
  <2>1. AsShort(MaxYear + 1) = -32768 /\ MaxYear + 1 \in Int /\ MinYear <= MaxYear + 1
    BY SMT DEF AsShort, MinYear, MaxYear
  <2>2. IsoStart(AsShort(MaxYear + 1)) = IsoMonday(MaxYear + 1)
    <3>1. MaxYear + 1 <= MaxYear + 1
      BY SMT, <2>1
    <3> QED
      BY SMT, <2>1, <3>1, IsoStartIs
  <2> QED
    BY SMT, <2>1, <2>2, EndsOfRange
<1>10. PICK k \in Int : k = n - 11248738 /\ k >= -23936166 /\ k <= -23936165
  BY SMT, <1>1
<1>11. Cut(k, 7) = -3419452
  BY SMT, <1>10 DEF Cut
<1> QED
  BY SMT, <1>1, <1>7, <1>8, <1>9, <1>10, <1>11 DEF IsoWeek

\* The rule of the calendar on the wall.
StartsIso(n) ==
  /\ WeekdayFromDays(n) = 1
  /\ \/ FromDays(n).m = 12 /\ FromDays(n).d >= 29
     \/ FromDays(n).m = 1 /\ FromDays(n).d <= 4

\* A day that begins an ISO year on the wall is a Monday that begins one.
LEMMA StartsAtMonday ==
  ASSUME NEW n \in Days, StartsIso(n)
  PROVE  \E y \in Int : n = IsoMonday(y)
<1>1. PICK x : x = FromDays(n) /\ GoodDate(x) /\ ToDays(x) = n
  BY DayHasGoodDate
<1>2. n \in Int /\ x.y \in Int /\ x.y + 1 \in Int /\ x.d \in Int /\ 1 <= x.d
  BY SMT, <1>1, DaysBounds DEF GoodDate
<1>3. x = [y |-> x.y, m |-> x.m, d |-> x.d] /\ x.d <= LastDay(x.y, x.m)
  BY <1>1 DEF GoodDate
<1>4. CASE x.m = 12 /\ x.d >= 29
  <2>1. ToDays([y |-> x.y, m |-> 12, d |-> x.d]) = NewYear(x.y + 1) - 32 + x.d
    BY <1>2, NewYearDay
  <2>2. x.d <= 31
    BY SMT, <1>2, <1>3, <1>4, MonthBounds
  <2>3. NewYear(x.y + 1) \in Int
    BY <1>2, NewYearDay
  <2>4. NewYear(x.y + 1) - 3 <= n /\ n <= NewYear(x.y + 1) + 3
    BY SMT, <1>1, <1>2, <1>3, <1>4, <2>1, <2>2, <2>3
  <2> QED
    BY <1>1, <1>2, <2>4, IsoMondayIs DEF StartsIso
<1>5. CASE x.m = 1 /\ x.d <= 4
  <2>1. ToDays([y |-> x.y, m |-> 1, d |-> x.d]) = NewYear(x.y) + x.d - 1
    BY <1>2, NewYearDay
  <2>2. NewYear(x.y) \in Int
    BY <1>2, NewYearDay
  <2>3. NewYear(x.y) - 3 <= n /\ n <= NewYear(x.y) + 3
    BY SMT, <1>1, <1>2, <1>3, <1>5, <2>1, <2>2
  <2> QED
    BY <1>1, <1>2, <2>3, IsoMondayIs DEF StartsIso
<1> QED
  BY <1>1, <1>4, <1>5 DEF StartsIso

\* And the other way round.
LEMMA MondayStarts ==
  ASSUME NEW n \in Days, NEW y \in Int, n = IsoMonday(y)
  PROVE  StartsIso(n)
<1>1. /\ n \in Int /\ WeekdayFromDays(n) = 1 /\ NewYear(y) \in Int
      /\ NewYear(y) - 3 <= n /\ n <= NewYear(y) + 3
  BY IsoMondayIs, NewYearDay
<1>2. MinYear <= y
  <2>1. SUFFICES ASSUME y < MinYear
                 PROVE  FALSE
    BY SMT, YearNumbers
  <2>2. NewYear(MinYear) >= NewYear(y) + 365 * (MinYear - y)
    BY SMT, <2>1, YearsAreLong, YearNumbers
  <2> QED
    BY SMT, <1>1, <2>1, <2>2, EndsOfRange, DaysBounds, YearNumbers
<1>3. y <= MaxYear
  <2>1. SUFFICES ASSUME y > MaxYear
                 PROVE  FALSE
    BY SMT, YearNumbers
  <2>2. y = MaxYear + 1 \/ MaxYear + 1 < y
    BY SMT, <2>1, YearNumbers
  <2>3. MaxYear + 1 < y => IsoMonday(MaxYear + 1) < IsoMonday(y)
    BY SMT, IsoYearsFollow, YearNumbers
  <2> QED
    BY SMT, <1>1, <2>2, <2>3, EndsOfRange, DaysBounds
<1>4. CASE n >= NewYear(y)
  <2>1. PICK d \in Int : d = n - NewYear(y) + 1 /\ 1 <= d /\ d <= 4
    BY SMT, <1>1, <1>4
  <2> DEFINE x == [y |-> y, m |-> 1, d |-> d]
  <2>2. GoodDate(x)
    <3>1. LastDay(y, 1) = 31
      BY SMT DEF LastDay, MonthOk
    <3> QED
      BY SMT, <1>2, <1>3, <2>1, <3>1 DEF GoodDate
  <2>3. ToDays(x) = n
    <3>1. ToDays(x) = NewYear(y) + d - 1
      BY <2>1, NewYearDay
    <3> QED
      BY SMT, <1>1, <2>1, <3>1
  <2>4. FromDays(n) = x
    BY <2>2, <2>3, GoodDateHasDay
  <2> QED
    BY SMT, <1>1, <2>1, <2>4 DEF StartsIso
<1>5. CASE n < NewYear(y)
  <2>1. PICK d \in Int : d = n - NewYear(y) + 32 /\ 29 <= d /\ d <= 31
    BY SMT, <1>1, <1>5
  <2>2. MinYear < y
    <3>1. y # MinYear
      BY SMT, <1>5, EndsOfRange, DaysBounds
    <3> QED
      BY SMT, <1>2, <3>1, YearNumbers
  <2> DEFINE x == [y |-> y - 1, m |-> 12, d |-> d]
  <2>3. GoodDate(x)
    <3>1. LastDay(y - 1, 12) = 31
      BY SMT DEF LastDay, MonthOk
    <3>2. y - 1 \in Int /\ MinYear <= y - 1 /\ y - 1 <= MaxYear
      BY SMT, <1>3, <2>2, YearNumbers
    <3> QED
      BY SMT, <2>1, <3>1, <3>2 DEF GoodDate
  <2>4. ToDays(x) = n
    <3>1. y - 1 \in Int /\ y - 1 + 1 = y
      BY SMT
    <3>2. ToDays(x) = NewYear(y - 1 + 1) - 32 + d
      BY <2>1, <3>1, NewYearDay
    <3> QED
      BY SMT, <1>1, <2>1, <3>1, <3>2
  <2>5. FromDays(n) = x
    BY <2>3, <2>4, GoodDateHasDay
  <2> QED
    BY SMT, <1>1, <2>1, <2>5 DEF StartsIso
<1> QED
  BY SMT, <1>1, <1>4, <1>5

\* ISO years and weeks go on like those on the wall.
LEMMA IsoGoesOn ==
  ASSUME NEW n \in Days, n + 1 \in Days
  PROVE  /\ IsoYear(n + 1) = IF StartsIso(n + 1) THEN IsoYear(n) + 1 ELSE IsoYear(n)
         /\ IsoWeek(n + 1) =
              IF StartsIso(n + 1) THEN 1
              ELSE IF WeekdayFromDays(n + 1) = 1 THEN IsoWeek(n) + 1 ELSE IsoWeek(n)
<1>1. n \in Int /\ n + 1 \in Int /\ MinYear \in Int
  BY SMT, DaysBounds, YearNumbers
<1>2. WeekdayFromDays(n + 1) = (n + 1 + 4) % 7
  BY <1>1, WeekdayNumber
<1>3. StartsIso(n + 1) <=> \E y \in Int : n + 1 = IsoMonday(y)
  BY StartsAtMonday, MondayStarts
<1>4. CASE n >= IsoMonday(MinYear)
  <2>1. PICK y \in Int : y = IsoYear(n) /\ InIsoYear(n, y)
    BY <1>4, IsoYearFound
  <2>2. PICK s \in Int, t \in Int :
          /\ s = IsoMonday(y) /\ t = IsoMonday(y + 1) /\ s <= n /\ n < t
          /\ IsoWeek(n) = (n - s) \div 7 + 1 /\ (s + 4) % 7 = 1
    <3>1. y + 1 \in Int
      BY SMT
    <3> QED
      BY <1>4, <2>1, <3>1, IsoMondayIs, IsoWeekFound, WeekdayNumber DEF InIsoYear
  <2>3. n + 1 >= IsoMonday(MinYear)
    BY SMT, <1>1, <1>4, IsoMondayIs
  <2>4. PICK z \in Int :
          /\ z = IsoYear(n + 1) /\ InIsoYear(n + 1, z)
          /\ IsoWeek(n + 1) = (n + 1 - IsoMonday(z)) \div 7 + 1
    <3>1. IsoYear(n + 1) \in Int /\ InIsoYear(n + 1, IsoYear(n + 1))
      BY <2>3, IsoYearFound
    <3>2. IsoWeek(n + 1) = (n + 1 - IsoMonday(IsoYear(n + 1))) \div 7 + 1
      <4>1. PICK k \in Days : k = n + 1
        OBVIOUS
      <4>2. IsoWeek(k) = (k - IsoMonday(IsoYear(k))) \div 7 + 1
        BY <2>3, <4>1, IsoWeekFound
      <4>3. PICK i \in Int : i = IsoMonday(IsoYear(k)) /\ i = IsoMonday(IsoYear(n + 1))
        BY <3>1, <4>1, IsoMondayIs
      <4>4. IsoWeek(k) = (k - i) \div 7 + 1
        BY <4>2, <4>3
      <4>5. IsoWeek(n + 1) = (n + 1 - i) \div 7 + 1
        BY SMT, <1>1, <4>1, <4>4
      <4> QED
        BY <4>3, <4>5
    <3> QED
      BY <3>1, <3>2
  <2>5. CASE n + 1 = t
    <3>1. y + 1 \in Int /\ y + 1 + 1 \in Int
      BY SMT
    <3>2. InIsoYear(n + 1, y + 1)
      BY SMT, <1>1, <2>2, <2>5, <3>1, IsoYearLength DEF InIsoYear
    <3>3. z = y + 1
      BY <1>1, <2>4, <3>1, <3>2, OneIsoYear
    <3>4. StartsIso(n + 1)
      BY <1>3, <2>2, <2>5, <3>1
    <3>5. (n + 1 - t) \div 7 + 1 = 1
      BY SMT, <1>1, <2>5
    <3> QED
      BY <2>1, <2>2, <2>4, <3>3, <3>4, <3>5
  <2>6. CASE n + 1 # t
    <3>1. InIsoYear(n + 1, y)
      BY SMT, <1>1, <2>2, <2>6 DEF InIsoYear
    <3>2. z = y
      BY <1>1, <2>4, <3>1, OneIsoYear
    <3>3. ~StartsIso(n + 1)
      <4>1. SUFFICES ASSUME NEW i \in Int, n + 1 = IsoMonday(i)
                     PROVE  FALSE
        BY <1>3
      <4>2. InIsoYear(n + 1, i)
        BY SMT, <1>1, <4>1, IsoYearLength DEF InIsoYear
      <4>3. i = y
        BY <1>1, <3>1, <4>2, OneIsoYear
      <4> QED
        BY SMT, <1>1, <2>2, <4>1, <4>3
    <3>4. (n + 1 - s) \div 7 = (n - s) \div 7 + IF (n + 1 + 4) % 7 = 1 THEN 1 ELSE 0
      BY SMT, <1>1, <2>2
    <3>5. /\ (n + 1 + 4) % 7 = 1 => IsoWeek(n + 1) = IsoWeek(n) + 1
          /\ (n + 1 + 4) % 7 # 1 => IsoWeek(n + 1) = IsoWeek(n)
      BY SMT, <1>1, <2>2, <2>4, <3>2, <3>4
    <3> QED
      BY <1>2, <2>1, <2>4, <3>2, <3>3, <3>5
  <2> QED
    BY <2>5, <2>6
<1>5. CASE n < IsoMonday(MinYear)
  <2>1. /\ -12687428 <= n /\ n <= -12687427
        /\ IsoYear(n) = -32768 /\ IsoWeek(n) = -3419451
    BY SMT, <1>5, TheFirstDays
  <2>2. CASE n = -12687428
    <3>1. /\ n + 1 < IsoMonday(MinYear)
          /\ IsoYear(n + 1) = -32768 /\ IsoWeek(n + 1) = -3419451
      BY SMT, <1>1, <2>2, TheFirstDays, EndsOfRange
    <3>2. (n + 1 + 4) % 7 # 1
      BY SMT, <1>1, <2>2
    <3>3. ~StartsIso(n + 1)
      BY SMT, <1>2, <3>2 DEF StartsIso
    <3> QED
      BY SMT, <1>2, <2>1, <3>1, <3>2, <3>3
  <2>3. CASE n = -12687427
    <3>1. n + 1 = IsoMonday(MinYear)
      BY SMT, <1>1, <2>3, EndsOfRange
    <3>2. StartsIso(n + 1)
      BY SMT, <1>1, <1>3, <3>1
    <3>3. PICK z \in Int :
            /\ z = IsoYear(n + 1) /\ InIsoYear(n + 1, z)
            /\ IsoWeek(n + 1) = (n + 1 - IsoMonday(z)) \div 7 + 1
      <4>1. n + 1 >= IsoMonday(MinYear)
        BY SMT, <1>1, <3>1
      <4>2. IsoYear(n + 1) \in Int /\ InIsoYear(n + 1, IsoYear(n + 1))
        BY <4>1, IsoYearFound
      <4>3. IsoWeek(n + 1) = (n + 1 - IsoMonday(IsoYear(n + 1))) \div 7 + 1
        <5>1. PICK k \in Days : k = n + 1
          OBVIOUS
        <5>2. IsoWeek(k) = (k - IsoMonday(IsoYear(k))) \div 7 + 1
          BY <4>1, <5>1, IsoWeekFound
        <5>3. PICK i \in Int : i = IsoMonday(IsoYear(k)) /\ i = IsoMonday(IsoYear(n + 1))
          BY <4>2, <5>1, IsoMondayIs
        <5>4. IsoWeek(k) = (k - i) \div 7 + 1
          BY <5>2, <5>3
        <5>5. IsoWeek(n + 1) = (n + 1 - i) \div 7 + 1
          BY SMT, <1>1, <5>1, <5>4
        <5> QED
          BY <5>3, <5>5
      <4> QED
        BY <4>2, <4>3
    <3>4. InIsoYear(n + 1, MinYear)
      BY SMT, <1>1, <3>1, IsoYearLength DEF InIsoYear
    <3>5. z = MinYear
      BY SMT, <1>1, <3>3, <3>4, OneIsoYear
    <3>6. MinYear = -32768 + 1
      BY SMT DEF MinYear
    <3>7. IsoWeek(n + 1) = 1
      BY SMT, <1>1, <3>1, <3>3, <3>5
    <3> QED
      BY SMT, <2>1, <3>2, <3>3, <3>5, <3>6, <3>7
  <2> QED
    BY SMT, <1>1, <2>1, <2>2, <2>3
<1> QED
  BY SMT, <1>1, <1>4, <1>5, IsoMondayIs

----------------------------------------------------------------------------
\* The time of day.

Tod(h, m, s, sub, second) ==
  [neg |-> FALSE, h |-> h, m |-> m, s |-> s, sub |-> sub, second |-> second]

IsTime(h, m, s) ==
  /\ h \in Int /\ 0 <= h
  /\ m \in Int /\ 0 <= m /\ m <= 59
  /\ s \in Int /\ 0 <= s /\ s <= 59

SecondOfDay(h, m, s) == 3600 * h + 60 * m + s

\* The parts of a duration, one by one.
LEMMA SplitSteps ==
  ASSUME NEW d, NEW second, NEW h, NEW m, NEW rest, NEW s, NEW sub, ~(d < 0),
         Cut(Magnitude(d), 3600 * second) = h,
         Cut(Magnitude(d), 60 * second) - h * 60 = m,
         Magnitude(d) - h * 3600 * second - m * 60 * second = rest,
         Cut(rest, second) = s, rest - s * second = sub
  PROVE  HhMmSs(d, second) = Tod(h, m, s, sub, second)
<1> DEFINE neg == d < 0
           a  == Magnitude(d)
           eh == Cut(a, 3600 * second)
           em == Cut(a, 60 * second) - eh * 60
           er == a - eh * 3600 * second - em * 60 * second
           es == Cut(er, second)
           eu == er - es * second
<1>2. HhMmSs(d, second) =
        [neg |-> neg, h |-> eh, m |-> em, s |-> es, sub |-> eu, second |-> second]
  BY DEF HhMmSs
<1>1. neg = FALSE
  OBVIOUS
<1> HIDE DEF neg
<1>3. eh = h
  OBVIOUS
<1> HIDE DEF eh
<1>4. em = m
  BY <1>3
<1> HIDE DEF em
<1>5. er = rest
  BY <1>3, <1>4
<1> HIDE DEF er
<1>6. es = s
  BY <1>5
<1> HIDE DEF es
<1>7. eu = sub
  BY <1>5, <1>6
<1> HIDE DEF eu
<1>8. HhMmSs(d, second) =
        [neg |-> FALSE, h |-> eh, m |-> em, s |-> es, sub |-> eu, second |-> second]
  BY Zenon, <1>1, <1>2
<1>9. HhMmSs(d, second) =
        [neg |-> FALSE, h |-> h, m |-> m, s |-> s, sub |-> sub, second |-> second]
  BY SMT, <1>3, <1>4, <1>6, <1>7, <1>8
<1> QED
  BY Zenon, <1>9 DEF Tod

\* A duration in seconds, or in milliseconds, falls into its parts.
LEMMA SecondsSplit ==
  ASSUME NEW h, NEW m, NEW s, IsTime(h, m, s)
  PROVE  HhMmSs(3600 * h + 60 * m + s, 1) = Tod(h, m, s, 0, 1)
<1>1. PICK a \in Int : a = 3600 * h + 60 * m + s /\ a >= 0
  BY SMT DEF IsTime
<1>2. a \div 3600 = h /\ a \div 60 = 60 * h + m
  BY SMT, <1>1 DEF IsTime
<1>3. Magnitude(a) = a /\ Cut(a, 3600 * 1) = h /\ Cut(a, 60 * 1) - h * 60 = m
  BY SMT, <1>1, <1>2 DEF Magnitude, Cut, IsTime
<1>4. a - h * 3600 * 1 - m * 60 * 1 = s /\ Cut(s, 1) = s /\ s - s * 1 = 0
  BY SMT, <1>1 DEF Cut, IsTime
<1>5. ~(a < 0)
  BY SMT, <1>1
<1>6. HhMmSs(a, 1) = Tod(h, m, s, 0, 1)
  BY <1>3, <1>4, <1>5, SplitSteps
<1> QED
  BY <1>1, <1>6

LEMMA MillisecondsSplit ==
  ASSUME NEW h, NEW m, NEW s, IsTime(h, m, s), NEW sub \in Int, 0 <= sub, sub <= 999
  PROVE  HhMmSs(3600000 * h + 60000 * m + 1000 * s + sub, 1000) = Tod(h, m, s, sub, 1000)
<1>1. PICK a \in Int : a = 3600000 * h + 60000 * m + 1000 * s + sub /\ a >= 0
  BY SMT DEF IsTime
<1>2. a \div 3600000 = h /\ a \div 60000 = 60 * h + m
  BY SMT, <1>1 DEF IsTime
<1>3. Magnitude(a) = a /\ Cut(a, 3600 * 1000) = h /\ Cut(a, 60 * 1000) - h * 60 = m
  BY SMT, <1>1, <1>2 DEF Magnitude, Cut, IsTime
<1>4. PICK rest \in Int :
        /\ rest = a - h * 3600 * 1000 - m * 60 * 1000 /\ rest = 1000 * s + sub
        /\ Cut(rest, 1000) = s /\ rest - s * 1000 = sub
  BY SMT, <1>1 DEF Cut, IsTime
<1>5. ~(a < 0)
  BY SMT, <1>1
<1>6. HhMmSs(a, 1000) = Tod(h, m, s, sub, 1000)
  BY <1>3, <1>4, <1>5, SplitSteps
<1> QED
  BY SMT, <1>1, <1>6

\* A second of a day has an hour, a minute and a second.
LEMMA SecondsParts ==
  ASSUME NEW a \in Int, 0 <= a, a < 86400
  PROVE  \E h, m, s \in Int :
           IsTime(h, m, s) /\ h <= 23 /\ a = SecondOfDay(h, m, s)
<1>1. PICK b \in Int, s \in Int : a = 60 * b + s /\ 0 <= s /\ s <= 59
  <2>1. /\ a = 60 * (a \div 60) + (a % 60) /\ a \div 60 \in Int
        /\ a % 60 \in Int /\ 0 <= a % 60 /\ a % 60 <= 59
    BY SMT
  <2> QED
    BY SMT, <2>1
<1>2. PICK h \in Int, m \in Int : b = 60 * h + m /\ 0 <= m /\ m <= 59
  <2>1. /\ b = 60 * (b \div 60) + (b % 60) /\ b \div 60 \in Int
        /\ b % 60 \in Int /\ 0 <= b % 60 /\ b % 60 <= 59
    BY SMT
  <2> QED
    BY SMT, <2>1
<1>3. IsTime(h, m, s) /\ h <= 23 /\ a = SecondOfDay(h, m, s)
  BY SMT, <1>1, <1>2 DEF IsTime, SecondOfDay
<1> QED
  BY <1>3

----------------------------------------------------------------------------
\* What the clock shows, and the clock on the wall.

ShownAt(n, h, m, s, ms) ==
  LET x == FromDays(n)
  IN  [y |-> x.y, m |-> x.m, d |-> x.d,
       wd |-> WeekdayFromDays(n), yday |-> n - NewYear(x.y) + 1,
       sundays |-> WeekNumber(x, Sunday), mondays |-> WeekNumber(x, Monday),
       isoYear |-> IsoYear(n), isoWeek |-> IsoWeek(n),
       h |-> h, min |-> m, s |-> s, ms |-> ms]

\* The months on the wall are as long as those of date.h.
LEMMA MonthLengthIs ==
  ASSUME NEW y \in Int, NEW m \in Int, 1 <= m, m <= 12
  PROVE  WallClock!MonthLength(y, m) = LastDay(y, m)
<1>1. IsLeap(y) <=> y % 4 = 0 /\ (y % 100 = 0 => y % 400 = 0)
  BY DEF IsLeap
<1>2. CASE m = 2
  <2>1. LastDay(y, 2) = IF IsLeap(y) THEN 29 ELSE 28
    BY FebruaryLength
  <2> QED
    BY SMT, <1>1, <1>2, <2>1 DEF WallClock!MonthLength
<1>3. CASE m # 2
  BY SMT, <1>3 DEF WallClock!MonthLength, LastDay, MonthOk
<1> QED
  BY <1>2, <1>3

\* Each part of the display of the next day follows from that of the day.
LEMMA NextDateIs ==
  ASSUME NEW n \in Days, NEW k \in Days, k = n + 1, NEW h, NEW m, NEW s, NEW ms
  PROVE  WallClock!NextDate(ShownAt(n, h, m, s, ms)) = ShownAt(k, h, m, s, ms)
<1>1. PICK x, z :
        /\ x = FromDays(n) /\ GoodDate(x) /\ ToDays(x) = n
        /\ z = FromDays(k) /\ GoodDate(z) /\ ToDays(z) = k
  BY DayHasGoodDate
<1>2. z = NextDay(x)
  BY <1>1, DatesGoOn
<1>3. /\ n \in Int /\ k \in Int /\ k = n + 1
      /\ x.y \in Int /\ x.m \in Int /\ 1 <= x.m /\ x.m <= 12
      /\ x.d \in Int /\ x.d <= LastDay(x.y, x.m) /\ LastDay(x.y, x.m) \in Int
  BY SMT, <1>1, DaysBounds, MonthBounds DEF GoodDate
<1> DEFINE monthEnds == x.d = LastDay(x.y, x.m)
           yearEnds  == monthEnds /\ x.m = 12
<1>4. /\ z.d = IF monthEnds THEN 1 ELSE x.d + 1
      /\ z.m = IF yearEnds THEN 1 ELSE IF monthEnds THEN x.m + 1 ELSE x.m
      /\ z.y = IF yearEnds THEN x.y + 1 ELSE x.y
  BY SMT, <1>2, <1>3 DEF NextDay
<1>5. WeekdayFromDays(k) = IF WeekdayFromDays(n) = 6 THEN 0 ELSE WeekdayFromDays(n) + 1
  BY <1>3, WeekdaysGoOn
<1>6. k - NewYear(z.y) + 1 = IF yearEnds THEN 1 ELSE n - NewYear(x.y) + 1 + 1
  <2>1. CASE yearEnds
    <3>1. z.m = 1 /\ z.d = 1 /\ z.y \in Int
      BY SMT, <1>3, <1>4, <2>1
    <3>2. ToDays([y |-> z.y, m |-> 1, d |-> 1]) = NewYear(z.y) + 1 - 1
      BY <3>1, NewYearDay
    <3>3. z = [y |-> z.y, m |-> 1, d |-> 1]
      BY <1>1, <3>1 DEF GoodDate
    <3>4. NewYear(z.y) \in Int
      BY <3>1, NewYearDay
    <3> QED
      BY SMT, <1>1, <1>3, <2>1, <3>2, <3>3, <3>4
  <2>2. CASE ~yearEnds
    <3>1. NewYear(z.y) = NewYear(x.y) /\ NewYear(x.y) \in Int
      BY <1>3, <1>4, <2>2, NewYearDay
    <3> QED
      BY SMT, <1>3, <2>2, <3>1
  <2> QED
    BY <2>1, <2>2
<1>7. ASSUME NEW w \in 0..6
      PROVE  WeekNumber(z, w) =
               (IF yearEnds THEN 0 ELSE WeekNumber(x, w))
                 + (IF WeekdayFromDays(k) = w THEN 1 ELSE 0)
  <2>1. WeekNumber(x, w) \in Int
    BY SMT, <1>1, WeekBounds
  <2>2. yearEnds => z.m = 1 /\ z.d = 1
    BY <1>4
  <2>3. ~yearEnds => z.y = x.y
    BY <1>4
  <2> DEFINE more == IF WeekdayFromDays(k) = w THEN 1 ELSE 0
  <2>4. /\ z.y = x.y => WeekNumber(z, w) = WeekNumber(x, w) + more
        /\ z.m = 1 /\ z.d = 1 => WeekNumber(z, w) = more
    BY <1>1, WeekGoesOn
  <2>5. more \in Int
    BY SMT
  <2> HIDE DEF more, yearEnds
  <2>6. WeekNumber(z, w) = (IF yearEnds THEN 0 ELSE WeekNumber(x, w)) + more
    BY SMT, <2>1, <2>2, <2>3, <2>4, <2>5
  <2> QED
    BY <2>6 DEF more
<1>8. /\ WeekNumber(z, 0) = (IF yearEnds THEN 0 ELSE WeekNumber(x, 0))
                              + (IF WeekdayFromDays(k) = 0 THEN 1 ELSE 0)
      /\ WeekNumber(z, 1) = (IF yearEnds THEN 0 ELSE WeekNumber(x, 1))
                              + (IF WeekdayFromDays(k) = 1 THEN 1 ELSE 0)
  <2>1. 0 \in 0..6 /\ 1 \in 0..6
    BY SMT
  <2> HIDE DEF yearEnds
  <2> QED
    BY <1>7, <2>1
<1> DEFINE isoStarts == /\ WeekdayFromDays(k) = 1
                        /\ (z.m = 12 /\ z.d >= 29) \/ (z.m = 1 /\ z.d <= 4)
<1>9. /\ IsoYear(k) = IF isoStarts THEN IsoYear(n) + 1 ELSE IsoYear(n)
      /\ IsoWeek(k) = IF isoStarts THEN 1
                          ELSE IF WeekdayFromDays(k) = 1 THEN IsoWeek(n) + 1
                          ELSE IsoWeek(n)
  BY <1>1, IsoGoesOn DEF StartsIso
<1>10. WallClock!MonthLength(x.y, x.m) = LastDay(x.y, x.m)
  BY <1>3, MonthLengthIs
<1> DEFINE w  == ShownAt(n, h, m, s, ms)
           w1 == ShownAt(k, h, m, s, ms)
           wd == IF w.wd = 6 THEN 0 ELSE w.wd + 1
<1>11. /\ w.y = x.y /\ w.m = x.m /\ w.d = x.d
       /\ w.wd = WeekdayFromDays(n) /\ w.yday = n - NewYear(x.y) + 1
       /\ w.sundays = WeekNumber(x, 0) /\ w.mondays = WeekNumber(x, 1)
       /\ w.isoYear = IsoYear(n) /\ w.isoWeek = IsoWeek(n)
       /\ w = [y |-> w.y, m |-> w.m, d |-> w.d, wd |-> w.wd, yday |-> w.yday,
               sundays |-> w.sundays, mondays |-> w.mondays,
               isoYear |-> w.isoYear, isoWeek |-> w.isoWeek,
               h |-> h, min |-> m, s |-> s, ms |-> ms]
  BY <1>1 DEF ShownAt, Sunday, Monday
<1>12. w1 = [y |-> z.y, m |-> z.m, d |-> z.d, wd |-> WeekdayFromDays(k),
             yday |-> k - NewYear(z.y) + 1,
             sundays |-> WeekNumber(z, 0), mondays |-> WeekNumber(z, 1),
             isoYear |-> IsoYear(k), isoWeek |-> IsoWeek(k),
             h |-> h, min |-> m, s |-> s, ms |-> ms]
  BY <1>1 DEF ShownAt, Sunday, Monday
<1> HIDE DEF w, w1
<1>13. WallClock!NextDate(w) =
         [y |-> z.y, m |-> z.m, d |-> z.d, wd |-> wd,
          yday |-> IF yearEnds THEN 1 ELSE w.yday + 1,
          sundays |-> (IF yearEnds THEN 0 ELSE w.sundays) + (IF wd = 0 THEN 1 ELSE 0),
          mondays |-> (IF yearEnds THEN 0 ELSE w.mondays) + (IF wd = 1 THEN 1 ELSE 0),
          isoYear |-> IF isoStarts THEN w.isoYear + 1 ELSE w.isoYear,
          isoWeek |-> IF isoStarts THEN 1 ELSE IF wd = 1 THEN w.isoWeek + 1 ELSE w.isoWeek,
          h |-> h, min |-> m, s |-> s, ms |-> ms]
  <2> DEFINE wEnds == w.d = WallClock!MonthLength(w.y, w.m)
             wYear == wEnds /\ w.m = 12
             wDay  == IF wEnds THEN 1 ELSE w.d + 1
             wMon  == IF wYear THEN 1 ELSE IF wEnds THEN w.m + 1 ELSE w.m
             wIso  == wd = 1 /\ ((wMon = 12 /\ wDay >= 29) \/ (wMon = 1 /\ wDay <= 4))
  <2>1. WallClock!NextDate(w) =
          [y |-> IF wYear THEN w.y + 1 ELSE w.y, m |-> wMon, d |-> wDay, wd |-> wd,
           yday |-> IF wYear THEN 1 ELSE w.yday + 1,
           sundays |-> (IF wYear THEN 0 ELSE w.sundays) + (IF wd = 0 THEN 1 ELSE 0),
           mondays |-> (IF wYear THEN 0 ELSE w.mondays) + (IF wd = 1 THEN 1 ELSE 0),
           isoYear |-> IF wIso THEN w.isoYear + 1 ELSE w.isoYear,
           isoWeek |-> IF wIso THEN 1 ELSE IF wd = 1 THEN w.isoWeek + 1 ELSE w.isoWeek,
           h |-> w.h, min |-> w.min, s |-> w.s, ms |-> w.ms]
    BY DEF WallClock!NextDate
  <2>2. wEnds <=> monthEnds
    BY <1>10, <1>11
  <2>3. wYear <=> yearEnds
    BY <1>11, <2>2
  <2>4. wDay = z.d /\ wMon = z.m
    BY <1>4, <1>11, <2>2, <2>3
  <2>5. wIso <=> isoStarts
    BY <1>5, <1>11, <2>4
  <2>6. z.y = IF yearEnds THEN w.y + 1 ELSE w.y
    BY <1>4, <1>11
  <2>7. w.h = h /\ w.min = m /\ w.s = s /\ w.ms = ms
    BY <1>11
  <2> HIDE DEF wEnds, wYear, wDay, wMon, wIso, wd, isoStarts, yearEnds, monthEnds
  <2> QED
    BY Zenon, <2>1, <2>3, <2>4, <2>5, <2>6, <2>7
<1> QED
  BY <1>5, <1>6, <1>8, <1>9, <1>11, <1>12, <1>13 DEF w, w1

\* What is shown at a tick is the day it is on and the time of that day.
LEMMA ShownIs ==
  ASSUME NEW unit, NEW t, NEW n \in Days, Floor(t, TicksPerDay(unit)) = n,
         NEW h, NEW m, NEW s, NEW ms,
         HhMmSs((t - n * TicksPerDay(unit)) * UnitsPerTick(unit), Second(unit))
           = Tod(h, m, s, ms, Second(unit))
  PROVE  Shown(unit, t) = ShownAt(n, h, m, s, ms)
<1> DEFINE f == Split(unit, t)
           x == FromDays(n)
<1>1. f.ymd = x /\ f.tod = Tod(h, m, s, ms, Second(unit))
  BY DEF Split, TimeFields, Fields
<1>2. f.tod.h = h /\ f.tod.m = m /\ f.tod.s = s /\ f.tod.sub = ms
  BY <1>1 DEF Tod
<1>3. GoodDate(x) /\ ToDays(x) = n
  BY DayHasGoodDate
<1> HIDE DEF f
<1>4. DayOfYear(f) = n - NewYear(x.y) + 1
  <2>1. DayOfYear(f) = ToDays(x) - NewYear(x.y) + 1
    BY <1>1, <1>3, DayOfYearIs
  <2> QED
    BY <1>3, <2>1
<1> QED
  BY <1>1, <1>2, <1>4 DEF Shown, ShownAt, f

\* The clock on the wall, by the time of day: each hand goes on, or starts
\* again and moves the next.
LEMMA WallHour ==
  ASSUME NEW n, NEW h \in Int, NEW m, NEW s, NEW ms, h < 23
  PROVE  WallClock!AddHour(ShownAt(n, h, m, s, ms)) = ShownAt(n, h + 1, m, s, ms)
<1> DEFINE w == ShownAt(n, h, m, s, ms)
<1>1. w.h = h
  BY DEF ShownAt
<1>2. WallClock!AddHour(w) = [w EXCEPT !.h = h + 1]
  BY SMT, <1>1 DEF WallClock!AddHour
<1>3. [w EXCEPT !.h = h + 1] = ShownAt(n, h + 1, m, s, ms)
  BY SMT DEF ShownAt
<1> QED
  BY <1>2, <1>3

LEMMA WallHourCarry ==
  ASSUME NEW n \in Days, NEW k \in Days, k = n + 1,
         NEW h \in Int, NEW m, NEW s, NEW ms, ~(h < 23)
  PROVE  WallClock!AddHour(ShownAt(n, h, m, s, ms)) = ShownAt(k, 0, m, s, ms)
<1> DEFINE w == ShownAt(n, h, m, s, ms)
<1>1. w.h = h
  BY DEF ShownAt
<1>2. WallClock!AddHour(w) = [WallClock!NextDate(w) EXCEPT !.h = 0]
  BY SMT, <1>1 DEF WallClock!AddHour
<1>3. WallClock!NextDate(w) = ShownAt(k, h, m, s, ms)
  BY NextDateIs
<1>4. [ShownAt(k, h, m, s, ms) EXCEPT !.h = 0] = ShownAt(k, 0, m, s, ms)
  BY SMT DEF ShownAt
<1> QED
  BY Zenon, <1>2, <1>3, <1>4

LEMMA WallMinute ==
  ASSUME NEW n, NEW h, NEW m \in Int, NEW s, NEW ms, m < 59
  PROVE  WallClock!AddMinute(ShownAt(n, h, m, s, ms)) = ShownAt(n, h, m + 1, s, ms)
<1> DEFINE w == ShownAt(n, h, m, s, ms)
<1>1. w.min = m
  BY DEF ShownAt
<1>2. WallClock!AddMinute(w) = [w EXCEPT !.min = m + 1]
  BY SMT, <1>1 DEF WallClock!AddMinute
<1>3. [w EXCEPT !.min = m + 1] = ShownAt(n, h, m + 1, s, ms)
  BY SMT DEF ShownAt
<1> QED
  BY <1>2, <1>3

LEMMA WallMinuteCarry ==
  ASSUME NEW n, NEW h, NEW m \in Int, NEW s, NEW ms, ~(m < 59), NEW k, NEW i,
         WallClock!AddHour(ShownAt(n, h, m, s, ms)) = ShownAt(k, i, m, s, ms)
  PROVE  WallClock!AddMinute(ShownAt(n, h, m, s, ms)) = ShownAt(k, i, 0, s, ms)
<1> DEFINE w == ShownAt(n, h, m, s, ms)
<1>1. w.min = m
  BY DEF ShownAt
<1>2. WallClock!AddMinute(w) = [WallClock!AddHour(w) EXCEPT !.min = 0]
  BY SMT, <1>1 DEF WallClock!AddMinute
<1>3. [ShownAt(k, i, m, s, ms) EXCEPT !.min = 0] = ShownAt(k, i, 0, s, ms)
  BY SMT DEF ShownAt
<1> QED
  BY Zenon, <1>2, <1>3

LEMMA WallSecond ==
  ASSUME NEW n, NEW h, NEW m, NEW s \in Int, NEW ms, s < 59
  PROVE  WallClock!AddSecond(ShownAt(n, h, m, s, ms)) = ShownAt(n, h, m, s + 1, ms)
<1> DEFINE w == ShownAt(n, h, m, s, ms)
<1>1. w.s = s
  BY DEF ShownAt
<1>2. WallClock!AddSecond(w) = [w EXCEPT !.s = s + 1]
  BY SMT, <1>1 DEF WallClock!AddSecond
<1>3. [w EXCEPT !.s = s + 1] = ShownAt(n, h, m, s + 1, ms)
  BY SMT DEF ShownAt
<1> QED
  BY <1>2, <1>3

LEMMA WallSecondCarry ==
  ASSUME NEW n, NEW h, NEW m, NEW s \in Int, NEW ms, ~(s < 59), NEW k, NEW i, NEW j,
         WallClock!AddMinute(ShownAt(n, h, m, s, ms)) = ShownAt(k, i, j, s, ms)
  PROVE  WallClock!AddSecond(ShownAt(n, h, m, s, ms)) = ShownAt(k, i, j, 0, ms)
<1> DEFINE w == ShownAt(n, h, m, s, ms)
<1>1. w.s = s
  BY DEF ShownAt
<1>2. WallClock!AddSecond(w) = [WallClock!AddMinute(w) EXCEPT !.s = 0]
  BY SMT, <1>1 DEF WallClock!AddSecond
<1>3. [ShownAt(k, i, j, s, ms) EXCEPT !.s = 0] = ShownAt(k, i, j, 0, ms)
  BY SMT DEF ShownAt
<1> QED
  BY Zenon, <1>2, <1>3

LEMMA WallMillisecond ==
  ASSUME NEW n, NEW h, NEW m, NEW s, NEW ms \in Int, ms < 999
  PROVE  WallClock!AddMillisecond(ShownAt(n, h, m, s, ms)) = ShownAt(n, h, m, s, ms + 1)
<1> DEFINE w == ShownAt(n, h, m, s, ms)
<1>1. w.ms = ms
  BY DEF ShownAt
<1>2. WallClock!AddMillisecond(w) = [w EXCEPT !.ms = ms + 1]
  BY SMT, <1>1 DEF WallClock!AddMillisecond
<1>3. [w EXCEPT !.ms = ms + 1] = ShownAt(n, h, m, s, ms + 1)
  BY SMT DEF ShownAt
<1> QED
  BY <1>2, <1>3

LEMMA WallMillisecondCarry ==
  ASSUME NEW n, NEW h, NEW m, NEW s, NEW ms \in Int, ~(ms < 999), NEW k, NEW i, NEW j, NEW l,
         WallClock!AddSecond(ShownAt(n, h, m, s, ms)) = ShownAt(k, i, j, l, ms)
  PROVE  WallClock!AddMillisecond(ShownAt(n, h, m, s, ms)) = ShownAt(k, i, j, l, 0)
<1> DEFINE w == ShownAt(n, h, m, s, ms)
<1>1. w.ms = ms
  BY DEF ShownAt
<1>2. WallClock!AddMillisecond(w) = [WallClock!AddSecond(w) EXCEPT !.ms = 0]
  BY SMT, <1>1 DEF WallClock!AddMillisecond
<1>3. [ShownAt(k, i, j, l, ms) EXCEPT !.ms = 0] = ShownAt(k, i, j, l, 0)
  BY SMT DEF ShownAt
<1> QED
  BY Zenon, <1>2, <1>3

----------------------------------------------------------------------------
\* The units of a tick.

LEMMA DayUnit ==
  TicksPerDay("day") = 1 /\ UnitsPerTick("day") = 86400 /\ Second("day") = 1
BY SMT DEF TicksPerDay, UnitsPerTick, Second, Milliseconds

LEMMA HourUnit ==
  TicksPerDay("h") = 24 /\ UnitsPerTick("h") = 3600 /\ Second("h") = 1
BY SMT DEF TicksPerDay, UnitsPerTick, Second, Milliseconds

LEMMA MinuteUnit ==
  TicksPerDay("min") = 1440 /\ UnitsPerTick("min") = 60 /\ Second("min") = 1
BY SMT DEF TicksPerDay, UnitsPerTick, Second, Milliseconds

LEMMA SecondUnit ==
  TicksPerDay("s") = 86400 /\ UnitsPerTick("s") = 1 /\ Second("s") = 1
BY SMT DEF TicksPerDay, UnitsPerTick, Second, Milliseconds

LEMMA MillisecondUnit ==
  TicksPerDay("ms") = 86400000 /\ UnitsPerTick("ms") = 1 /\ Second("ms") = 1000
BY SMT DEF TicksPerDay, UnitsPerTick, Second, Milliseconds

\* A day of any unit has at least one tick.
LEMMA UnitTicks ==
  ASSUME NEW unit \in Units
  PROVE  TicksPerDay(unit) \in Nat \ {0}
BY SMT, DayUnit, HourUnit, MinuteUnit, SecondUnit, MillisecondUnit DEF Units

Thousandths == 0..999

\* A time of a day.
TimeOn(n, h, m, s, ms) ==
  n \in Days /\ h \in 0..23 /\ m \in 0..59 /\ s \in 0..59 /\ ms \in Thousandths

\* The ticks of a day and a time, by the unit.
HourTick(n, h)                == 24 * n + h
MinuteTick(n, h, m)           == 1440 * n + 60 * h + m
SecondTick(n, h, m, s)        == 86400 * n + 3600 * h + 60 * m + s
MillisecondTick(n, h, m, s, ms) ==
  86400000 * n + 3600000 * h + 60000 * m + 1000 * s + ms

\* What the clock shows at a tick.
LEMMA DayShown ==
  ASSUME NEW n \in Days
  PROVE  Floor(n, TicksPerDay("day")) = n /\ Shown("day", n) = ShownAt(n, 0, 0, 0, 0)
<1>1. n \in Int
  BY SMT, DaysBounds
<1>2. Floor(n, TicksPerDay("day")) = n
  BY SMT, <1>1, DayUnit DEF Floor, Cut
<1>3. (n - n * TicksPerDay("day")) * UnitsPerTick("day") = 3600 * 0 + 60 * 0 + 0
  BY SMT, <1>1, DayUnit
<1>4. HhMmSs(3600 * 0 + 60 * 0 + 0, 1) = Tod(0, 0, 0, 0, 1)
  BY SecondsSplit DEF IsTime
<1> QED
  BY <1>2, <1>3, <1>4, DayUnit, ShownIs

LEMMA HourShown ==
  ASSUME NEW n \in Days, NEW h \in 0..23, NEW t \in Int, t = HourTick(n, h)
  PROVE  Floor(t, TicksPerDay("h")) = n /\ Shown("h", t) = ShownAt(n, h, 0, 0, 0)
<1>1. n \in Int /\ h \in Int /\ 0 <= h /\ h <= 23
  BY SMT, DaysBounds
<1>2. Floor(t, 24) = n
  BY SMT, <1>1 DEF Floor, Cut, HourTick
<1>3. (t - n * 24) * 3600 = 3600 * h + 60 * 0 + 0
  BY SMT, <1>1 DEF HourTick
<1>4. HhMmSs(3600 * h + 60 * 0 + 0, 1) = Tod(h, 0, 0, 0, 1)
  <2>1. IsTime(h, 0, 0)
    BY SMT, <1>1 DEF IsTime
  <2> QED
    BY <2>1, SecondsSplit
<1> QED
  BY <1>2, <1>3, <1>4, HourUnit, ShownIs

LEMMA MinuteShown ==
  ASSUME NEW n \in Days, NEW h \in 0..23, NEW m \in 0..59,
         NEW t \in Int, t = MinuteTick(n, h, m)
  PROVE  Floor(t, TicksPerDay("min")) = n /\ Shown("min", t) = ShownAt(n, h, m, 0, 0)
<1>1. /\ n \in Int /\ h \in Int /\ 0 <= h /\ h <= 23
      /\ m \in Int /\ 0 <= m /\ m <= 59
  BY SMT, DaysBounds
<1>2. Floor(t, 1440) = n
  BY SMT, <1>1 DEF Floor, Cut, MinuteTick
<1>3. (t - n * 1440) * 60 = 3600 * h + 60 * m + 0
  BY SMT, <1>1 DEF MinuteTick
<1>4. HhMmSs(3600 * h + 60 * m + 0, 1) = Tod(h, m, 0, 0, 1)
  <2>1. IsTime(h, m, 0)
    BY SMT, <1>1 DEF IsTime
  <2> QED
    BY <2>1, SecondsSplit
<1> QED
  BY <1>2, <1>3, <1>4, MinuteUnit, ShownIs

LEMMA SecondShown ==
  ASSUME NEW n, NEW h, NEW m, NEW s, TimeOn(n, h, m, s, 0),
         NEW t \in Int, t = SecondTick(n, h, m, s)
  PROVE  Floor(t, TicksPerDay("s")) = n /\ Shown("s", t) = ShownAt(n, h, m, s, 0)
<1>1. /\ n \in Int /\ h \in Int /\ 0 <= h /\ h <= 23
      /\ m \in Int /\ 0 <= m /\ m <= 59 /\ s \in Int /\ 0 <= s /\ s <= 59
  BY SMT, DaysBounds DEF TimeOn
<1>2. Floor(t, 86400) = n
  BY SMT, <1>1 DEF Floor, Cut, SecondTick
<1>3. (t - n * 86400) * 1 = 3600 * h + 60 * m + s
  BY SMT, <1>1 DEF SecondTick
<1>4. HhMmSs(3600 * h + 60 * m + s, 1) = Tod(h, m, s, 0, 1)
  <2>1. IsTime(h, m, s)
    BY SMT, <1>1 DEF IsTime
  <2> QED
    BY <2>1, SecondsSplit
<1>5. n \in Days
  BY DEF TimeOn
<1> QED
  BY <1>2, <1>3, <1>4, <1>5, SecondUnit, ShownIs

LEMMA MillisecondShown ==
  ASSUME NEW n, NEW h, NEW m, NEW s, NEW ms, TimeOn(n, h, m, s, ms),
         NEW t \in Int, t = MillisecondTick(n, h, m, s, ms)
  PROVE  Floor(t, TicksPerDay("ms")) = n /\ Shown("ms", t) = ShownAt(n, h, m, s, ms)
<1>1. /\ n \in Int /\ h \in Int /\ 0 <= h /\ h <= 23
      /\ m \in Int /\ 0 <= m /\ m <= 59 /\ s \in Int /\ 0 <= s /\ s <= 59
      /\ ms \in Int /\ 0 <= ms /\ ms <= 999
  BY SMT, DaysBounds DEF TimeOn, Thousandths
<1>2. Floor(t, 86400000) = n
  BY SMT, <1>1 DEF Floor, Cut, MillisecondTick
<1>3. (t - n * 86400000) * 1 = 3600000 * h + 60000 * m + 1000 * s + ms
  BY SMT, <1>1 DEF MillisecondTick
<1>4. HhMmSs(3600000 * h + 60000 * m + 1000 * s + ms, 1000) = Tod(h, m, s, ms, 1000)
  <2>1. IsTime(h, m, s)
    BY SMT, <1>1 DEF IsTime
  <2> QED
    BY SMT, <1>1, <2>1, MillisecondsSplit
<1>5. n \in Days
  BY DEF TimeOn
<1> QED
  BY SMT, <1>2, <1>3, <1>4, <1>5, MillisecondUnit, ShownIs

----------------------------------------------------------------------------
\* A tick falls into its day and the time of it.

LEMMA DayFloor ==
  ASSUME NEW t \in Int, NEW per \in Nat \ {0}, Floor(t, per) \in Days
  PROVE  \E n \in Days :
           n = Floor(t, per) /\ n \in Int /\ n * per <= t /\ t < n * per + per
<1>1. /\ Floor(t, per) \in Int /\ Floor(t, per) * per <= t
      /\ t < Floor(t, per) * per + per
  BY FloorRoundsDown
<1> QED
  BY <1>1

LEMMA DayParted ==
  ASSUME NEW t \in Int, Floor(t, TicksPerDay("day")) \in Days
  PROVE  \E n \in Days : n = Floor(t, TicksPerDay("day")) /\ t = n
<1>1. PICK n \in Days : n = Floor(t, 1) /\ n \in Int /\ n * 1 <= t /\ t < n * 1 + 1
  BY DayUnit, DayFloor
<1>2. t = n
  BY SMT, <1>1
<1> QED
  BY <1>1, <1>2, DayUnit

LEMMA HourParted ==
  ASSUME NEW t \in Int, Floor(t, TicksPerDay("h")) \in Days
  PROVE  \E n \in Days, h \in 0..23 :
           n = Floor(t, TicksPerDay("h")) /\ t = HourTick(n, h)
<1>1. PICK n \in Days : n = Floor(t, 24) /\ n \in Int /\ n * 24 <= t /\ t < n * 24 + 24
  BY HourUnit, DayFloor
<1>2. PICK h \in Int : t = HourTick(n, h) /\ 0 <= h /\ h <= 23
  <2>1. t - 24 * n \in Int
    BY SMT, <1>1
  <2> QED
    BY SMT, <1>1, <2>1 DEF HourTick
<1>3. h \in 0..23
  BY SMT, <1>2
<1> QED
  BY <1>1, <1>2, <1>3, HourUnit

LEMMA MinuteParted ==
  ASSUME NEW t \in Int, Floor(t, TicksPerDay("min")) \in Days
  PROVE  \E n \in Days, h \in 0..23, m \in 0..59 :
           n = Floor(t, TicksPerDay("min")) /\ t = MinuteTick(n, h, m)
<1>1. PICK n \in Days :
        n = Floor(t, 1440) /\ n \in Int /\ n * 1440 <= t /\ t < n * 1440 + 1440
  BY MinuteUnit, DayFloor
<1>2. PICK a \in Int : t = 1440 * n + a /\ 0 <= a /\ a < 1440
  <2>1. t - 1440 * n \in Int
    BY SMT, <1>1
  <2> QED
    BY SMT, <1>1, <2>1
<1>3. PICK h \in 0..23, m \in 0..59 : a = 60 * h + m
  <2>1. a \div 60 \in 0..23 /\ a % 60 \in 0..59 /\ a = 60 * (a \div 60) + (a % 60)
    BY SMT, <1>2
  <2> QED
    BY <2>1
<1>4. t = MinuteTick(n, h, m)
  BY SMT, <1>1, <1>2, <1>3 DEF MinuteTick
<1> QED
  BY <1>1, <1>4, MinuteUnit

LEMMA SecondParted ==
  ASSUME NEW t \in Int, Floor(t, TicksPerDay("s")) \in Days
  PROVE  \E n, h, m, s :
           TimeOn(n, h, m, s, 0) /\ n = Floor(t, TicksPerDay("s")) /\ t = SecondTick(n, h, m, s)
<1>1. PICK n \in Days :
        /\ n = Floor(t, TicksPerDay("s")) /\ n \in Int
        /\ n * 86400 <= t /\ t < n * 86400 + 86400
  <2>1. TicksPerDay("s") \in Nat \ {0}
    BY UnitTicks DEF Units
  <2> QED
    BY SMT, <2>1, SecondUnit, DayFloor
<1>2. PICK a \in Int : t = 86400 * n + a /\ 0 <= a /\ a < 86400
  <2>1. t - 86400 * n \in Int
    BY SMT, <1>1
  <2> QED
    BY SMT, <1>1, <2>1
<1>3. PICK h \in Int, m \in Int, s \in Int :
        IsTime(h, m, s) /\ h <= 23 /\ a = SecondOfDay(h, m, s)
  BY SMT, <1>2, SecondsParts
<1>4. TimeOn(n, h, m, s, 0)
  BY SMT, <1>3 DEF IsTime, TimeOn, Thousandths
<1>5. t = SecondTick(n, h, m, s)
  BY SMT, <1>1, <1>2, <1>3 DEF SecondOfDay, SecondTick
<1>6. n = Floor(t, TicksPerDay("s"))
  BY SMT, <1>1
<1> QED
  BY <1>4, <1>5, <1>6

LEMMA MillisecondParted ==
  ASSUME NEW t \in Int, Floor(t, TicksPerDay("ms")) \in Days
  PROVE  \E n, h, m, s, ms :
           /\ TimeOn(n, h, m, s, ms)
           /\ n = Floor(t, TicksPerDay("ms")) /\ t = MillisecondTick(n, h, m, s, ms)
<1>1. PICK n \in Days :
        /\ n = Floor(t, TicksPerDay("ms")) /\ n \in Int
        /\ n * 86400000 <= t /\ t < n * 86400000 + 86400000
  <2>1. TicksPerDay("ms") \in Nat \ {0}
    BY UnitTicks DEF Units
  <2> QED
    BY SMT, <2>1, MillisecondUnit, DayFloor
<1>2. PICK a \in Int : t = 86400000 * n + a /\ 0 <= a /\ a < 86400000
  <2>1. t - 86400000 * n \in Int
    BY SMT, <1>1
  <2> QED
    BY SMT, <1>1, <2>1
<1>3. PICK b \in Int, ms \in Int : a = 1000 * b + ms /\ 0 <= ms /\ ms <= 999
  <2>1. /\ a = 1000 * (a \div 1000) + (a % 1000) /\ a \div 1000 \in Int
        /\ a % 1000 \in Int /\ 0 <= a % 1000 /\ a % 1000 <= 999
    BY SMT, <1>2
  <2> QED
    BY SMT, <2>1
<1>4. 0 <= b /\ b < 86400
  BY SMT, <1>2, <1>3
<1>5. PICK h \in Int, m \in Int, s \in Int :
        IsTime(h, m, s) /\ h <= 23 /\ b = SecondOfDay(h, m, s)
  BY SMT, <1>4, SecondsParts
<1>6. TimeOn(n, h, m, s, ms)
  BY SMT, <1>3, <1>5 DEF IsTime, TimeOn, Thousandths
<1>7. t = MillisecondTick(n, h, m, s, ms)
  BY SMT, <1>1, <1>2, <1>3, <1>5 DEF SecondOfDay, MillisecondTick
<1>8. n = Floor(t, TicksPerDay("ms"))
  BY SMT, <1>1
<1> QED
  BY Zenon, <1>6, <1>7, <1>8

----------------------------------------------------------------------------
\* One tick later the clock shows what the clock on the wall shows.

LEMMA DayGoesOn ==
  ASSUME NEW t \in Int, Floor(t, TicksPerDay("day")) \in Days,
         Floor(t + 1, TicksPerDay("day")) \in Days
  PROVE  Shown("day", t + 1) = WallClock!NextDate(Shown("day", t))
<1>1. PICK n \in Days, k \in Days, u \in Int : t = n /\ u = t + 1 /\ u = k
  <2>1. t + 1 \in Int
    BY SMT
  <2> QED
    BY <2>1, DayParted
<1>2. k = n + 1
  BY <1>1
<1>3. Shown("day", n) = ShownAt(n, 0, 0, 0, 0) /\ Shown("day", k) = ShownAt(k, 0, 0, 0, 0)
  BY DayShown
<1>4. WallClock!NextDate(ShownAt(n, 0, 0, 0, 0)) = ShownAt(k, 0, 0, 0, 0)
  BY <1>2, NextDateIs
<1> QED
  BY Zenon, <1>1, <1>3, <1>4

LEMMA HourGoesOn ==
  ASSUME NEW t \in Int, Floor(t, TicksPerDay("h")) \in Days,
         Floor(t + 1, TicksPerDay("h")) \in Days
  PROVE  Shown("h", t + 1) = WallClock!AddHour(Shown("h", t))
<1>1. PICK n \in Days, h \in 0..23 : t = HourTick(n, h)
  BY HourParted
<1>2. /\ n \in Days /\ n \in Int
      /\ h \in Int /\ 0 <= h /\ h <= 23
  BY SMT, DaysBounds
<1>3. PICK u \in Int : u = t + 1
  BY SMT
<1> DEFINE w == ShownAt(n, h, 0, 0, 0)
<1>4. Shown("h", t) = w
  BY <1>1, HourShown
<1>5. CASE h < 23
  <2>1. u = HourTick(n, h + 1) /\ h + 1 \in 0..23
    BY SMT, <1>1, <1>2, <1>3, <1>5 DEF HourTick
  <2>2. Shown("h", u) = ShownAt(n, h + 1, 0, 0, 0)
    BY <2>1, HourShown
  <2>3. WallClock!AddHour(w) = ShownAt(n, h + 1, 0, 0, 0)
    BY SMT, <1>2, <1>5, WallHour
  <2> QED
    BY Zenon, <1>3, <1>4, <2>2, <2>3
<1>6. CASE ~(h < 23)
  <2>0. PICK k \in Days : k = n + 1
    <3>1. PICK k \in Days : k \in Int /\ k * 24 <= u /\ u < k * 24 + 24
      <4>1. TicksPerDay("h") \in Nat \ {0}
        BY UnitTicks DEF Units
      <4>2. Floor(u, TicksPerDay("h")) \in Days
        BY <1>3
      <4> QED
        BY SMT, <4>1, <4>2, HourUnit, DayFloor
    <3>2. u = 24 * n + 24
      BY SMT, <1>1, <1>2, <1>3, <1>6 DEF HourTick
    <3>3. k = n + 1
      BY SMT, <1>2, <3>1, <3>2
    <3> QED
      BY <3>3
  <2>1. u = HourTick(k, 0) /\ 0 \in 0..23 /\ 0 \in 0..59
    BY SMT, <1>1, <1>2, <1>3, <1>6, <2>0 DEF HourTick
  <2>2. Shown("h", u) = ShownAt(k, 0, 0, 0, 0)
    BY <2>1, HourShown
  <2>3. WallClock!AddHour(w) = ShownAt(k, 0, 0, 0, 0)
    BY SMT, <1>2, <1>6, <2>0, WallHourCarry
  <2> QED
    BY Zenon, <1>3, <1>4, <2>2, <2>3
<1> QED
  BY <1>5, <1>6

LEMMA MinuteGoesOn ==
  ASSUME NEW t \in Int, Floor(t, TicksPerDay("min")) \in Days,
         Floor(t + 1, TicksPerDay("min")) \in Days
  PROVE  Shown("min", t + 1) = WallClock!AddMinute(Shown("min", t))
<1>1. PICK n \in Days, h \in 0..23, m \in 0..59 : t = MinuteTick(n, h, m)
  BY MinuteParted
<1>2. /\ n \in Days /\ n \in Int
      /\ h \in Int /\ 0 <= h /\ h <= 23
      /\ m \in Int /\ 0 <= m /\ m <= 59
  BY SMT, DaysBounds
<1>3. PICK u \in Int : u = t + 1
  BY SMT
<1> DEFINE w == ShownAt(n, h, m, 0, 0)
<1>4. Shown("min", t) = w
  BY <1>1, MinuteShown
<1>5. CASE m < 59
  <2>1. u = MinuteTick(n, h, m + 1) /\ m + 1 \in 0..59
    BY SMT, <1>1, <1>2, <1>3, <1>5 DEF MinuteTick
  <2>2. Shown("min", u) = ShownAt(n, h, m + 1, 0, 0)
    BY <2>1, MinuteShown
  <2>3. WallClock!AddMinute(w) = ShownAt(n, h, m + 1, 0, 0)
    BY SMT, <1>2, <1>5, WallMinute
  <2> QED
    BY Zenon, <1>3, <1>4, <2>2, <2>3
<1>6. CASE ~(m < 59) /\ h < 23
  <2>1. u = MinuteTick(n, h + 1, 0) /\ h + 1 \in 0..23 /\ 0 \in 0..59
    BY SMT, <1>1, <1>2, <1>3, <1>6 DEF MinuteTick
  <2>2. Shown("min", u) = ShownAt(n, h + 1, 0, 0, 0)
    BY <2>1, MinuteShown
  <2>3. WallClock!AddHour(w) = ShownAt(n, h + 1, m, 0, 0)
    BY SMT, <1>2, <1>6, WallHour
  <2>4. WallClock!AddMinute(w) = ShownAt(n, h + 1, 0, 0, 0)
    BY <1>2, <1>6, <2>3, WallMinuteCarry
  <2> QED
    BY Zenon, <1>3, <1>4, <2>2, <2>4
<1>7. CASE ~(h < 23) /\ ~(m < 59)
  <2>0. PICK k \in Days : k = n + 1
    <3>1. PICK k \in Days : k \in Int /\ k * 1440 <= u /\ u < k * 1440 + 1440
      <4>1. TicksPerDay("min") \in Nat \ {0}
        BY UnitTicks DEF Units
      <4>2. Floor(u, TicksPerDay("min")) \in Days
        BY <1>3
      <4> QED
        BY SMT, <4>1, <4>2, MinuteUnit, DayFloor
    <3>2. u = 1440 * n + 1440
      BY SMT, <1>1, <1>2, <1>3, <1>7 DEF MinuteTick
    <3>3. k = n + 1
      BY SMT, <1>2, <3>1, <3>2
    <3> QED
      BY <3>3
  <2>1. u = MinuteTick(k, 0, 0) /\ 0 \in 0..23 /\ 0 \in 0..59
    BY SMT, <1>1, <1>2, <1>3, <1>7, <2>0 DEF MinuteTick
  <2>2. Shown("min", u) = ShownAt(k, 0, 0, 0, 0)
    BY <2>1, MinuteShown
  <2>3. WallClock!AddHour(w) = ShownAt(k, 0, m, 0, 0)
    BY SMT, <1>2, <1>7, <2>0, WallHourCarry
  <2>4. WallClock!AddMinute(w) = ShownAt(k, 0, 0, 0, 0)
    BY <1>2, <1>7, <2>3, WallMinuteCarry
  <2> QED
    BY Zenon, <1>3, <1>4, <2>2, <2>4
<1> QED
  BY <1>5, <1>6, <1>7

LEMMA SecondGoesOn ==
  ASSUME NEW t \in Int, Floor(t, TicksPerDay("s")) \in Days,
         Floor(t + 1, TicksPerDay("s")) \in Days
  PROVE  Shown("s", t + 1) = WallClock!AddSecond(Shown("s", t))
<1>1. PICK n, h, m, s :
        TimeOn(n, h, m, s, 0) /\ t = SecondTick(n, h, m, s)
  BY SecondParted
<1>2. /\ n \in Days /\ n \in Int
      /\ h \in Int /\ 0 <= h /\ h <= 23
      /\ m \in Int /\ 0 <= m /\ m <= 59
      /\ s \in Int /\ 0 <= s /\ s <= 59
  BY SMT, <1>1, DaysBounds DEF TimeOn
<1>3. PICK u \in Int : u = t + 1
  BY SMT
<1> DEFINE w == ShownAt(n, h, m, s, 0)
<1>4. Shown("s", t) = w
  BY <1>1, SecondShown
<1>5. CASE s < 59
  <2>1. u = SecondTick(n, h, m, s + 1) /\ TimeOn(n, h, m, s + 1, 0)
    BY SMT, <1>1, <1>2, <1>3, <1>5 DEF TimeOn, Thousandths, SecondTick
  <2>2. Shown("s", u) = ShownAt(n, h, m, s + 1, 0)
    BY <2>1, SecondShown
  <2>3. WallClock!AddSecond(w) = ShownAt(n, h, m, s + 1, 0)
    BY SMT, <1>2, <1>5, WallSecond
  <2> QED
    BY Zenon, <1>3, <1>4, <2>2, <2>3
<1>6. CASE ~(s < 59) /\ m < 59
  <2>1. u = SecondTick(n, h, m + 1, 0) /\ TimeOn(n, h, m + 1, 0, 0)
    BY SMT, <1>1, <1>2, <1>3, <1>6 DEF TimeOn, Thousandths, SecondTick
  <2>2. Shown("s", u) = ShownAt(n, h, m + 1, 0, 0)
    BY <2>1, SecondShown
  <2>3. WallClock!AddMinute(w) = ShownAt(n, h, m + 1, s, 0)
    BY SMT, <1>2, <1>6, WallMinute
  <2>4. WallClock!AddSecond(w) = ShownAt(n, h, m + 1, 0, 0)
    BY <1>2, <1>6, <2>3, WallSecondCarry
  <2> QED
    BY Zenon, <1>3, <1>4, <2>2, <2>4
<1>7. CASE ~(m < 59) /\ ~(s < 59) /\ h < 23
  <2>1. u = SecondTick(n, h + 1, 0, 0) /\ TimeOn(n, h + 1, 0, 0, 0)
    BY SMT, <1>1, <1>2, <1>3, <1>7 DEF TimeOn, Thousandths, SecondTick
  <2>2. Shown("s", u) = ShownAt(n, h + 1, 0, 0, 0)
    BY <2>1, SecondShown
  <2>3. WallClock!AddHour(w) = ShownAt(n, h + 1, m, s, 0)
    BY SMT, <1>2, <1>7, WallHour
  <2>4. WallClock!AddMinute(w) = ShownAt(n, h + 1, 0, s, 0)
    BY <1>2, <1>7, <2>3, WallMinuteCarry
  <2>5. WallClock!AddSecond(w) = ShownAt(n, h + 1, 0, 0, 0)
    BY <1>2, <1>7, <2>4, WallSecondCarry
  <2> QED
    BY Zenon, <1>3, <1>4, <2>2, <2>5
<1>8. CASE ~(h < 23) /\ ~(m < 59) /\ ~(s < 59)
  <2>0. PICK k \in Days : k = n + 1
    <3>1. PICK k \in Days : k \in Int /\ k * 86400 <= u /\ u < k * 86400 + 86400
      <4>1. TicksPerDay("s") \in Nat \ {0}
        BY UnitTicks DEF Units
      <4>2. Floor(u, TicksPerDay("s")) \in Days
        BY <1>3
      <4> QED
        BY SMT, <4>1, <4>2, SecondUnit, DayFloor
    <3>2. u = 86400 * n + 86400
      BY SMT, <1>1, <1>2, <1>3, <1>8 DEF SecondTick
    <3>3. k = n + 1
      BY SMT, <1>2, <3>1, <3>2
    <3> QED
      BY <3>3
  <2>1. u = SecondTick(k, 0, 0, 0) /\ TimeOn(k, 0, 0, 0, 0)
    BY SMT, <1>1, <1>2, <1>3, <1>8, <2>0 DEF TimeOn, Thousandths, SecondTick
  <2>2. Shown("s", u) = ShownAt(k, 0, 0, 0, 0)
    BY <2>1, SecondShown
  <2>3. WallClock!AddHour(w) = ShownAt(k, 0, m, s, 0)
    BY SMT, <1>2, <1>8, <2>0, WallHourCarry
  <2>4. WallClock!AddMinute(w) = ShownAt(k, 0, 0, s, 0)
    BY <1>2, <1>8, <2>3, WallMinuteCarry
  <2>5. WallClock!AddSecond(w) = ShownAt(k, 0, 0, 0, 0)
    BY <1>2, <1>8, <2>4, WallSecondCarry
  <2> QED
    BY Zenon, <1>3, <1>4, <2>2, <2>5
<1> QED
  BY <1>5, <1>6, <1>7, <1>8

LEMMA MillisecondGoesOn ==
  ASSUME NEW t \in Int, Floor(t, TicksPerDay("ms")) \in Days,
         Floor(t + 1, TicksPerDay("ms")) \in Days
  PROVE  Shown("ms", t + 1) = WallClock!AddMillisecond(Shown("ms", t))
<1>1. PICK n, h, m, s, ms :
        TimeOn(n, h, m, s, ms) /\ t = MillisecondTick(n, h, m, s, ms)
  BY MillisecondParted
<1>2. /\ n \in Days /\ n \in Int
      /\ h \in Int /\ 0 <= h /\ h <= 23
      /\ m \in Int /\ 0 <= m /\ m <= 59
      /\ s \in Int /\ 0 <= s /\ s <= 59
      /\ ms \in Int /\ 0 <= ms /\ ms <= 999
  BY SMT, <1>1, DaysBounds DEF TimeOn, Thousandths
<1>3. PICK u \in Int : u = t + 1
  BY SMT
<1> DEFINE w == ShownAt(n, h, m, s, ms)
<1>4. Shown("ms", t) = w
  BY <1>1, MillisecondShown
<1>5. CASE ms < 999
  <2>1. u = MillisecondTick(n, h, m, s, ms + 1) /\ TimeOn(n, h, m, s, ms + 1)
    BY SMT, <1>1, <1>2, <1>3, <1>5 DEF TimeOn, Thousandths, MillisecondTick
  <2>2. Shown("ms", u) = ShownAt(n, h, m, s, ms + 1)
    BY <2>1, MillisecondShown
  <2>3. WallClock!AddMillisecond(w) = ShownAt(n, h, m, s, ms + 1)
    BY SMT, <1>2, <1>5, WallMillisecond
  <2> QED
    BY Zenon, <1>3, <1>4, <2>2, <2>3
<1>6. CASE ~(ms < 999) /\ s < 59
  <2>1. u = MillisecondTick(n, h, m, s + 1, 0) /\ TimeOn(n, h, m, s + 1, 0)
    BY SMT, <1>1, <1>2, <1>3, <1>6 DEF TimeOn, Thousandths, MillisecondTick
  <2>2. Shown("ms", u) = ShownAt(n, h, m, s + 1, 0)
    BY <2>1, MillisecondShown
  <2>3. WallClock!AddSecond(w) = ShownAt(n, h, m, s + 1, ms)
    BY SMT, <1>2, <1>6, WallSecond
  <2>4. WallClock!AddMillisecond(w) = ShownAt(n, h, m, s + 1, 0)
    BY <1>2, <1>6, <2>3, WallMillisecondCarry
  <2> QED
    BY Zenon, <1>3, <1>4, <2>2, <2>4
<1>7. CASE ~(s < 59) /\ ~(ms < 999) /\ m < 59
  <2>1. u = MillisecondTick(n, h, m + 1, 0, 0) /\ TimeOn(n, h, m + 1, 0, 0)
    BY SMT, <1>1, <1>2, <1>3, <1>7 DEF TimeOn, Thousandths, MillisecondTick
  <2>2. Shown("ms", u) = ShownAt(n, h, m + 1, 0, 0)
    BY <2>1, MillisecondShown
  <2>3. WallClock!AddMinute(w) = ShownAt(n, h, m + 1, s, ms)
    BY SMT, <1>2, <1>7, WallMinute
  <2>4. WallClock!AddSecond(w) = ShownAt(n, h, m + 1, 0, ms)
    BY <1>2, <1>7, <2>3, WallSecondCarry
  <2>5. WallClock!AddMillisecond(w) = ShownAt(n, h, m + 1, 0, 0)
    BY <1>2, <1>7, <2>4, WallMillisecondCarry
  <2> QED
    BY Zenon, <1>3, <1>4, <2>2, <2>5
<1>8. CASE ~(m < 59) /\ ~(s < 59) /\ ~(ms < 999) /\ h < 23
  <2>1. u = MillisecondTick(n, h + 1, 0, 0, 0) /\ TimeOn(n, h + 1, 0, 0, 0)
    BY SMT, <1>1, <1>2, <1>3, <1>8 DEF TimeOn, Thousandths, MillisecondTick
  <2>2. Shown("ms", u) = ShownAt(n, h + 1, 0, 0, 0)
    BY <2>1, MillisecondShown
  <2>3. WallClock!AddHour(w) = ShownAt(n, h + 1, m, s, ms)
    BY SMT, <1>2, <1>8, WallHour
  <2>4. WallClock!AddMinute(w) = ShownAt(n, h + 1, 0, s, ms)
    BY <1>2, <1>8, <2>3, WallMinuteCarry
  <2>5. WallClock!AddSecond(w) = ShownAt(n, h + 1, 0, 0, ms)
    BY <1>2, <1>8, <2>4, WallSecondCarry
  <2>6. WallClock!AddMillisecond(w) = ShownAt(n, h + 1, 0, 0, 0)
    BY <1>2, <1>8, <2>5, WallMillisecondCarry
  <2> QED
    BY Zenon, <1>3, <1>4, <2>2, <2>6
<1>9. CASE ~(h < 23) /\ ~(m < 59) /\ ~(s < 59) /\ ~(ms < 999)
  <2>0. PICK k \in Days : k = n + 1
    <3>1. PICK k \in Days : k \in Int /\ k * 86400000 <= u /\ u < k * 86400000 + 86400000
      <4>1. TicksPerDay("ms") \in Nat \ {0}
        BY UnitTicks DEF Units
      <4>2. Floor(u, TicksPerDay("ms")) \in Days
        BY <1>3
      <4> QED
        BY SMT, <4>1, <4>2, MillisecondUnit, DayFloor
    <3>2. u = 86400000 * n + 86400000
      BY SMT, <1>1, <1>2, <1>3, <1>9 DEF MillisecondTick
    <3>3. k = n + 1
      BY SMT, <1>2, <3>1, <3>2
    <3> QED
      BY <3>3
  <2>1. u = MillisecondTick(k, 0, 0, 0, 0) /\ TimeOn(k, 0, 0, 0, 0)
    BY SMT, <1>1, <1>2, <1>3, <1>9, <2>0 DEF TimeOn, Thousandths, MillisecondTick
  <2>2. Shown("ms", u) = ShownAt(k, 0, 0, 0, 0)
    BY <2>1, MillisecondShown
  <2>3. WallClock!AddHour(w) = ShownAt(k, 0, m, s, ms)
    BY SMT, <1>2, <1>9, <2>0, WallHourCarry
  <2>4. WallClock!AddMinute(w) = ShownAt(k, 0, 0, s, ms)
    BY <1>2, <1>9, <2>3, WallMinuteCarry
  <2>5. WallClock!AddSecond(w) = ShownAt(k, 0, 0, 0, ms)
    BY <1>2, <1>9, <2>4, WallSecondCarry
  <2>6. WallClock!AddMillisecond(w) = ShownAt(k, 0, 0, 0, 0)
    BY <1>2, <1>9, <2>5, WallMillisecondCarry
  <2> QED
    BY Zenon, <1>3, <1>4, <2>2, <2>6
<1> QED
  BY <1>5, <1>6, <1>7, <1>8, <1>9

----------------------------------------------------------------------------
\* The clock is the calendar on the wall.

\* A later tick is not on an earlier day.
LEMMA FloorsInOrder ==
  ASSUME NEW unit \in Units, NEW i \in Int, NEW j \in Int, i <= j
  PROVE  /\ Floor(i, TicksPerDay(unit)) \in Int /\ Floor(j, TicksPerDay(unit)) \in Int
         /\ Floor(i, TicksPerDay(unit)) <= Floor(j, TicksPerDay(unit))
<1> DEFINE per == TicksPerDay(unit)
<1>1. per \in Nat \ {0}
  BY UnitTicks
<1>2. PICK a \in Int, b \in Int :
        /\ a = Floor(i, per) /\ a * per <= i /\ i < a * per + per
        /\ b = Floor(j, per) /\ b * per <= j /\ j < b * per + per
  BY <1>1, FloorRoundsDown
<1>3. per = 1 \/ per = 24 \/ per = 1440 \/ per = 86400 \/ per = 86400000
  BY SMT, DayUnit, HourUnit, MinuteUnit, SecondUnit, MillisecondUnit DEF Units
<1>4. a <= b
  <2> HIDE DEF per
  <2>1. CASE per = 1
    BY SMT, <1>2, <2>1
  <2>2. CASE per = 24
    BY SMT, <1>2, <2>2
  <2>3. CASE per = 1440
    BY SMT, <1>2, <2>3
  <2>4. CASE per = 86400
    BY SMT, <1>2, <2>4
  <2>5. CASE per = 86400000
    BY SMT, <1>2, <2>5
  <2> QED
    BY SMT, <1>3, <2>1, <2>2, <2>3, <2>4, <2>5
<1> QED
  BY SMT, <1>2, <1>4

\* The state of the clock, whatever is written or read meanwhile.
ClockInv ==
  /\ start \in Starts
  /\ tp \in Int /\ start.tp <= tp /\ tp <= start.tp + start.ticks
  /\ shown = Shown(start.unit, tp)

\* It holds at the start.
LEMMA ClockStarts == Init => ClockInv
<1> SUFFICES ASSUME Init
             PROVE  ClockInv
  OBVIOUS
<1>1. start.tp \in Int /\ start.ticks \in Nat
  BY StartsAssumption DEF Init
<1>2. tp = start.tp
  BY DEF Init
<1>3. start.tp <= tp /\ tp <= start.tp + start.ticks
  BY SMT, <1>1, <1>2
<1> QED
  BY <1>1, <1>2, <1>3 DEF Init, ClockInv

\* Every step keeps it: a turn goes on only before the last tick.
LEMMA ClockGoesOn == ClockInv /\ [Next]_vars => ClockInv'
<1> SUFFICES ASSUME ClockInv, [Next]_vars
             PROVE  ClockInv'
  OBVIOUS
<1>1. CASE Turn
  <2>1. /\ start' = start /\ tp' = tp + 1 /\ shown' = Shown(start.unit, tp + 1)
        /\ tp < start.tp + (IF written = <<>> THEN start.ticks ELSE WriteTicks)
    BY <1>1 DEF Turn
  <2>2. /\ start \in Starts /\ start.tp \in Int /\ start.ticks \in Nat
        /\ WriteTicks \in Nat /\ WriteTicks <= start.ticks
    BY StartsAssumption, BoundsAssumption DEF ClockInv
  <2>3. tp \in Int /\ start.tp <= tp
    BY DEF ClockInv
  <2>4. tp + 1 \in Int /\ start.tp <= tp + 1 /\ tp + 1 <= start.tp + start.ticks
    BY SMT, <2>1, <2>2, <2>3
  <2> QED
    BY <2>1, <2>2, <2>4 DEF ClockInv
<1>2. CASE UNCHANGED <<start, tp, shown>>
  BY <1>2 DEF ClockInv
<1>3. CASE UNCHANGED vars
  BY <1>2, <1>3 DEF vars
<1>4. ASSUME NEW piece \in Pieces, Write(piece)
      PROVE  ClockInv'
  BY <1>2, <1>4 DEF Write
<1>5. CASE Read
  BY <1>2, <1>5 DEF Read
<1> QED
  BY <1>1, <1>3, <1>4, <1>5 DEF Next

\* The clock runs within the days whose year fits a short.
LEMMA ClockInRange ==
  ASSUME NEW s \in Starts, NEW t \in Int, s.tp <= t, t <= s.tp + s.ticks
  PROVE  s.unit \in Units /\ Floor(t, TicksPerDay(s.unit)) \in Days
<1>1. s.unit \in Units /\ s.tp \in Int /\ s.ticks \in Nat
  BY StartsAssumption
<1> DEFINE per == TicksPerDay(s.unit)
<1>2. Floor(s.tp, per) \in Days /\ Floor(s.tp + s.ticks, per) \in Days
  BY RangeAssumption
<1>3. s.tp + s.ticks \in Int
  BY SMT, <1>1
<1>4. /\ Floor(s.tp, per) <= Floor(t, per) /\ Floor(t, per) \in Int
      /\ Floor(t, per) <= Floor(s.tp + s.ticks, per)
  BY <1>1, <1>3, FloorsInOrder
<1> HIDE DEF per
<1>5. Floor(t, per) \in Days
  BY SMT, <1>2, <1>4, DaysAre
<1> QED
  BY <1>1, <1>5 DEF per

\* The clock that is shown moves like the clock on the wall.
LEMMA TurnOnTheWall ==
  ASSUME ClockInv, ClockInv', Turn
  PROVE  WallClock!Next
<1>1. /\ start \in Starts /\ start' = start /\ shown = Shown(start.unit, tp)
      /\ shown' = Shown(start.unit, tp + 1) /\ tp' = tp + 1
  BY DEF Turn, ClockInv
<1>2. tp \in Int /\ start.unit \in Units /\ Floor(tp, TicksPerDay(start.unit)) \in Days
  BY ClockInRange DEF ClockInv
<1>3. Floor(tp + 1, TicksPerDay(start.unit)) \in Days
  <2>1. tp + 1 \in Int /\ start.tp <= tp + 1 /\ tp + 1 <= start.tp + start.ticks
    BY <1>1 DEF ClockInv
  <2> QED
    BY <1>1, <2>1, ClockInRange
<1> DEFINE u == start.unit
<1>4. u' = u
  BY <1>1
<1>5. CASE u = "day"
  <2>1. shown' = WallClock!NextDate(shown)
    BY <1>1, <1>2, <1>3, <1>5, DayGoesOn
  <2> QED
    BY <1>4, <1>5, <2>1 DEF WallClock!Next
<1>6. CASE u = "h"
  <2>1. shown' = WallClock!AddHour(shown)
    BY <1>1, <1>2, <1>3, <1>6, HourGoesOn
  <2> QED
    BY <1>4, <1>6, <2>1 DEF WallClock!Next
<1>7. CASE u = "min"
  <2>1. shown' = WallClock!AddMinute(shown)
    BY <1>1, <1>2, <1>3, <1>7, MinuteGoesOn
  <2> QED
    BY <1>4, <1>7, <2>1 DEF WallClock!Next
<1>8. CASE u = "s"
  <2>1. shown' = WallClock!AddSecond(shown)
    BY <1>1, <1>2, <1>3, <1>8, SecondGoesOn
  <2> QED
    BY <1>4, <1>8, <2>1 DEF WallClock!Next
<1>9. CASE u = "ms"
  <2>1. shown' = WallClock!AddMillisecond(shown)
    BY <1>1, <1>2, <1>3, <1>9, MillisecondGoesOn
  <2> QED
    BY <1>4, <1>9, <2>1 DEF WallClock!Next
<1> QED
  BY <1>2, <1>5, <1>6, <1>7, <1>8, <1>9 DEF Units

\* So it holds always.
LEMMA Inductive == Spec => []ClockInv
BY ClockStarts, ClockGoesOn, PTL DEF Spec

\* What from_days(), weekday_from_days(), the week numbers and hh_mm_ss make
\* of the number of ticks moves on with each tick like the calendar on the wall.
THEOREM OnTheWall == Spec => IsWallClock
<1>1. Init => WallClock!Init
  <2> SUFFICES ASSUME Init
               PROVE  WallClock!Init
    OBVIOUS
  <2>1. start.unit \in Units
    BY StartsAssumption DEF Init
  <2> QED
    BY <2>1 DEF Units, WallClock!Init
<1>2. ClockInv /\ ClockInv' /\ [Next]_vars => [WallClock!Next]_<<start.unit, shown>>
  <2> SUFFICES ASSUME ClockInv, ClockInv', [Next]_vars, ~Turn
               PROVE  UNCHANGED <<start.unit, shown>>
    BY TurnOnTheWall
  <2>1. UNCHANGED <<start, shown>>
    BY DEF Next, Write, Read, vars
  <2> QED
    BY <2>1
<1> QED
  BY <1>1, <1>2, Inductive, PTL DEF Spec, IsWallClock, WallClock!Spec

----------------------------------------------------------------------------
\* Type correctness.

\* Every tick is a time of its day.
LEMMA ShownParts ==
  ASSUME NEW unit \in Units, NEW t \in Int, Floor(t, TicksPerDay(unit)) \in Days
  PROVE  \E h, m, s, ms :
           /\ TimeOn(Floor(t, TicksPerDay(unit)), h, m, s, ms)
           /\ Shown(unit, t) = ShownAt(Floor(t, TicksPerDay(unit)), h, m, s, ms)
<1> DEFINE n == Floor(t, TicksPerDay(unit))
           Found(h, m, s, ms) ==
             TimeOn(n, h, m, s, ms) /\ Shown(unit, t) = ShownAt(n, h, m, s, ms)
<1>0. 0 \in 0..23 /\ 0 \in 0..59 /\ 0 \in Thousandths
  BY SMT DEF Thousandths
<1> SUFFICES \E h, m, s, ms : Found(h, m, s, ms)
  OBVIOUS
<1>1. CASE unit = "day"
  <2>1. Shown("day", t) = ShownAt(n, 0, 0, 0, 0)
    BY <1>1, DayParted, DayShown
  <2>2. Found(0, 0, 0, 0)
    BY <1>0, <1>1, <2>1 DEF TimeOn
  <2> QED
    BY <2>2
<1>2. CASE unit = "h"
  <2>1. PICK h \in 0..23 : Shown("h", t) = ShownAt(n, h, 0, 0, 0)
    BY <1>2, HourParted, HourShown
  <2>2. Found(h, 0, 0, 0)
    BY <1>0, <1>2, <2>1 DEF TimeOn
  <2> QED
    BY <2>2
<1>3. CASE unit = "min"
  <2>0. PICK h \in 0..23, m \in 0..59 : t = MinuteTick(n, h, m)
    BY <1>3, MinuteParted
  <2>1. Shown("min", t) = ShownAt(n, h, m, 0, 0)
    BY <1>3, <2>0, MinuteShown
  <2>2. Found(h, m, 0, 0)
    BY <1>0, <1>3, <2>1 DEF TimeOn
  <2> QED
    BY <2>2
<1>4. CASE unit = "s"
  <2>1. PICK h, m, s : TimeOn(n, h, m, s, 0) /\ Shown("s", t) = ShownAt(n, h, m, s, 0)
    BY <1>4, SecondParted, SecondShown
  <2>2. Found(h, m, s, 0)
    BY <1>4, <2>1
  <2> QED
    BY <2>2
<1>5. CASE unit = "ms"
  <2>1. PICK h, m, s, ms :
          TimeOn(n, h, m, s, ms) /\ Shown("ms", t) = ShownAt(n, h, m, s, ms)
    BY <1>5, MillisecondParted, MillisecondShown
  <2>2. Found(h, m, s, ms)
    BY <1>5, <2>1
  <2> QED
    BY <2>2
<1> QED
  BY <1>1, <1>2, <1>3, <1>4, <1>5 DEF Units

ShownOK(w) ==
  /\ YmdOk(w) /\ WeekdayOk(w.wd) /\ (w.y > MinYear => w.isoWeek \in 1..53)
  /\ w.yday \in 1..366 /\ w.sundays \in 0..53 /\ w.mondays \in 0..53
  /\ w.h \in 0..23 /\ {w.min, w.s} \subseteq 0..59 /\ w.ms \in Thousandths

\* A display is within its ranges.
LEMMA ShownInRange ==
  ASSUME NEW n \in Days, NEW h, NEW m, NEW s, NEW ms, TimeOn(n, h, m, s, ms)
  PROVE  ShownOK(ShownAt(n, h, m, s, ms))
<1> DEFINE x == FromDays(n)
           w == ShownAt(n, h, m, s, ms)
<1>1. GoodDate(x) /\ YmdOk(x) /\ ToDays(x) = n /\ n \in Int
  BY DayHasGoodDate, DaysBounds
<1>2. /\ w.y = x.y /\ w.m = x.m /\ w.d = x.d /\ w.wd = WeekdayFromDays(n)
      /\ w.yday = n - NewYear(x.y) + 1
      /\ w.sundays = WeekNumber(x, Sunday) /\ w.mondays = WeekNumber(x, Monday)
      /\ w.isoWeek = IsoWeek(n)
      /\ w.h = h /\ w.min = m /\ w.s = s /\ w.ms = ms
  BY DEF ShownAt
<1> HIDE DEF w, x
<1>3. YmdOk(w)
  BY <1>1, <1>2 DEF YmdOk
<1>4. WeekdayOk(w.wd)
  BY <1>1, <1>2, WeekdaysGoOn
<1>5. w.yday \in 1..366
  <2> DEFINE f == [ymd |-> x]
  <2>1. f.ymd = x
    OBVIOUS
  <2> HIDE DEF f
  <2>2. ToDays(x) - NewYear(x.y) + 1 \in 1..366
    BY <1>1, <2>1, DayOfYearIs
  <2> QED
    BY <1>1, <1>2, <2>2
<1>6. w.sundays \in 0..53 /\ w.mondays \in 0..53
  <2>1. Sunday \in 0..6 /\ Monday \in 0..6
    BY SMT DEF Sunday, Monday
  <2> QED
    BY <1>1, <1>2, <2>1, WeekBounds
<1>7. ASSUME w.y > MinYear
      PROVE  w.isoWeek \in 1..53
  <2>1. x.y \in Int /\ MinYear \in Int /\ MinYear + 1 <= x.y
    BY SMT, <1>1, <1>2, <1>7, YearNumbers DEF GoodDate
  <2>2. NewYear(x.y) <= n
    BY <1>1, GoodDateHasDay
  <2>3. NewYear(x.y) >= NewYear(MinYear) + 365 * (x.y - MinYear)
    BY SMT, <2>1, YearsAreLong
  <2>4. n >= IsoMonday(MinYear)
    <3>1. NewYear(x.y) \in Int
      BY <2>1, NewYearDay
    <3> QED
      BY SMT, <1>1, <2>1, <2>2, <2>3, <3>1, EndsOfRange
  <2> QED
    BY <1>2, <2>4, IsoWeekFound
<1>8. w.h \in 0..23 /\ {w.min, w.s} \subseteq 0..59 /\ w.ms \in Thousandths
  BY <1>2 DEF TimeOn
<1> QED
  BY <1>3, <1>4, <1>5, <1>6, <1>7, <1>8 DEF ShownOK, w

\* The pieces of the text, and what was read from them.
TextInv ==
  /\ \E S : written \in Seq(S)
  /\ Len(written) <= MaxPieces
  /\ \A i \in DOMAIN written :
       written[i].piece \in Pieces /\ written[i].piece.kind = written[1].piece.kind
  /\ result = <<>> \/ \E v : result = <<v>>
  /\ result # <<>> => written # <<>>

\* It holds at the start.
LEMMA TextStarts == Init => TextInv
<1> SUFFICES ASSUME Init
             PROVE  TextInv
  OBVIOUS
<1>1. written = <<>> /\ result = <<>>
  BY DEF Init
<1>2. written \in Seq({})
  BY <1>1
<1>3. Len(written) = 0 /\ DOMAIN written = {}
  BY <1>1
<1>4. Len(written) <= MaxPieces
  BY SMT, <1>3, BoundsAssumption
<1> QED
  BY <1>1, <1>2, <1>3, <1>4 DEF TextInv

\* One more piece, of the type of those before it.
LEMMA PieceAppended ==
  ASSUME NEW S, NEW w \in Seq(S), NEW e, Len(w) < MaxPieces, e.piece \in Pieces,
         \A i \in DOMAIN w : w[i].piece \in Pieces /\ w[i].piece.kind = w[1].piece.kind,
         \A i \in DOMAIN w : w[i].piece.kind = e.piece.kind
  PROVE  LET v == Append(w, e)
         IN  /\ v \in Seq(S \cup {e}) /\ Len(v) <= MaxPieces /\ v # <<>>
             /\ \A i \in DOMAIN v :
                  v[i].piece \in Pieces /\ v[i].piece.kind = v[1].piece.kind
<1> DEFINE v == Append(w, e)
<1>1. w \in Seq(S \cup {e})
  BY SMT
<1>2. PICK n \in Nat : n = Len(w) /\ DOMAIN w = 1..n
  BY <1>1
<1>3. /\ v \in Seq(S \cup {e}) /\ Len(v) = n + 1 /\ DOMAIN v = 1..(n + 1)
      /\ v[n + 1] = e /\ \A i \in 1..n : v[i] = w[i]
  BY SMT, <1>1, <1>2
<1>4. Len(v) <= MaxPieces /\ v # <<>>
  BY SMT, <1>2, <1>3, BoundsAssumption
<1> HIDE DEF v
<1>5. ASSUME NEW i \in DOMAIN v
      PROVE  v[i].piece \in Pieces /\ v[i].piece.kind = v[1].piece.kind
  <2>1. CASE n = 0
    <3>1. i = 1 /\ v[1] = e
      BY SMT, <1>2, <1>3, <1>5, <2>1
    <3> QED
      BY <3>1
  <2>2. CASE n # 0
    <3>1. 1 \in 1..n /\ (i \in 1..n \/ i = n + 1)
      BY SMT, <1>2, <1>3, <1>5, <2>2
    <3>2. v[1] = w[1] /\ v[1].piece.kind = e.piece.kind
      BY <1>2, <1>3, <3>1
    <3> QED
      BY <1>2, <1>3, <3>1, <3>2
  <2> QED
    BY <2>1, <2>2
<1> QED
  BY <1>3, <1>4, <1>5 DEF v

\* Every step keeps it.
LEMMA TextGoesOn == TextInv /\ [Next]_vars => TextInv'
<1> SUFFICES ASSUME TextInv, [Next]_vars
             PROVE  TextInv'
  OBVIOUS
<1>1. CASE UNCHANGED <<written, result>>
  BY <1>1 DEF TextInv
<1>2. CASE Turn
  BY <1>1, <1>2 DEF Turn
<1>3. CASE UNCHANGED vars
  BY <1>1, <1>3 DEF vars
<1>4. ASSUME NEW piece \in Pieces, Write(piece)
      PROVE  TextInv'
  <2>1. /\ Len(written) < MaxPieces /\ result' = result
        /\ \A i \in DOMAIN written : written[i].piece.kind = piece.kind
    BY <1>4 DEF Write
  <2>2. written' = written \/ \E text, value :
          written' = Append(written, [piece |-> piece, text |-> text, value |-> value])
    BY <1>4 DEF Write
  <2>3. CASE written' = written
    BY <1>1, <2>1, <2>3
  <2>4. ASSUME NEW text, NEW value,
               written' = Append(written, [piece |-> piece, text |-> text, value |-> value])
        PROVE  TextInv'
    <3> DEFINE e == [piece |-> piece, text |-> text, value |-> value]
    <3>1. e.piece = piece
      OBVIOUS
    <3>2. written' = Append(written, e)
      BY <2>4
    <3> HIDE DEF e
    <3>3. PICK S : written \in Seq(S)
      BY DEF TextInv
    <3>4. \A i \in DOMAIN written :
            written[i].piece \in Pieces /\ written[i].piece.kind = written[1].piece.kind
      BY DEF TextInv
    <3>5. /\ written' \in Seq(S \cup {e}) /\ Len(written') <= MaxPieces /\ written' # <<>>
          /\ \A i \in DOMAIN written' :
               written'[i].piece \in Pieces /\ written'[i].piece.kind = written'[1].piece.kind
      BY <2>1, <3>1, <3>2, <3>3, <3>4, PieceAppended
    <3> QED
      BY <2>1, <3>5 DEF TextInv
  <2> QED
    BY <2>2, <2>3, <2>4
<1>5. CASE Read
  <2>1. /\ UNCHANGED written /\ written # <<>>
        /\ \E v : result' = <<v>>
    BY <1>5 DEF Read
  <2> QED
    BY <2>1 DEF TextInv
<1> QED
  BY <1>2, <1>3, <1>4, <1>5 DEF Next

\* Together they give the types.
LEMMA InvariantsTyped == ClockInv /\ TextInv => TypeOK
<1> SUFFICES ASSUME ClockInv, TextInv
             PROVE  TypeOK
  OBVIOUS
<1>1. /\ start \in Starts /\ tp \in Int /\ start.tp <= tp /\ tp <= start.tp + start.ticks
      /\ shown = Shown(start.unit, tp)
  BY DEF ClockInv
<1>2. start.tp \in Int /\ start.ticks \in Nat
  BY <1>1, StartsAssumption
<1>3. tp \in start.tp..(start.tp + start.ticks)
  BY SMT, <1>1, <1>2
<1>4. ShownOK(shown)
  <2> DEFINE n == Floor(tp, TicksPerDay(start.unit))
  <2>1. start.unit \in Units /\ n \in Days
    BY <1>1, ClockInRange
  <2>2. PICK h, m, s, ms :
          TimeOn(n, h, m, s, ms) /\ Shown(start.unit, tp) = ShownAt(n, h, m, s, ms)
    BY <1>1, <2>1, ShownParts
  <2> QED
    BY <1>1, <2>1, <2>2, ShownInRange
<1>5. Len(result) <= 1
  <2>1. CASE result = <<>>
    BY SMT, <2>1
  <2>2. ASSUME NEW v, result = <<v>>
        PROVE  Len(result) <= 1
    BY SMT, <2>2
  <2> QED
    BY <2>1, <2>2 DEF TextInv
<1> QED
  BY <1>1, <1>3, <1>4, <1>5 DEF TypeOK, TextInv, ShownOK, Thousandths

\* Every state of the clock and of its text is of its type: a date that
\* exists, a time within a day, a day of the year and weeks within a year, and
\* only pieces of one type put together.
THEOREM TypeCorrect == Spec => []TypeOK
BY ClockStarts, ClockGoesOn, TextStarts, TextGoesOn, InvariantsTyped, PTL DEF Spec

----------------------------------------------------------------------------
\* Counting months.

\* A month and a year n months on: r + 1 and q years later.
LEMMA MonthsPlaced ==
  ASSUME NEW m \in Int, 1 <= m, m <= 12, NEW n \in Int
  PROVE  \E q, r \in Int :
           /\ m - 1 + n = 12 * q + r /\ 0 <= r /\ r <= 11
           /\ (q = n \div 12 \/ q = n \div 12 + 1)
           /\ (n % 12 = 0 => q = n \div 12 /\ r = m - 1)
<1>1. PICK a \in Int : a = m - 1 + n
  BY SMT
<1>2. /\ a = 12 * (a \div 12) + (a % 12) /\ a \div 12 \in Int
      /\ a % 12 \in Int /\ 0 <= a % 12 /\ a % 12 <= 11
  BY SMT
<1>3. /\ n = 12 * (n \div 12) + (n % 12) /\ n \div 12 \in Int
      /\ n % 12 \in Int /\ 0 <= n % 12 /\ n % 12 <= 11
  BY SMT
<1>4. PICK q \in Int, r \in Int, p \in Int, l \in Int :
        /\ q = a \div 12 /\ r = a % 12 /\ p = n \div 12 /\ l = n % 12
        /\ a = 12 * q + r /\ 0 <= r /\ r <= 11
        /\ n = 12 * p + l /\ 0 <= l /\ l <= 11
  BY <1>2, <1>3
<1>5. (q = p \/ q = p + 1) /\ (l = 0 => q = p /\ r = m - 1)
  BY SMT, <1>1, <1>4
<1>6. m - 1 + n = 12 * q + r
  BY SMT, <1>1, <1>4
<1> QED
  BY <1>4, <1>5, <1>6

\* What the arithmetic on months computes of that.
LEMMA MonthsMoved ==
  ASSUME NEW y \in Int, NEW m \in Int, 1 <= m, m <= 12, NEW n \in Int,
         NEW q \in Int, NEW r \in Int, m - 1 + n = 12 * q + r, 0 <= r, r <= 11,
         MinYear <= y + q, y + q <= MaxYear
  PROVE  /\ YearMonthPlus([y |-> y, m |-> m], n) = [y |-> y + q, m |-> r + 1]
         /\ YearPlus(y, q) = y + q
         /\ MonthPlus(m, n) = r + 1
         /\ MonthPlus(m, MonthMinus(r + 1, m)) = r + 1
<1>1. YearPlus(y, q) = y + q
  <2>1. y + q \in Int
    BY SMT
  <2> QED
    BY <2>1, ShortKeeps DEF YearPlus
<1>2. PICK a \in Int : a = m - 1 + n /\ a = 12 * q + r
  BY SMT
<1>3. Cut(IF a >= 0 THEN a ELSE a - 11, 12) = q
  BY SMT, <1>2 DEF Cut
<1>4. a - q * 12 + 1 = r + 1 /\ Byte(r + 1) = r + 1
  BY SMT, <1>2 DEF Byte
<1>5. YearMonthPlus([y |-> y, m |-> m], n) = [y |-> y + q, m |-> r + 1]
  <2>1. /\ [y |-> y, m |-> m].y = y /\ [y |-> y, m |-> m].m = m
    OBVIOUS
  <2> QED
    BY <1>1, <1>2, <1>3, <1>4, <2>1 DEF YearMonthPlus
<1>6. MonthPlus(m, n) = r + 1
  <2>1. m + n - 1 = a
    BY SMT, <1>2
  <2> QED
    BY <1>3, <1>4, <2>1 DEF MonthPlus
<1>7. MonthPlus(m, MonthMinus(r + 1, m)) = r + 1
  BY SMT DEF MonthPlus, MonthMinus, Cut, Byte
<1> QED
  BY <1>1, <1>5, <1>6, <1>7

\* Adding months to a date.
LEMMA MonthsCounted ==
  ASSUME NEW x, GoodDate(x), NEW n \in Int,
         InRange(x.y + n \div 12), InRange(x.y + n \div 12 + 1)
  PROVE  LET moved    == YmdPlusMonths(x, n)
             Count(z) == z.y * 12 + z.m - 1
         IN  /\ Count(moved) = Count(x) + n /\ moved.m \in 1..12 /\ moved.d = x.d
             /\ YearMonthMinus(moved, x) = n
             /\ YearMonthLess(moved, x) <=> n < 0
             /\ MonthPlus(x.m, n) = moved.m
             /\ MonthPlus(x.m, MonthMinus(moved.m, x.m)) = moved.m
             /\ n % 12 = 0 => YmdPlusYears(x, n \div 12) = moved
<1>1. /\ x = [y |-> x.y, m |-> x.m, d |-> x.d]
      /\ x.y \in Int /\ x.m \in Int /\ 1 <= x.m /\ x.m <= 12
  BY DEF GoodDate
<1>2. PICK q \in Int, r \in Int :
        /\ x.m - 1 + n = 12 * q + r /\ 0 <= r /\ r <= 11
        /\ (q = n \div 12 \/ q = n \div 12 + 1)
        /\ (n % 12 = 0 => q = n \div 12 /\ r = x.m - 1)
  BY <1>1, MonthsPlaced
<1>3. MinYear <= x.y + q /\ x.y + q <= MaxYear
  <2>1. CASE q = n \div 12
    BY SMT, <1>1, <2>1, YearNumbers DEF InRange
  <2>2. CASE q = n \div 12 + 1
    <3>1. n \div 12 \in Int
      BY SMT
    <3>2. x.y + q = x.y + n \div 12 + 1
      BY SMT, <1>1, <2>2, <3>1
    <3> QED
      BY SMT, <1>1, <2>2, <3>1, <3>2, YearNumbers DEF InRange
  <2> QED
    BY <1>2, <2>1, <2>2
<1>4. /\ YearMonthPlus([y |-> x.y, m |-> x.m], n) = [y |-> x.y + q, m |-> r + 1]
      /\ YearPlus(x.y, q) = x.y + q
      /\ MonthPlus(x.m, n) = r + 1
      /\ MonthPlus(x.m, MonthMinus(r + 1, x.m)) = r + 1
  BY <1>1, <1>2, <1>3, MonthsMoved
<1> DEFINE moved == YmdPlusMonths(x, n)
<1>5. moved = [y |-> x.y + q, m |-> r + 1, d |-> x.d]
  BY <1>4 DEF YmdPlusMonths
<1>6. moved.y = x.y + q /\ moved.m = r + 1 /\ moved.d = x.d
  BY <1>5
<1>7. n % 12 = 0 => YmdPlusYears(x, n \div 12) = moved
  <2> SUFFICES ASSUME n % 12 = 0
               PROVE  YmdPlusYears(x, n \div 12) = moved
    OBVIOUS
  <2>1. q = n \div 12 /\ r + 1 = x.m
    BY SMT, <1>1, <1>2
  <2>2. YmdPlusYears(x, q) = [x EXCEPT !.y = x.y + q]
    BY <1>4 DEF YmdPlusYears
  <2>3. [x EXCEPT !.y = x.y + q] = [y |-> x.y + q, m |-> x.m, d |-> x.d]
    BY <1>1
  <2> QED
    BY <1>5, <2>1, <2>2, <2>3
<1> HIDE DEF moved
<1>8. /\ moved.y * 12 + moved.m - 1 = x.y * 12 + x.m - 1 + n /\ moved.m \in 1..12
      /\ YearMonthMinus(moved, x) = n /\ (YearMonthLess(moved, x) <=> n < 0)
  BY SMT, <1>1, <1>2, <1>6 DEF YearMonthMinus, YearMonthLess
<1> QED
  BY <1>4, <1>6, <1>7, <1>8 DEF moved

\* The date on the clock is the date of the day it is on, and exists.
LEMMA NowIsADate ==
  ASSUME ClockInv
  PROVE  /\ Floor(tp, TicksPerDay(start.unit)) \in Days
         /\ Now.ymd = FromDays(Floor(tp, TicksPerDay(start.unit)))
         /\ GoodDate(Now.ymd)
<1>1. Floor(tp, TicksPerDay(start.unit)) \in Days
  BY ClockInRange DEF ClockInv
<1>2. Now.ymd = FromDays(Floor(tp, TicksPerDay(start.unit)))
  BY DEF Now, Split, TimeFields, Fields
<1> QED
  BY <1>1, <1>2, DayHasGoodDate

\* At every time of the clock, adding months to the date moves a count of
\* months, in both directions and across years, and the differences, the
\* orders, the month alone and the years agree with it.
THEOREM MonthsAlwaysCount == Spec => []MonthsCount
<1>1. ClockInv => MonthsCount
  <2> SUFFICES ASSUME ClockInv
               PROVE  MonthsCount
    OBVIOUS
  <2>1. GoodDate(Now.ymd)
    BY NowIsADate
  <2> DEFINE x == Now.ymd
  <2> HIDE DEF x
  <2>2. \A n \in Int :
          InRange(x.y + n \div 12) /\ InRange(x.y + n \div 12 + 1) =>
            LET moved    == YmdPlusMonths(x, n)
                Count(z) == z.y * 12 + z.m - 1
            IN  /\ Count(moved) = Count(x) + n /\ moved.m \in 1..12 /\ moved.d = x.d
                /\ YearMonthMinus(moved, x) = n
                /\ YearMonthLess(moved, x) <=> n < 0
                /\ MonthPlus(x.m, n) = moved.m
                /\ MonthPlus(x.m, MonthMinus(moved.m, x.m)) = moved.m
                /\ n % 12 = 0 => YmdPlusYears(x, n \div 12) = moved
    BY <2>1, MonthsCounted DEF x
  <2>3. \A k \in -25..25 : k \in Int
    BY SMT
  <2> QED
    BY <2>2, <2>3 DEF MonthsCount, x
<1> QED
  BY <1>1, Inductive, PTL

----------------------------------------------------------------------------
\* The weekdays of a month.

\* The days of a month follow each other.
LEMMA DayOfMonth ==
  ASSUME NEW x, GoodDate(x), NEW e \in Int, 0 <= e, e <= 31
  PROVE  ToDays(Ymd(x.y, x.m, e)) = ToDays(x) - x.d + e
<1>1. Ymd(x.y, x.m, e) = [y |-> x.y, m |-> x.m, d |-> e]
  BY SMT, DateParts DEF GoodDate, MinYear
<1>2. /\ ToDays([y |-> x.y, m |-> x.m, d |-> e]) = NewYear(x.y) + BeforeMonth(x.y, x.m) + e - 1
      /\ ToDays(x) = NewYear(x.y) + BeforeMonth(x.y, x.m) + x.d - 1
  BY SMT, DateNumber, GoodDateHasDay DEF GoodDate
<1>3. NewYear(x.y) \in Int /\ BeforeMonth(x.y, x.m) \in Int /\ x.d \in Int
  BY NewYearDay, MonthBounds DEF GoodDate
<1> QED
  BY SMT, <1>1, <1>2, <1>3

\* The first days after a month are in another.
LEMMA AfterMonth ==
  ASSUME NEW x, GoodDate(x), NEW n \in Int, NEW e \in Int, 1 <= e, e <= 7,
         n = ToDays(x) - x.d + LastDay(x.y, x.m) + e
  PROVE  FromDays(n).m # x.m
<1>1. /\ x.y \in Int /\ MinYear <= x.y /\ x.y <= MaxYear
      /\ x.m \in Int /\ 1 <= x.m /\ x.m <= 12 /\ x.d \in Int
  BY DEF GoodDate
<1>2. PICK j \in Int, b \in Int, l \in Int :
        /\ j = NewYear(x.y) /\ b = BeforeMonth(x.y, x.m) /\ l = LastDay(x.y, x.m)
        /\ ToDays(x) = j + b + x.d - 1
  <2>1. /\ NewYear(x.y) \in Int /\ BeforeMonth(x.y, x.m) \in Int
        /\ LastDay(x.y, x.m) \in Int
    BY <1>1, NewYearDay, MonthBounds
  <2> QED
    BY <2>1, GoodDateHasDay
<1>3. n = j + b + l + e - 1
  BY SMT, <1>1, <1>2
<1>4. CASE x.m < 12
  <2> DEFINE z == [y |-> x.y, m |-> x.m + 1, d |-> e]
  <2>0. PICK k \in Int : k = x.m + 1 /\ 1 <= k /\ k <= 12
    BY SMT, <1>1, <1>4
  <2>1. /\ x.m + 1 \in Int /\ 1 <= x.m + 1 /\ x.m + 1 <= 12
        /\ e <= LastDay(x.y, x.m + 1)
    <3>1. 28 <= LastDay(x.y, k) /\ LastDay(x.y, k) \in Int
      BY <1>1, <2>0, MonthBounds
    <3>2. e <= LastDay(x.y, k)
      BY SMT, <3>1
    <3> QED
      BY <2>0, <3>2
  <2>2. GoodDate(z)
    BY <1>1, <2>1 DEF GoodDate
  <2>3. ToDays(z) = j + BeforeMonth(x.y, x.m + 1) + e - 1
    BY <1>2, <2>2, GoodDateHasDay
  <2>4. BeforeMonth(x.y, x.m + 1) = b + l
    BY SMT, <1>1, <1>2, <1>4, NextMonth
  <2>5. ToDays(z) = n
    BY SMT, <1>3, <2>3, <2>4
  <2>6. FromDays(n) = z
    BY <2>2, <2>5, GoodDateHasDay
  <2>7. FromDays(n).m = x.m + 1
    BY <2>6
  <2> QED
    BY SMT, <1>1, <2>7
<1>5. CASE x.m = 12
  <2>1. PICK i \in Int : i = NewYear(x.y + 1) /\ n = i + e - 1
    <3>1. /\ ToDays([y |-> x.y, m |-> 12, d |-> x.d]) = NewYear(x.y + 1) - 32 + x.d
          /\ x = [y |-> x.y, m |-> 12, d |-> x.d] /\ l = 31
      BY <1>1, <1>2, <1>5, NewYearDay, MonthBounds DEF GoodDate
    <3>2. x.y + 1 \in Int
      BY SMT, <1>1
    <3>3. NewYear(x.y + 1) \in Int
      BY <3>2, NewYearDay
    <3> QED
      BY SMT, <1>1, <1>2, <3>1, <3>3
  <2>2. CASE x.y < MaxYear
    <3> DEFINE z == [y |-> x.y + 1, m |-> 1, d |-> e]
    <3>1. /\ x.y + 1 \in Int /\ MinYear <= x.y + 1 /\ x.y + 1 <= MaxYear
      BY SMT, <1>1, <2>2, YearNumbers
    <3>2. e <= LastDay(x.y + 1, 1)
      BY SMT DEF LastDay, MonthOk
    <3>3. GoodDate(z)
      BY <3>1, <3>2 DEF GoodDate
    <3>4. ToDays(z) = i + e - 1
      BY <2>1, <3>1, NewYearDay
    <3>5. FromDays(n) = z
      BY <2>1, <3>3, <3>4, GoodDateHasDay
    <3>6. FromDays(n).m = 1
      BY <3>5
    <3> QED
      BY <1>5, <3>6
  <2>3. CASE x.y = MaxYear
    <3>1. 11248738 <= n /\ n <= 11248744
      BY SMT, <2>1, <2>3, EndsOfRange
    <3>2. FromDays(n).m = 1
      BY SMT, <3>1, TheLastDays
    <3> QED
      BY <1>5, <3>2
  <2> QED
    BY SMT, <1>1, <2>2, <2>3, YearNumbers
<1> QED
  BY SMT, <1>1, <1>4, <1>5

\* The weekday of a day of the month, seen from the first.
LEMMA WeekdaysOfMonth ==
  ASSUME NEW f \in Int, NEW a \in Int, 0 <= a, a <= 6, NEW b \in Int
  PROVE  WeekdayMinus(WeekdayFromDays(f + 7 * b + a), WeekdayFromDays(f)) = a
<1>1. PICK i \in Int, j \in Int :
        /\ i = WeekdayFromDays(f + 7 * b + a) /\ j = WeekdayFromDays(f)
        /\ i \in 0..6 /\ j \in 0..6
        /\ i = (f + 7 * b + a + 4) % 7 /\ j = (f + 4) % 7
  <2>1. f + 7 * b + a \in Int
    BY SMT
  <2>2. /\ WeekdayFromDays(f + 7 * b + a) = (f + 7 * b + a + 4) % 7
        /\ WeekdayFromDays(f) = (f + 4) % 7
    BY <2>1, WeekdayNumber
  <2>3. WeekdayFromDays(f + 7 * b + a) \in 0..6 /\ WeekdayFromDays(f) \in 0..6
    BY <2>1, WeekdayKnown
  <2> QED
    BY SMT, <2>2, <2>3
<1>2. a = IF i >= j THEN i - j ELSE i - j + 7
  BY SMT, <1>1
<1> QED
  BY SMT, <1>1, <1>2, WeekdayDistance

\* A day of a month: the weekday a after the first, in week b + 1.
InMonth(x, f, a, b) ==
  /\ GoodDate(x)
  /\ f \in Int /\ a \in Int /\ b \in Int
  /\ 0 <= a /\ a <= 6 /\ 0 <= b /\ b <= 4
  /\ x.d = 7 * b + a + 1 /\ ToDays(x) = f + 7 * b + a
  /\ ToDays(Ymd(x.y, x.m, 1)) = f

\* Every date has such a place.
LEMMA MonthPlace ==
  ASSUME NEW x, GoodDate(x)
  PROVE  \E f, a, b : InMonth(x, f, a, b)
<1>1. /\ x.d \in Int /\ 1 <= x.d /\ x.d <= 31 /\ ToDays(x) \in Int
      /\ ToDays(Ymd(x.y, x.m, 1)) = ToDays(x) - x.d + 1
  <2>1. ToDays(Ymd(x.y, x.m, 1)) = ToDays(x) - x.d + 1
    BY SMT, DayOfMonth
  <2> QED
    BY SMT, <2>1, GoodDateHasDay, MonthBounds DEF GoodDate
<1>2. PICK c \in Int : c = x.d - 1 /\ 0 <= c /\ c <= 30
  BY SMT, <1>1
<1>3. PICK a \in Int, b \in Int : c = 7 * b + a /\ 0 <= a /\ a <= 6
  <2>1. /\ c = 7 * (c \div 7) + (c % 7) /\ c \div 7 \in Int
        /\ c % 7 \in Int /\ 0 <= c % 7 /\ c % 7 <= 6
    BY SMT
  <2> QED
    BY SMT, <2>1
<1>4. PICK f \in Int : f = ToDays(x) - x.d + 1
  BY SMT, <1>1
<1>5. InMonth(x, f, a, b)
  BY SMT, <1>1, <1>2, <1>3, <1>4 DEF InMonth
<1> QED
  BY <1>5

\* The i-th of these weekdays, and whether there is one.
LEMMA NthWeekdayIs ==
  ASSUME NEW x, NEW f, NEW a, NEW b, InMonth(x, f, a, b), NEW wd,
         wd = WeekdayFromDays(f + 7 * b + a), NEW i \in Int, 1 <= i, i <= 5
  PROVE  LET nth == [y |-> x.y, m |-> x.m, wd |-> wd, index |-> i]
         IN  /\ NthWeekdayToDays(nth) = f + a + 7 * (i - 1)
             /\ NthWeekdayOk(nth) <=> 7 * (i - 1) + a + 1 <= LastDay(x.y, x.m)
<1> DEFINE nth == [y |-> x.y, m |-> x.m, wd |-> wd, index |-> i]
<1>1. nth.y = x.y /\ nth.m = x.m /\ nth.wd = wd /\ nth.index = i
  OBVIOUS
<1> HIDE DEF nth
<1>2. /\ f \in Int /\ a \in Int /\ b \in Int /\ 0 <= a /\ a <= 6
      /\ ToDays(Ymd(x.y, x.m, 1)) = f /\ f + 7 * b + a \in Int
  BY SMT DEF InMonth
<1>3. WeekdayMinus(wd, WeekdayFromDays(f)) = a /\ wd \in 0..6
  BY <1>2, WeekdaysOfMonth, WeekdayKnown
<1>4. NthWeekdayToDays(nth) = f + a + (i - 1) * 7
  BY <1>1, <1>2, <1>3 DEF NthWeekdayToDays
<1>5. YearOk(x.y) /\ MonthOk(x.m) /\ WeekdayOk(wd) /\ 28 <= LastDay(x.y, x.m)
      /\ LastDay(x.y, x.m) \in Int
  <2>1. YearOk(x.y)
    BY YearInRange DEF InMonth, GoodDate
  <2>2. MonthOk(x.m)
    <3>1. x.m \in Int /\ 1 <= x.m /\ x.m <= 12
      BY DEF InMonth, GoodDate
    <3> QED
      BY SMT, <3>1 DEF MonthOk
  <2>3. 28 <= LastDay(x.y, x.m) /\ LastDay(x.y, x.m) \in Int
    BY MonthBounds DEF InMonth, GoodDate
  <2> QED
    BY <1>3, <2>1, <2>2, <2>3 DEF WeekdayOk
<1>6. NthWeekdayOk(nth) <=> i <= 4 \/ a + (i - 1) * 7 + 1 <= LastDay(x.y, x.m)
  BY <1>1, <1>2, <1>3, <1>5 DEF NthWeekdayOk
<1>7. NthWeekdayOk(nth) <=> 7 * (i - 1) + a + 1 <= LastDay(x.y, x.m)
  BY SMT, <1>2, <1>5, <1>6
<1>8. NthWeekdayToDays(nth) = f + a + 7 * (i - 1)
  BY SMT, <1>2, <1>4
<1> QED
  BY <1>7, <1>8 DEF nth

\* The day e of the month is one of its month.
LEMMA StillInMonth ==
  ASSUME NEW x, NEW f, NEW a, NEW b, InMonth(x, f, a, b), NEW e \in Int, 1 <= e,
         e <= LastDay(x.y, x.m), NEW n \in Int, n = f + e - 1
  PROVE  FromDays(n).m = x.m
<1> DEFINE z == [y |-> x.y, m |-> x.m, d |-> e]
<1>1. GoodDate(z)
  BY DEF GoodDate, InMonth
<1>2. /\ ToDays(z) = NewYear(x.y) + BeforeMonth(x.y, x.m) + e - 1
      /\ ToDays(x) = NewYear(x.y) + BeforeMonth(x.y, x.m) + x.d - 1
  BY <1>1, GoodDateHasDay DEF InMonth
<1>3. NewYear(x.y) \in Int /\ BeforeMonth(x.y, x.m) \in Int
  BY NewYearDay, MonthBounds DEF InMonth, GoodDate
<1>4. ToDays(z) = n
  BY SMT, <1>2, <1>3 DEF InMonth
<1>5. FromDays(n) = z
  BY <1>1, <1>4, GoodDateHasDay
<1> QED
  BY <1>5

----------------------------------------------------------------------------
\* The views of one day agree.

\* A month and a day of a date are ok() without the year.
LEMMA MonthDayExists ==
  ASSUME NEW x, GoodDate(x)
  PROVE  MonthDayOk(x.m, x.d)
<1>1. /\ x.y \in Int /\ x.m \in Int /\ 1 <= x.m /\ x.m <= 12
      /\ x.d \in Int /\ 1 <= x.d /\ x.d <= LastDay(x.y, x.m)
  BY DEF GoodDate
<1>2. LastDay(x.y, x.m) <= <<31, 29, 31, 30, 31, 30, 31, 31, 30, 31, 30, 31>>[x.m]
  <2>1. CASE x.m = 2
    BY SMT, <2>1, FebruaryLength
  <2>2. CASE x.m # 2
    BY SMT, <1>1, <2>2 DEF LastDay, MonthOk
  <2> QED
    BY <2>1, <2>2
<1>3. /\ <<31, 29, 31, 30, 31, 30, 31, 31, 30, 31, 30, 31>>[x.m] \in Int
      /\ LastDay(x.y, x.m) \in Int
  <2>1. LastDay(x.y, x.m) \in Int
    BY <1>1, MonthBounds
  <2> QED
    BY SMT, <1>1, <2>1
<1> QED
  BY SMT, <1>1, <1>2, <1>3 DEF MonthDayOk, MonthOk

\* The day as the n-th weekday of its month.
LEMMA NthViewed ==
  ASSUME NEW n \in Days, NEW f, NEW a, NEW b, InMonth(FromDays(n), f, a, b)
  PROVE  LET x == FromDays(n)
         IN  /\ n = f + 7 * b + a
             /\ WeekdayFromDays(n) \in 0..6
             /\ NthWeekdayFromDays(n) =
                  [y |-> x.y, m |-> x.m, wd |-> WeekdayFromDays(n), index |-> b + 1]
<1> DEFINE x == FromDays(n)
<1>1. ToDays(x) = n
  BY DayHasGoodDate
<1>2. /\ a \in Int /\ b \in Int /\ f \in Int /\ n = f + 7 * b + a /\ x.d = 7 * b + a + 1
      /\ 0 <= a /\ a <= 6 /\ 0 <= b /\ b <= 4
  BY <1>1 DEF InMonth
<1> HIDE DEF x
<1>3. Nibble((x.d - 1) \div 7 + 1) = b + 1
  BY SMT, <1>2 DEF Nibble
<1>4. n \in Int
  BY DaysBounds
<1>5. WeekdayFromDays(n) \in 0..6
  BY <1>4, WeekdayKnown
<1>6. Nibble(WeekdayFromDays(n)) = WeekdayFromDays(n)
  BY SMT, <1>5 DEF Nibble
<1> QED
  BY <1>2, <1>3, <1>5, <1>6 DEF NthWeekdayFromDays, x

NthAgrees(n) ==
  LET x     == FromDays(n)
      nth   == NthWeekdayFromDays(n)
      fifth == [nth EXCEPT !.index = 5]
  IN  /\ NthWeekdayOk(nth) /\ NthWeekdayToDays(nth) = n
      /\ NthWeekdayOk(fifth) <=> FromDays(NthWeekdayToDays(fifth)).m = x.m

\* The n-th weekday goes back to its day, and there is a fifth only within the
\* month.
LEMMA NthAgree ==
  ASSUME NEW n \in Days
  PROVE  NthAgrees(n)
<1> DEFINE x  == FromDays(n)
           wd == WeekdayFromDays(n)
           l  == LastDay(x.y, x.m)
           At(i) == [y |-> x.y, m |-> x.m, wd |-> wd, index |-> i]
<1>1. GoodDate(x)
  BY DayHasGoodDate
<1>2. PICK f, a, b : InMonth(x, f, a, b)
  BY <1>1, MonthPlace
<1>3. n = f + 7 * b + a /\ NthWeekdayFromDays(n) = At(b + 1)
  BY <1>2, NthViewed
<1>4. /\ f \in Int /\ a \in Int /\ b \in Int /\ 0 <= a /\ a <= 6 /\ 0 <= b /\ b <= 4
      /\ x.d = 7 * b + a + 1 /\ x.d <= l /\ l \in Int /\ 28 <= l /\ l <= 31
  BY <1>1, <1>2, MonthBounds DEF InMonth, GoodDate
<1>5. ToDays(x) = n
  BY DayHasGoodDate
<1>6. ASSUME NEW i \in Int, 1 <= i, i <= 5
      PROVE  /\ NthWeekdayToDays(At(i)) = f + a + 7 * (i - 1)
             /\ NthWeekdayOk(At(i)) <=> 7 * (i - 1) + a + 1 <= l
  BY <1>2, <1>3, <1>6, NthWeekdayIs
<1> HIDE DEF x, wd, l
<1>7. NthWeekdayOk(At(b + 1)) /\ NthWeekdayToDays(At(b + 1)) = n
  <2>1. PICK i \in Int : i = b + 1 /\ 1 <= i /\ i <= 5
    BY SMT, <1>4
  <2>2. /\ NthWeekdayToDays(At(i)) = f + a + 7 * (i - 1)
        /\ NthWeekdayOk(At(i)) <=> 7 * (i - 1) + a + 1 <= l
    BY <1>6, <2>1
  <2>3. 7 * (i - 1) + a + 1 <= l /\ f + a + 7 * (i - 1) = n
    BY SMT, <1>3, <1>4, <2>1
  <2> QED
    BY <2>1, <2>2, <2>3
<1>8. PICK e \in Int : e = a + 29
  BY SMT, <1>4
<1>9. PICK k \in Int : k = f + e - 1
  BY SMT, <1>4
<1>10. NthWeekdayToDays(At(5)) = k /\ (NthWeekdayOk(At(5)) <=> e <= l)
  <2>1. /\ NthWeekdayToDays(At(5)) = f + a + 7 * (5 - 1)
        /\ NthWeekdayOk(At(5)) <=> 7 * (5 - 1) + a + 1 <= l
    BY SMT, <1>6
  <2>2. f + a + 7 * (5 - 1) = k /\ 7 * (5 - 1) + a + 1 = e
    BY SMT, <1>4, <1>8, <1>9
  <2> QED
    BY Zenon, <2>1, <2>2
<1>11. e <= l <=> FromDays(k).m = x.m
  <2>1. CASE e <= l
    <3>1. 1 <= e
      BY SMT, <1>4, <1>8
    <3> QED
      BY <1>2, <1>9, <2>1, <3>1, StillInMonth DEF l
  <2>2. CASE ~(e <= l)
    <3>1. PICK g \in Int : g = e - l /\ 1 <= g /\ g <= 7
      BY SMT, <1>4, <1>8, <2>2
    <3>2. k = ToDays(x) - x.d + l + g
      BY SMT, <1>3, <1>4, <1>5, <1>9, <3>1
    <3>3. FromDays(k).m # x.m
      BY <1>1, <3>1, <3>2, AfterMonth DEF l
    <3> QED
      BY <2>2, <3>3
  <2> QED
    BY <2>1, <2>2
<1>12. [At(b + 1) EXCEPT !.index = 5] = At(5)
  OBVIOUS
<1>13. /\ NthWeekdayOk(At(b + 1)) /\ NthWeekdayToDays(At(b + 1)) = n
       /\ NthWeekdayOk(At(5)) <=> FromDays(NthWeekdayToDays(At(5))).m = x.m
  BY <1>7, <1>10, <1>11
<1> QED
  BY <1>3, <1>12, <1>13 DEF NthAgrees, x

LastAgrees(n) ==
  LET x    == FromDays(n)
      nth  == NthWeekdayFromDays(n)
      last == LastWeekdayToDays(x.y, x.m, nth.wd)
  IN  /\ last \in {NthWeekdayToDays([nth EXCEPT !.index = i]) : i \in 4..5}
      /\ FromDays(last).m = x.m /\ FromDays(last + 7).m # x.m

\* The last of these weekdays is the fourth or the fifth.
LEMMA LastAgree ==
  ASSUME NEW n \in Days
  PROVE  LastAgrees(n)
<1> DEFINE x  == FromDays(n)
           wd == WeekdayFromDays(n)
           l  == LastDay(x.y, x.m)
           At(i) == [y |-> x.y, m |-> x.m, wd |-> wd, index |-> i]
           last == LastWeekdayToDays(x.y, x.m, wd)
<1>1. GoodDate(x)
  BY DayHasGoodDate
<1>2. PICK f, a, b : InMonth(x, f, a, b)
  BY <1>1, MonthPlace
<1>3. n = f + 7 * b + a /\ NthWeekdayFromDays(n) = At(b + 1)
  BY <1>2, NthViewed
<1>4. /\ f \in Int /\ a \in Int /\ b \in Int /\ 0 <= a /\ a <= 6 /\ 0 <= b /\ b <= 4
      /\ x.d = 7 * b + a + 1 /\ x.d <= l /\ l \in Int /\ 28 <= l /\ l <= 31
  BY <1>1, <1>2, MonthBounds DEF InMonth, GoodDate
<1>5. ToDays(x) = n
  BY DayHasGoodDate
<1>6. ASSUME NEW i \in Int, 1 <= i, i <= 5
      PROVE  NthWeekdayToDays(At(i)) = f + a + 7 * (i - 1)
  BY <1>2, <1>3, <1>6, NthWeekdayIs
\* The last of the weekdays is c days before the last day of the month.
<1>7. PICK j \in Int : j = f + l - 1 /\ ToDays(Ymd(x.y, x.m, l)) = j
  <2>1. 0 <= l /\ l <= 31
    BY SMT, <1>4
  <2>2. ToDays(Ymd(x.y, x.m, l)) = ToDays(x) - x.d + l
    BY <1>1, <1>4, <2>1, DayOfMonth
  <2>3. f + l - 1 \in Int /\ ToDays(x) - x.d + l = f + l - 1
    BY SMT, <1>3, <1>4, <1>5
  <2> QED
    BY <2>2, <2>3
<1> HIDE DEF l, x
<1>8. PICK i \in Int, c \in Int :
        /\ (i = 4 \/ i = 5) /\ 0 <= c /\ c <= 6 /\ l = 7 * (i - 1) + a + 1 + c
  <2>1. CASE a + 29 <= l
    <3>1. l - 29 - a \in Int /\ 0 <= l - 29 - a /\ l - 29 - a <= 6
      BY SMT, <1>4, <2>1
    <3>2. l = 7 * (5 - 1) + a + 1 + (l - 29 - a)
      BY SMT, <1>4
    <3> QED
      BY SMT, <3>1, <3>2
  <2>2. CASE ~(a + 29 <= l)
    <3>1. l - 22 - a \in Int /\ 0 <= l - 22 - a /\ l - 22 - a <= 6
      BY SMT, <1>4, <2>2
    <3>2. l = 7 * (4 - 1) + a + 1 + (l - 22 - a)
      BY SMT, <1>4
    <3> QED
      BY SMT, <3>1, <3>2
  <2> QED
    BY <2>1, <2>2
<1>9. PICK k \in Int : k = f + a + 7 * (i - 1) /\ j = k + c
  BY SMT, <1>4, <1>7, <1>8
<1>10. WeekdayMinus(WeekdayFromDays(j), wd) = c
  <2>1. 0 \in Int /\ j = k + 7 * 0 + c
    BY SMT, <1>9
  <2>2. WeekdayMinus(WeekdayFromDays(k + 7 * 0 + c), WeekdayFromDays(k)) = c
    BY <1>8, <2>1, WeekdaysOfMonth
  <2>3. WeekdayFromDays(k) = wd
    <3>1. /\ n \in Int /\ WeekdayFromDays(k) = (k + 4) % 7
          /\ wd = (n + 4) % 7
      BY DaysBounds, WeekdayNumber
    <3>2. n = k + 7 * (b - i + 1)
      BY SMT, <1>3, <1>4, <1>9
    <3>3. PICK o \in Int : o = b - i + 1
      BY SMT, <1>4
    <3> HIDE DEF wd
    <3> QED
      BY SMT, <3>1, <3>2, <3>3
  <2> QED
    BY <2>1, <2>2, <2>3
<1>11. last = k
  <2>1. last = j - WeekdayMinus(WeekdayFromDays(j), wd)
    BY <1>7 DEF LastWeekdayToDays, l
  <2> HIDE DEF last
  <2> QED
    BY SMT, <1>8, <1>9, <1>10, <2>1
<1>12. NthWeekdayToDays(At(i)) = k /\ i \in 4..5
  <2>1. 1 <= i /\ i <= 5 /\ i \in 4..5
    BY SMT, <1>8
  <2> QED
    BY <1>6, <1>9, <2>1
<1>13. FromDays(k).m = x.m
  <2>1. PICK e \in Int : e = 7 * (i - 1) + a + 1 /\ 1 <= e /\ e <= l /\ k = f + e - 1
    BY SMT, <1>4, <1>8, <1>9
  <2> QED
    BY <1>2, <2>1, StillInMonth DEF l
<1>14. FromDays(k + 7).m # x.m
  <2>1. PICK g \in Int, q \in Int : /\ q = k + 7 /\ g = 7 - c /\ 1 <= g /\ g <= 7
                                    /\ q = ToDays(x) - x.d + l + g
    BY SMT, <1>3, <1>4, <1>5, <1>7, <1>8, <1>9
  <2> QED
    BY <1>1, <2>1, AfterMonth DEF l
<1>15. [At(b + 1) EXCEPT !.index = i] = At(i) /\ At(b + 1).wd = wd
  OBVIOUS
<1>16. last \in {NthWeekdayToDays([At(b + 1) EXCEPT !.index = p]) : p \in 4..5}
  BY <1>11, <1>12, <1>15
<1> QED
  BY <1>3, <1>11, <1>13, <1>14, <1>15, <1>16 DEF LastAgrees, x

\* Later days are later dates, as long as the year after is one.
LEMMA LaterAgree ==
  ASSUME NEW n \in Days, InRange(FromDays(n).y + 1), NEW k \in 1..365
  PROVE  /\ YmdLess(FromDays(n), FromDays(n + k))
         /\ ~YmdLess(FromDays(n + k), FromDays(n))
<1> DEFINE x == FromDays(n)
<1>1. GoodDate(x) /\ ToDays(x) = n /\ n \in Int /\ -12687428 <= n
  BY DayHasGoodDate, DaysBounds
<1>2. x.y \in Int /\ x.y + 1 \in Int /\ x.y + 1 <= MaxYear
  BY SMT, <1>1, YearNumbers DEF GoodDate, InRange
<1>3. n < NewYear(x.y + 1)
  BY <1>1, GoodDateHasDay
<1> HIDE DEF x
<1>4. PICK i \in Int, j \in Int : i = x.y + 1 /\ j = MaxYear + 1 /\ i + 1 <= j
  BY SMT, <1>2, YearNumbers
<1>5. n + 365 <= 11248737
  <2>1. NewYear(i) \in Int /\ NewYear(j) \in Int
    BY <1>4, NewYearDay
  <2>2. NewYear(j) >= NewYear(i) + 365 * (j - i)
    <3>1. i <= j
      BY SMT, <1>4
    <3> QED
      BY <3>1, YearsAreLong
  <2>3. n < NewYear(i) /\ NewYear(j) = 11248738
    BY SMT, <1>3, <1>4, EndsOfRange
  <2> QED
    BY SMT, <1>1, <1>4, <2>1, <2>2, <2>3
<1>6. n + k \in Days /\ n < n + k
  BY SMT, <1>1, <1>5, DaysAre
<1> QED
  BY <1>6, DatesInOrder

\* Days added to a weekday are counted modulo seven.
LEMMA WeekdaysAdded ==
  ASSUME NEW wd \in 0..6, NEW k \in {1, 5, 7, 300}
  PROVE  WeekdayMinus(WeekdayPlus(wd, k), wd) = k % 7
<1>1. CASE k = 1
  BY SMT, <1>1 DEF WeekdayMinus, WeekdayPlus, Weekday, Byte, Cut
<1>2. CASE k = 5
  BY SMT, <1>2 DEF WeekdayMinus, WeekdayPlus, Weekday, Byte, Cut
<1>3. CASE k = 7
  BY SMT, <1>3 DEF WeekdayMinus, WeekdayPlus, Weekday, Byte, Cut
<1>4. CASE k = 300
  BY SMT, <1>4 DEF WeekdayMinus, WeekdayPlus, Weekday, Byte, Cut
<1> QED
  BY <1>1, <1>2, <1>3, <1>4

\* The parts of a duration make up the duration.
LEMMA PartsMakeUp ==
  ASSUME NEW d \in Int, 0 <= d, NEW second, second = 1 \/ second = 1000
  PROVE  TodToDuration(HhMmSs(d, second)) = d
<1> DEFINE a == Magnitude(d)
           h == Cut(a, 3600 * second)
           m == Cut(a, 60 * second) - h * 60
           r == a - h * 3600 * second - m * 60 * second
           s == Cut(r, second)
           t == HhMmSs(d, second)
<1>1. a \in Int /\ a = d
  BY SMT DEF Magnitude
<1>2. /\ t.h = h /\ t.m = m /\ t.s = s /\ t.sub = r - s * second /\ t.second = second
  BY DEF HhMmSs
<1>3. ~t.neg
  <2>1. ~(d < 0)
    BY SMT
  <2> QED
    BY <2>1 DEF HhMmSs
<1>4. h \in Int
  BY SMT, <1>1 DEF Cut
<1>5. m \in Int
  <2>1. Cut(a, 60 * second) \in Int
    BY SMT, <1>1 DEF Cut
  <2> QED
    BY SMT, <1>4, <2>1
<1>6. r \in Int
  BY SMT, <1>1, <1>4, <1>5
<1>7. s \in Int
  BY SMT, <1>6 DEF Cut
<1>8. ((h * 60 + m) * 60 + s) * second + (r - s * second) = d
  BY SMT, <1>1, <1>4, <1>5, <1>6, <1>7
<1> HIDE DEF t, h, m, r, s
<1>9. TodToDuration(t) = ((h * 60 + m) * 60 + s) * second + (r - s * second)
  BY <1>2, <1>3 DEF TodToDuration
<1> QED
  BY <1>8, <1>9 DEF t

LEMMA UnitFacts ==
  ASSUME NEW unit \in Units
  PROVE  /\ \/ TicksPerDay(unit) = 1 /\ UnitsPerTick(unit) = 86400
            \/ TicksPerDay(unit) = 24 /\ UnitsPerTick(unit) = 3600
            \/ TicksPerDay(unit) = 1440 /\ UnitsPerTick(unit) = 60
            \/ TicksPerDay(unit) = 86400 /\ UnitsPerTick(unit) = 1
            \/ TicksPerDay(unit) = 86400000 /\ UnitsPerTick(unit) = 1
         /\ Second(unit) = 1 \/ Second(unit) = 1000
BY SMT, DayUnit, HourUnit, MinuteUnit, SecondUnit, MillisecondUnit DEF Units

\* Cutting up differs from cutting down by one, unless nothing is left.
LEMMA CeilAgrees ==
  ASSUME NEW unit \in Units, NEW t \in Int
  PROVE  Ceil(t, TicksPerDay(unit)) =
           Floor(t, TicksPerDay(unit)) +
             (IF Split(unit, t).tod = HhMmSs(0, Second(unit)) THEN 0 ELSE 1)
<1> DEFINE per == TicksPerDay(unit)
           upt == UnitsPerTick(unit)
           second == Second(unit)
<1>1. /\ \/ per = 1 /\ upt = 86400
         \/ per = 24 /\ upt = 3600
         \/ per = 1440 /\ upt = 60
         \/ per = 86400 /\ upt = 1
         \/ per = 86400000 /\ upt = 1
      /\ second = 1 \/ second = 1000
  BY UnitFacts
<1>2. PICK n \in Int : n = Floor(t, per) /\ n * per <= t /\ t < n * per + per
  BY UnitTicks, FloorRoundsDown
<1>3. Split(unit, t).tod = HhMmSs((t - n * per) * upt, second)
  BY <1>2 DEF Split, TimeFields, Fields
<1> HIDE DEF per, upt, second
<1>4. PICK d \in Int : d = (t - n * per) * upt /\ 0 <= d /\ (d = 0 <=> t = n * per)
  <2>1. (t - n * per) * upt \in Int
    BY SMT, <1>1
  <2>2. CASE per = 1 /\ upt = 86400
    BY SMT, <1>2, <2>1, <2>2
  <2>3. CASE per = 24 /\ upt = 3600
    BY SMT, <1>2, <2>1, <2>3
  <2>4. CASE per = 1440 /\ upt = 60
    BY SMT, <1>2, <2>1, <2>4
  <2>5. CASE per = 86400 /\ upt = 1
    BY SMT, <1>2, <2>1, <2>5
  <2>6. CASE per = 86400000 /\ upt = 1
    BY SMT, <1>2, <2>1, <2>6
  <2> QED
    BY SMT, <1>1, <2>2, <2>3, <2>4, <2>5, <2>6
<1>5. HhMmSs(d, second) = HhMmSs(0, second) <=> d = 0
  <2>1. 0 \in Int /\ 0 <= 0
    BY SMT
  <2>2. TodToDuration(HhMmSs(d, second)) = d /\ TodToDuration(HhMmSs(0, second)) = 0
    BY <1>1, <1>4, <2>1, PartsMakeUp
  <2> QED
    BY Zenon, <2>2
<1>6. Ceil(t, per) = IF t = n * per THEN n ELSE n + 1
  <2>1. CASE per = 1
    BY SMT, <1>2, <2>1 DEF Ceil, Cut
  <2>2. CASE per = 24
    BY SMT, <1>2, <2>2 DEF Ceil, Cut
  <2>3. CASE per = 1440
    BY SMT, <1>2, <2>3 DEF Ceil, Cut
  <2>4. CASE per = 86400
    BY SMT, <1>2, <2>4 DEF Ceil, Cut
  <2>5. CASE per = 86400000
    BY SMT, <1>2, <2>5 DEF Ceil, Cut
  <2> QED
    BY SMT, <1>1, <2>1, <2>2, <2>3, <2>4, <2>5
<1>7. Ceil(t, per) = n + (IF HhMmSs(d, second) = HhMmSs(0, second) THEN 0 ELSE 1)
  <2>1. CASE t = n * per
    <3>1. HhMmSs(d, second) = HhMmSs(0, second)
      BY <1>4, <1>5, <2>1
    <3>2. Ceil(t, per) = n + 0
      BY SMT, <1>6, <2>1
    <3> QED
      BY <3>1, <3>2
  <2>2. CASE t # n * per
    <3>1. HhMmSs(d, second) # HhMmSs(0, second)
      BY <1>4, <1>5, <2>2
    <3>2. Ceil(t, per) = n + 1
      BY SMT, <1>6, <2>2
    <3> QED
      BY <3>1, <3>2
  <2> QED
    BY <2>1, <2>2
<1> QED
  BY Zenon, <1>2, <1>3, <1>4, <1>7 DEF per, second

\* At every time of the clock the views of its day agree: each goes back to
\* the day, is ok() when there is such a day and only then, and is in the order
\* of the days; and the time of day is nought exactly when rounding up adds
\* nothing.
THEOREM ViewsAlwaysAgree == Spec => []ViewsAgree
<1>1. ClockInv => ViewsAgree
  <2> SUFFICES ASSUME ClockInv
               PROVE  ViewsAgree
    OBVIOUS
  <2> DEFINE sd == Floor(tp, TicksPerDay(start.unit))
             ymd == FromDays(sd)
             nth == NthWeekdayFromDays(sd)
  <2>1. sd \in Days /\ start.unit \in Units /\ tp \in Int
    BY ClockInRange DEF ClockInv
  <2> HIDE DEF sd
  <2>2. YmdOk(ymd) /\ MonthDayOk(ymd.m, ymd.d) /\ ToDays(ymd) = sd
    BY <2>1, DayHasGoodDate, MonthDayExists
  <2>3. NthAgrees(sd) /\ LastAgrees(sd)
    BY <2>1, NthAgree, LastAgree
  <2>4. InRange(ymd.y + 1) =>
          \A n \in {1, 27, 365} :
            YmdLess(ymd, FromDays(sd + n)) /\ ~YmdLess(FromDays(sd + n), ymd)
    <3>1. \A n \in {1, 27, 365} : n \in 1..365
      BY SMT
    <3> QED
      BY <2>1, <3>1, LaterAgree
  <2>5. \A n \in {1, 5, 7, 300} : WeekdayMinus(WeekdayPlus(nth.wd, n), nth.wd) = n % 7
    <3>1. nth.wd \in 0..6
      <4>1. PICK f, a, b : InMonth(ymd, f, a, b)
        BY <2>1, DayHasGoodDate, MonthPlace
      <4> QED
        BY <2>1, <4>1, NthViewed
    <3> QED
      BY <3>1, WeekdaysAdded
  <2>6. Ceil(tp, TicksPerDay(start.unit)) =
          sd + (IF Now.tod = HhMmSs(0, Second(start.unit)) THEN 0 ELSE 1)
    BY <2>1, CeilAgrees DEF Now, sd
  <2> QED
    BY Zenon, <2>2, <2>3, <2>4, <2>5, <2>6 DEF ViewsAgree, NthAgrees, LastAgrees, sd
<1> QED
  BY <1>1, Inductive, PTL

----------------------------------------------------------------------------
\* format() character by character.

\* The machine's run over the sets of characters in S, each set taken in its order.
RunOver(g, f, zone, fmt, S) ==
  g = [s \in S |-> IF s = {} THEN FormatStart(f)
                   ELSE FormatStep(f, zone, g[s \ {Max(s)}], fmt[Max(s)])]

Run(f, zone, fmt) == CHOOSE g : RunOver(g, f, zone, fmt, SUBSET DOMAIN fmt)

\* format() returns where its machine stands after the last character.
LEMMA FormatIsRun ==
  ASSUME NEW f, NEW zone, NEW fmt
  PROVE  Format(f, zone, fmt) = FormatEnd(Run(f, zone, fmt)[DOMAIN fmt])
BY DEF Format, FoldLeft, MapThenFoldSet, Run, RunOver

\* The largest of a set is the one no other exceeds.
LEMMA LargestOf ==
  ASSUME NEW S, NEW x \in S, x \in Int, \A y \in S : y \in Int /\ y <= x
  PROVE  Max(S) = x
<1> DEFINE Largest(z) == \A y \in S : z >= y
<1>1. x \in S /\ Largest(x)
  BY SMT
<1>2. \A z \in S : Largest(z) => z = x
  BY SMT
<1>3. Max(S) = CHOOSE z \in S : Largest(z)
  BY Zenon DEF Max
<1> HIDE DEF Largest
<1> QED
  BY Zenon, <1>1, <1>2, <1>3

\* One more character: the sets with it start from those without.
LEMMA RunExtends ==
  ASSUME NEW f, NEW zone, NEW fmt, NEW n \in Nat, NEW g,
         RunOver(g, f, zone, fmt, SUBSET (1..n))
  PROVE  \E h : RunOver(h, f, zone, fmt, SUBSET (1..(n + 1)))
<1> DEFINE Old(s) == IF s = {} THEN FormatStart(f)
                     ELSE FormatStep(f, zone, g[s \ {Max(s)}], fmt[Max(s)])
           New(s) == FormatStep(f, zone, g[s \ {n + 1}], fmt[n + 1])
           h == [s \in SUBSET (1..(n + 1)) |-> IF n + 1 \in s THEN New(s) ELSE g[s]]
           Step(s) == IF s = {} THEN FormatStart(f)
                      ELSE FormatStep(f, zone, h[s \ {Max(s)}], fmt[Max(s)])
<1>1. \A s \in SUBSET (1..n) : g[s] = Old(s)
  BY DEF RunOver
<1>2. ASSUME NEW s \in SUBSET (1..(n + 1)), n + 1 \in s
      PROVE  h[s] = Step(s)
  <2>1. Max(s) = n + 1
    <3>1. n + 1 \in Int /\ \A y \in s : y \in Int /\ y <= n + 1
      BY SMT, <1>2
    <3> QED
      BY <1>2, <3>1, LargestOf
  <2>2. s # {} /\ s \ {n + 1} \in SUBSET (1..(n + 1)) /\ n + 1 \notin s \ {n + 1}
    BY <1>2
  <2>3. h[s \ {n + 1}] = g[s \ {n + 1}]
    BY <2>2
  <2> QED
    BY <1>2, <2>1, <2>2, <2>3
<1>3. ASSUME NEW s \in SUBSET (1..(n + 1)), n + 1 \notin s
      PROVE  h[s] = Step(s)
  <2>1. s \in SUBSET (1..n)
    BY SMT, <1>3
  <2>2. h[s] = Old(s)
    BY <1>1, <1>3, <2>1
  <2>3. \A y : s \ {y} \in SUBSET (1..(n + 1)) /\ n + 1 \notin s \ {y}
    BY <1>3
  <2>4. h[s \ {Max(s)}] = g[s \ {Max(s)}]
    BY <2>3
  <2> QED
    BY <2>2, <2>4
<1>4. h = [s \in SUBSET (1..(n + 1)) |-> Step(s)]
  BY <1>2, <1>3
<1> QED
  BY <1>4 DEF RunOver

\* So there is a run, however many characters there are.
LEMMA RunExists ==
  ASSUME NEW f, NEW zone, NEW fmt, NEW n \in Nat
  PROVE  \E g : RunOver(g, f, zone, fmt, SUBSET (1..n))
<1> DEFINE Bad == {k \in Nat : ~ \E g : RunOver(g, f, zone, fmt, SUBSET (1..k))}
           Less == OpToRel(<, Nat)
<1>1. ASSUME Bad # {} PROVE FALSE
  <2>1. PICK k \in Bad : \A j \in Bad : ~(<<j, k>> \in Less)
    BY <1>1, NatLessThanWellFounded, WFMin
  <2>2. \A j \in Nat : j < k => j \notin Bad
    BY <2>1 DEF OpToRel
  <2>3. k # 0
    <3>1. 1..0 = {}
      BY SMT
    <3>2. SUBSET (1..0) = {{}}
      BY <3>1
    <3>3. RunOver([s \in SUBSET (1..0) |-> FormatStart(f)], f, zone, fmt, SUBSET (1..0))
      BY <3>2 DEF RunOver
    <3> QED
      BY <3>3
  <2>4. PICK j \in Nat : k = j + 1 /\ j < k
    <3>1. k \in Nat
      BY <2>1
    <3> QED
      BY SMT, <2>3, <3>1
  <2>5. PICK g : RunOver(g, f, zone, fmt, SUBSET (1..j))
    BY <2>2, <2>4
  <2> QED
    BY <2>1, <2>4, <2>5, RunExtends
<1> QED
  BY <1>1

\* A format of so many characters, and a number after another.
HasLength(fmt, N) == N \in Nat /\ DOMAIN fmt = 1..N
Follows(n, k)     == n \in Nat /\ k \in Nat /\ n = k + 1

Taken(f, zone, fmt, s) ==
  IF s = {} THEN FormatStart(f)
  ELSE FormatStep(f, zone, Run(f, zone, fmt)[s \ {Max(s)}], fmt[Max(s)])

\* The run satisfies its equation: RunExists gives the run that satisfies it.
LEMMA RunIs ==
  ASSUME NEW f, NEW zone, NEW N, NEW fmt, HasLength(fmt, N), NEW s, s \in SUBSET (1..N)
  PROVE  Run(f, zone, fmt)[s] = Taken(f, zone, fmt, s)
<1> DEFINE g == Run(f, zone, fmt)
<1>1. RunOver(g, f, zone, fmt, SUBSET (1..N))
  BY RunExists DEF Run, HasLength
<1> HIDE DEF g
<1>2. g[s] = IF s = {} THEN FormatStart(f)
             ELSE FormatStep(f, zone, g[s \ {Max(s)}], fmt[Max(s)])
  BY <1>1 DEF RunOver
<1> QED
  BY <1>2 DEF g, Taken

\* Before the first character the machine is where it starts.
LEMMA RunStarts ==
  ASSUME NEW f, NEW zone, NEW N, NEW fmt, HasLength(fmt, N)
  PROVE  Run(f, zone, fmt)[{}] = FormatStart(f)
<1>1. Run(f, zone, fmt)[{}] = Taken(f, zone, fmt, {})
  BY RunIs
<1> QED
  BY Zenon, <1>1 DEF Taken

EndsWith(s, rest, n, N) ==
  s \in SUBSET (1..N) /\ s # {} /\ Max(s) = n /\ s \ {n} = rest

\* What the machine does with the last of a set of characters.
LEMMA RunTakes ==
  ASSUME NEW f, NEW zone, NEW N, NEW fmt, HasLength(fmt, N),
         NEW s, NEW rest, NEW n, EndsWith(s, rest, n, N)
  PROVE  Run(f, zone, fmt)[s] = FormatStep(f, zone, Run(f, zone, fmt)[rest], fmt[n])
<1>1. Run(f, zone, fmt)[s] = Taken(f, zone, fmt, s)
  BY RunIs DEF EndsWith
<1> QED
  BY Zenon, <1>1 DEF Taken, EndsWith

\* format() takes the characters one after the other.
LEMMA RunGoesOn ==
  ASSUME NEW f, NEW zone, NEW N, NEW fmt, HasLength(fmt, N),
         NEW n, n \in 1..N, NEW k, Follows(n, k)
  PROVE  Run(f, zone, fmt)[1..n] = FormatStep(f, zone, Run(f, zone, fmt)[1..k], fmt[n])
<1> DEFINE s    == 1..n
           rest == 1..k
<1>1. N \in Nat /\ DOMAIN fmt = 1..N /\ n \in Nat /\ k \in Nat /\ n = k + 1
  BY DEF HasLength, Follows
<1>2. s \in SUBSET (1..N) /\ s # {} /\ s \ {n} = rest
  BY SMT, <1>1
<1>3. Max(s) = n
  <2>1. n \in s /\ n \in Int /\ \A y \in s : y \in Int /\ y <= n
    BY SMT, <1>1
  <2> QED
    BY <2>1, LargestOf
<1> HIDE DEF s, rest
<1>4. Run(f, zone, fmt)[s] = FormatStep(f, zone, Run(f, zone, fmt)[rest], fmt[n])
  <2>1. EndsWith(s, rest, n, N)
    BY <1>2, <1>3 DEF EndsWith
  <2> QED
    BY <2>1, RunTakes
<1> QED
  BY <1>4 DEF s, rest

\* The machine between two characters, for a time that is not negative.
Slots == {"out", "command", "modified", "threw", "insertNegative"}

Settled(s, out) ==
  /\ DOMAIN s = Slots /\ s.out = out
  /\ s.modified = "" /\ ~s.threw /\ ~s.insertNegative

Between(s, out) == Settled(s, out) /\ ~s.command
Opened(s, out)  == Settled(s, out) /\ s.command

\* A percent sign changes nothing but the command.
LEMMA CommandSet ==
  ASSUME NEW s, DOMAIN s = Slots
  PROVE  LET t == [s EXCEPT !.command = TRUE]
         IN  /\ DOMAIN t = Slots /\ t.out = s.out /\ t.command /\ t.modified = s.modified
             /\ t.threw = s.threw /\ t.insertNegative = s.insertNegative
BY SMT DEF Slots

\* Putting text ends a command.
LEMMA TextPut ==
  ASSUME NEW s, NEW out, NEW text, Settled(s, out)
  PROVE  Between([s EXCEPT !.out = text, !.command = FALSE, !.modified = ""], text)
<1> DEFINE t == [s EXCEPT !.out = text, !.command = FALSE, !.modified = ""]
<1>1. DOMAIN s = Slots /\ ~s.threw /\ ~s.insertNegative
  BY DEF Settled
<1>2. /\ DOMAIN t = Slots /\ t.out = text /\ ~t.command /\ t.modified = ""
      /\ t.threw = s.threw /\ t.insertNegative = s.insertNegative
  BY SMT, <1>1 DEF Slots
<1> HIDE DEF t
<1>3. Between(t, text)
  BY Zenon, <1>1, <1>2 DEF Between, Settled
<1> QED
  BY <1>3 DEF t

\* A percent sign opens a command.
LEMMA PercentOpens ==
  ASSUME NEW f, NEW zone, NEW s, NEW out, Between(s, out)
  PROVE  Opened(FormatStep(f, zone, s, "%"), out)
<1>1. FormatStep(f, zone, s, "%") = [s EXCEPT !.command = TRUE]
  BY Zenon DEF FormatStep, Between, Settled
<1>2. Opened([s EXCEPT !.command = TRUE], out)
  BY Zenon, CommandSet DEF Between, Opened, Settled
<1> QED
  BY <1>1, <1>2

\* Text is put at the end.
LEMMA PutIs ==
  ASSUME NEW s, NEW out, NEW text, Settled(s, out)
  PROVE  Between(Put(s, text), out \o text)
<1>1. s.out = out
  BY DEF Settled
<1>2. Put(s, text) = [s EXCEPT !.out = out \o text, !.command = FALSE, !.modified = ""]
  BY <1>1 DEF Put
<1> QED
  BY <1>2, TextPut

\* Outside a command a character is put as it is.
LEMMA LetterStays ==
  ASSUME NEW f, NEW zone, NEW s, NEW out, NEW c, c # "%", Between(s, out)
  PROVE  Between(FormatStep(f, zone, s, c), out \o <<c>>)
<1>1. FormatStep(f, zone, s, c) = Put(s, <<c>>)
  BY Zenon DEF FormatStep, Between, Settled
<1> QED
  BY <1>1, PutIs DEF Between

\* In a command a letter puts its conversion.
LEMMA LetterConverts ==
  ASSUME NEW f, NEW zone, NEW s, NEW out, Opened(s, out),
         NEW c \in {"F", "H", "M", "S"}, Provides(f, zone, c)
  PROVE  Between(FormatStep(f, zone, s, c), out \o ConversionText(f, zone, c, ""))
<1>1. c \notin {"E", "O"} /\ c # "%" /\ c \in Conversions /\ "" \notin Refused(c)
  BY SMT DEF Conversions, Refused
<1>2. WithSign(s, c) = s
  BY Zenon DEF WithSign, Opened, Settled
<1>3. s.modified = ""
  BY DEF Opened, Settled
<1>4. Convert(f, zone, s, c) = Put(WithSign(s, c), ConversionText(f, zone, c, ""))
  BY Zenon, <1>1, <1>3 DEF Convert
<1>5. FormatStep(f, zone, s, c) = Convert(f, zone, s, c)
  BY Zenon, <1>1, <1>3 DEF FormatStep, Opened, Settled
<1> QED
  BY <1>2, <1>4, <1>5, PutIs DEF Opened

\* The format of file names, conversion by conversion.
FileFormat == <<"%", "F", "_", "%", "H", "-", "%", "M", "-", "%", "S">>

\* The name of a file is its date, hour, minute and second, put one after the
\* other with what stands between them.
LEMMA FileFormatRun ==
  ASSUME NEW f, YmdOk(f.ymd), f.hasTod, ~(TodToDuration(f.tod) < 0)
  PROVE  Format(f, UTC, FileFormat).out =
           ((((((<<>> \o DashDate(f.ymd)) \o <<"_">>) \o HourText(f.tod, "H")) \o <<"-">>)
             \o Pad2(f.tod.m)) \o <<"-">>) \o SecondText(f.tod, "")
<1> DEFINE r(n) == Run(f, UTC, FileFormat)[1..n]
           Go(s, c) == FormatStep(f, UTC, s, c)
           o1 == <<>> \o DashDate(f.ymd)
           o2 == o1 \o <<"_">>
           o3 == o2 \o HourText(f.tod, "H")
           o4 == o3 \o <<"-">>
           o5 == o4 \o Pad2(f.tod.m)
           o6 == o5 \o <<"-">>
           o7 == o6 \o SecondText(f.tod, "")
<1>1. DOMAIN FileFormat = 1..11
  BY SMT DEF FileFormat
<1>2. r(0) = FormatStart(f) /\ 1..0 = {} /\ 11 \in Nat
  <2>1. 1..0 = {} /\ 11 \in Nat
    BY SMT
  <2>2. HasLength(FileFormat, 11)
    BY <1>1, <2>1 DEF HasLength
  <2> QED
    BY <2>1, <2>2, RunStarts
<1>3. /\ r(1) = Go(r(0), "%") /\ r(2) = Go(r(1), "F") /\ r(3) = Go(r(2), "_")
      /\ r(4) = Go(r(3), "%") /\ r(5) = Go(r(4), "H") /\ r(6) = Go(r(5), "-")
      /\ r(7) = Go(r(6), "%") /\ r(8) = Go(r(7), "M") /\ r(9) = Go(r(8), "-")
      /\ r(10) = Go(r(9), "%") /\ r(11) = Go(r(10), "S")
  <2>1. ASSUME NEW n \in 1..11, NEW k, k = n - 1
        PROVE  r(n) = Go(r(k), FileFormat[n])
    <3>1. HasLength(FileFormat, 11)
      BY <1>1, <1>2 DEF HasLength
    <3>2. Follows(n, k)
      BY SMT, <2>1 DEF Follows
    <3>3. Run(f, UTC, FileFormat)[1..n] =
            FormatStep(f, UTC, Run(f, UTC, FileFormat)[1..k], FileFormat[n])
      BY <3>1, <3>2, RunGoesOn
    <3> QED
      BY <3>3
  <2> HIDE DEF r, Go
  <2>2. /\ r(1) = Go(r(0), FileFormat[1]) /\ r(2) = Go(r(1), FileFormat[2])
        /\ r(3) = Go(r(2), FileFormat[3]) /\ r(4) = Go(r(3), FileFormat[4])
        /\ r(5) = Go(r(4), FileFormat[5]) /\ r(6) = Go(r(5), FileFormat[6])
        /\ r(7) = Go(r(6), FileFormat[7]) /\ r(8) = Go(r(7), FileFormat[8])
        /\ r(9) = Go(r(8), FileFormat[9]) /\ r(10) = Go(r(9), FileFormat[10])
        /\ r(11) = Go(r(10), FileFormat[11])
    BY SMT, <2>1
  <2>3. /\ FileFormat[1] = "%" /\ FileFormat[2] = "F" /\ FileFormat[3] = "_"
        /\ FileFormat[4] = "%" /\ FileFormat[5] = "H" /\ FileFormat[6] = "-"
        /\ FileFormat[7] = "%" /\ FileFormat[8] = "M" /\ FileFormat[9] = "-"
        /\ FileFormat[10] = "%" /\ FileFormat[11] = "S"
    BY SMT DEF FileFormat
  <2> QED
    BY <2>2, <2>3
<1>4. Between(r(0), <<>>)
  <2>1. Between(FormatStart(f), <<>>)
    <3>1. ~(f.hasTod /\ TodToDuration(f.tod) < 0)
      OBVIOUS
    <3>2. ASSUME NEW b, ~b PROVE
            Between([out |-> <<>>, command |-> FALSE, modified |-> "", threw |-> FALSE,
                     insertNegative |-> b], <<>>)
      BY SMT, <3>2 DEF Between, Settled, Slots
    <3> QED
      BY Zenon, <3>1, <3>2 DEF FormatStart
  <2> QED
    BY <1>2, <2>1
<1>5. /\ Provides(f, UTC, "F") /\ Provides(f, UTC, "H")
      /\ Provides(f, UTC, "M") /\ Provides(f, UTC, "S")
  BY SMT DEF Provides
<1>6. /\ ConversionText(f, UTC, "F", "") = DashDate(f.ymd)
      /\ ConversionText(f, UTC, "H", "") = HourText(f.tod, "H")
      /\ ConversionText(f, UTC, "M", "") = Pad2(f.tod.m)
      /\ ConversionText(f, UTC, "S", "") = SecondText(f.tod, "")
  BY SMT DEF ConversionText, TimeText, DateText
<1> HIDE DEF r
<1>7. Between(r(2), o1) /\ Between(r(3), o2)
  BY <1>3, <1>4, <1>5, <1>6, PercentOpens, LetterConverts, LetterStays
<1> HIDE DEF o2
<1>8. Between(r(5), o3) /\ Between(r(6), o4)
  BY <1>3, <1>7, <1>5, <1>6, PercentOpens, LetterConverts, LetterStays
<1> HIDE DEF o4
<1>9. Between(r(8), o5) /\ Between(r(9), o6)
  BY <1>3, <1>8, <1>5, <1>6, PercentOpens, LetterConverts, LetterStays
<1> HIDE DEF o6
<1>10. Between(r(11), o7)
  BY <1>3, <1>9, <1>5, <1>6, PercentOpens, LetterConverts, LetterStays
<1> HIDE DEF o7
<1>11. Format(f, UTC, FileFormat) = FormatEnd(r(11))
  BY <1>1, FormatIsRun DEF r
<1>12. FormatEnd(r(11)) = r(11) /\ r(11).out = o7
  BY Zenon, <1>10 DEF FormatEnd, Between, Settled
<1> QED
  BY <1>11, <1>12 DEF o2, o4, o6, o7

----------------------------------------------------------------------------
\* The characters of file names, and their texts.
NameChars == {Numerals[i] : i \in 1..10} \cup {"-", "_", "."}

Text == Seq(NameChars)

\* One text before another of the same length: the first character that differs
\* is a digit in both, and smaller in the one.
Before(a, b) ==
  /\ Len(a) = Len(b)
  /\ \E i \in DOMAIN a :
       /\ \A k \in 1..(i - 1) : a[k] = b[k]
       /\ IsDigit(a[i]) /\ IsDigit(b[i])
       /\ DigitValue(a[i]) < DigitValue(b[i])

\* Two texts joined.
LEMMA Joined ==
  ASSUME NEW a, a \in Text, NEW b, b \in Text
  PROVE  /\ a \o b \in Text /\ Len(a) \in Nat /\ Len(b) \in Nat
         /\ DOMAIN a = 1..Len(a) /\ DOMAIN b = 1..Len(b)
         /\ DOMAIN (a \o b) = 1..(Len(a) + Len(b))
         /\ Len(a \o b) = Len(a) + Len(b)
         /\ \A i \in 1..Len(a) : (a \o b)[i] = a[i]
         /\ \A i \in 1..Len(b) : (a \o b)[Len(a) + i] = b[i]
<1>1. /\ a \o b \in Text /\ Len(a) \in Nat /\ Len(b) \in Nat
      /\ DOMAIN a = 1..Len(a) /\ DOMAIN b = 1..Len(b)
      /\ Len(a \o b) = Len(a) + Len(b)
      /\ DOMAIN (a \o b) = 1..Len(a \o b)
  BY SMT DEF Text
<1>2. \A i \in 1..(Len(a) + Len(b)) : (a \o b)[i] = IF i <= Len(a) THEN a[i] ELSE b[i - Len(a)]
  BY ConcatProperties DEF Text
<1> HIDE DEF Text
<1> DEFINE c == a \o b
<1>3. c \in Text /\ Len(c) = Len(a) + Len(b) /\ DOMAIN c = 1..Len(c)
  BY <1>1
<1>4. \A i \in 1..(Len(a) + Len(b)) : c[i] = IF i <= Len(a) THEN a[i] ELSE b[i - Len(a)]
  BY <1>2
<1> HIDE DEF c
<1>5. \A i \in 1..Len(a) : c[i] = a[i]
  BY SMT, <1>1, <1>4
<1>6. \A i \in 1..Len(b) : c[Len(a) + i] = b[i]
  BY SMT, <1>1, <1>4
<1>7. /\ c \in Text /\ Len(c) = Len(a) + Len(b)
      /\ DOMAIN c = 1..(Len(a) + Len(b))
  BY <1>3
<1> QED
  BY <1>1, <1>5, <1>6, <1>7 DEF c

\* What decides stays decided by what follows.
LEMMA BeforeStays ==
  ASSUME NEW a, NEW b, NEW u, NEW v, a \in Text, b \in Text, u \in Text, v \in Text,
         Before(a, b), Len(u) = Len(v)
  PROVE  Before(a \o u, b \o v)
<1> DEFINE c == a \o u
           d == b \o v
<1>1. /\ Len(a) \in Nat /\ Len(c) = Len(a) + Len(u) /\ Len(u) \in Nat
      /\ DOMAIN a = 1..Len(a) /\ DOMAIN c = 1..(Len(a) + Len(u))
      /\ \A i \in 1..Len(a) : c[i] = a[i]
  BY Joined
<1>2. /\ Len(d) = Len(b) + Len(v)
      /\ \A i \in 1..Len(b) : d[i] = b[i]
  BY Joined
<1> HIDE DEF c, d
<1>3. Len(a) = Len(b)
  BY DEF Before
<1>4. PICK i \in DOMAIN a :
        /\ \A k \in 1..(i - 1) : a[k] = b[k]
        /\ IsDigit(a[i]) /\ IsDigit(b[i])
        /\ DigitValue(a[i]) < DigitValue(b[i])
  BY Zenon DEF Before
<1>5. Len(c) = Len(d)
  BY <1>1, <1>2, <1>3
<1>6. i \in DOMAIN c /\ c[i] = a[i] /\ d[i] = b[i]
  BY SMT, <1>1, <1>2, <1>3, <1>4
<1>7. \A k \in 1..(i - 1) : c[k] = d[k]
  <2>1. \A k \in 1..(i - 1) : k \in 1..Len(a)
    BY SMT, <1>1, <1>4
  <2> QED
    BY <1>1, <1>2, <1>3, <1>4, <2>1
<1>8. Before(c, d)
  BY Zenon, <1>4, <1>5, <1>6, <1>7 DEF Before
<1> QED
  BY <1>8 DEF c, d

\* What is the same leaves the decision to what follows.
LEMMA BeforeFollows ==
  ASSUME NEW a, NEW u, NEW v, a \in Text, u \in Text, v \in Text, Before(u, v)
  PROVE  Before(a \o u, a \o v)
<1> DEFINE c == a \o u
           d == a \o v
<1>1. /\ Len(a) \in Nat /\ Len(c) = Len(a) + Len(u) /\ Len(u) \in Nat
      /\ DOMAIN u = 1..Len(u) /\ DOMAIN c = 1..(Len(a) + Len(u))
      /\ \A i \in 1..Len(a) : c[i] = a[i]
      /\ \A i \in 1..Len(u) : c[Len(a) + i] = u[i]
  BY Joined
<1>2. /\ Len(d) = Len(a) + Len(v)
      /\ \A i \in 1..Len(a) : d[i] = a[i]
      /\ \A i \in 1..Len(v) : d[Len(a) + i] = v[i]
  BY Joined
<1> HIDE DEF c, d
<1>3. Len(u) = Len(v)
  BY DEF Before
<1>4. PICK i \in DOMAIN u :
        /\ \A k \in 1..(i - 1) : u[k] = v[k]
        /\ IsDigit(u[i]) /\ IsDigit(v[i])
        /\ DigitValue(u[i]) < DigitValue(v[i])
  BY Zenon DEF Before
<1>5. Len(c) = Len(d)
  BY <1>1, <1>2, <1>3
<1>6. PICK j : j = Len(a) + i
  OBVIOUS
<1>7. j \in DOMAIN c /\ c[j] = u[i] /\ d[j] = v[i]
  BY SMT, <1>1, <1>2, <1>3, <1>4, <1>6
<1>8. \A k \in 1..(j - 1) : c[k] = d[k]
  <2> SUFFICES ASSUME NEW k \in 1..(j - 1) PROVE c[k] = d[k]
    OBVIOUS
  <2>1. CASE k <= Len(a)
    <3>1. k \in 1..Len(a)
      BY SMT, <2>1, <1>1, <1>6
    <3> QED
      BY <1>1, <1>2, <3>1
  <2>2. CASE k > Len(a)
    <3>1. PICK l : l = k - Len(a)
      OBVIOUS
    <3>2. k = Len(a) + l /\ l \in 1..(i - 1) /\ l \in 1..Len(u)
      BY SMT, <2>2, <3>1, <1>1, <1>4, <1>6
    <3> QED
      BY <1>1, <1>2, <1>3, <1>4, <3>2
  <2>3. k <= Len(a) \/ k > Len(a)
    BY SMT, <1>1, <1>4, <1>6
  <2> QED
    BY <2>1, <2>2, <2>3
<1>9. Before(c, d)
  BY Zenon, <1>4, <1>5, <1>7, <1>8 DEF Before
<1> QED
  BY <1>9 DEF c, d

\* The numerals are the digits, each of its value.
LEMMA NumeralsAreDigits ==
  ASSUME NEW d \in 0..9, NEW k, k = d + 1
  PROVE  /\ IsDigit(Numerals[k]) /\ DigitValue(Numerals[k]) = d
         /\ Numerals[k] \in NameChars
<1>1. k \in 1..10
  BY SMT
<1>2. \A i \in 1..10 : Numerals[i] = Numerals[k] => i = k
  BY SMT, <1>1 DEF Numerals
<1>3. (CHOOSE i \in 1..10 : Numerals[i] = Numerals[k]) = k
  BY <1>1, <1>2
<1>4. DigitValue(Numerals[k]) = k - 1
  BY <1>3 DEF DigitValue
<1>5. IsDigit(Numerals[k])
  BY <1>1 DEF IsDigit
<1>6. Numerals[k] \in NameChars
  BY <1>1 DEF NameChars
<1>7. k - 1 = d
  BY SMT
<1> QED
  BY <1>4, <1>5, <1>6, <1>7

----------------------------------------------------------------------------
Ten(j) == 10^j

\* The powers of ten that the widths need.
LEMMA PowersOfTen ==
  /\ Ten(0) = 1 /\ Ten(1) = 10 /\ Ten(2) = 100 /\ Ten(3) = 1000 /\ Ten(4) = 10000
  /\ Ten(5) = 100000 /\ Ten(6) = 1000000 /\ Ten(7) = 10000000 /\ Ten(8) = 100000000
  /\ Ten(9) = 1000000000
BY SMT DEF Ten

\* A number of at most four digits.
Small(n) == n <= 9999

\* The digit of n that stands for 10^j.
Digit(n, j) == (n \div Ten(j)) % 10

\* A digit is one of ten.
LEMMA DigitKnown ==
  ASSUME NEW n \in Nat, Small(n), NEW j \in 0..3
  PROVE  Digit(n, j) \in 0..9
<1>1. PICK d \in Nat \ {0} : d = Ten(j)
  BY SMT, PowersOfTen
<1> QED
  BY SMT, <1>1 DEF Digit

\* Whether a number has so many digits.
Fits(n, i) == n < Ten(i) /\ (i = 1 \/ n >= Ten(i - 1))

IsCount(n, k) == k = CHOOSE i \in 1..9 : Fits(n, i)

\* A number of at most four digits has so many.
LEMMA DigitsFound ==
  ASSUME NEW n \in Nat, Small(n)
  PROVE  \E k \in 1..4 : Fits(n, k)
<1>1. CASE n < 10
  BY SMT, <1>1, PowersOfTen DEF Fits, Small
<1>2. CASE 10 <= n /\ n < 100
  BY SMT, <1>2, PowersOfTen DEF Fits, Small
<1>3. CASE 100 <= n /\ n < 1000
  BY SMT, <1>3, PowersOfTen DEF Fits, Small
<1>4. CASE 1000 <= n
  <2>1. 4 \in 1..4 /\ Fits(n, 4)
    BY SMT, <1>4, PowersOfTen DEF Fits, Small
  <2> QED
    BY <2>1
<1> QED
  BY SMT, <1>1, <1>2, <1>3, <1>4

\* What a number of so many digits can be.
LEMMA FitsBounds ==
  ASSUME NEW n \in Nat, Small(n), NEW k \in 1..9, Fits(n, k)
  PROVE  \/ k = 1 /\ n < 10
         \/ k = 2 /\ 10 <= n /\ n < 100
         \/ k = 3 /\ 100 <= n /\ n < 1000
         \/ k = 4 /\ 1000 <= n
<1>1. CASE k = 1
  BY SMT, <1>1, PowersOfTen DEF Fits, Small
<1>2. CASE k = 2
  BY SMT, <1>2, PowersOfTen DEF Fits, Small
<1>3. CASE k = 3
  BY SMT, <1>3, PowersOfTen DEF Fits, Small
<1>4. CASE k = 4
  BY SMT, <1>4, PowersOfTen DEF Fits, Small
<1>5. CASE k >= 5
  <2>1. Ten(k - 1) \in Int /\ Ten(k - 1) >= 10000
    BY SMT, <1>5, PowersOfTen
  <2> QED
    BY SMT, <1>5, <2>1 DEF Fits, Small
<1> QED
  BY SMT, <1>1, <1>2, <1>3, <1>4, <1>5 DEF Small

\* It has them once: the count is the only one that fits.
LEMMA DigitsCounted ==
  ASSUME NEW n \in Nat, Small(n)
  PROVE  \E k \in 1..4 : Fits(n, k) /\ IsCount(n, k)
<1>1. PICK k \in 1..4 : Fits(n, k)
  BY DigitsFound
<1>2. k \in 1..9
  BY SMT
<1>3. ASSUME NEW i \in 1..9, Fits(n, i) PROVE i = k
  <2>1. \/ k = 1 /\ n < 10
        \/ k = 2 /\ 10 <= n /\ n < 100
        \/ k = 3 /\ 100 <= n /\ n < 1000
        \/ k = 4 /\ 1000 <= n
    BY <1>1, <1>2, FitsBounds
  <2>2. \/ i = 1 /\ n < 10
        \/ i = 2 /\ 10 <= n /\ n < 100
        \/ i = 3 /\ 100 <= n /\ n < 1000
        \/ i = 4 /\ 1000 <= n
    BY <1>3, FitsBounds
  <2> QED
    BY SMT, <2>1, <2>2
<1> QED
  BY <1>1, <1>2, <1>3 DEF IsCount

\* Above its digits a number has only noughts.
LEMMA NoHigherDigits ==
  ASSUME NEW n \in Nat, Small(n), NEW k \in 1..4, Fits(n, k), NEW j \in 0..3, k <= j
  PROVE  Digit(n, j) = 0
<1>0. k \in 1..9
  BY SMT
<1>1. \/ k = 1 /\ n < 10
      \/ k = 2 /\ 10 <= n /\ n < 100
      \/ k = 3 /\ 100 <= n /\ n < 1000
      \/ k = 4 /\ 1000 <= n
  BY <1>0, FitsBounds
<1>2. CASE j = 1
  BY SMT, <1>1, <1>2, PowersOfTen DEF Digit
<1>3. CASE j = 2
  BY SMT, <1>1, <1>3, PowersOfTen DEF Digit
<1>4. CASE j = 3
  BY SMT, <1>1, <1>4, PowersOfTen DEF Digit
<1> QED
  BY SMT, <1>2, <1>3, <1>4

\* A text of so many characters.
TextOf(text, k) == text \in Text /\ Len(text) = k

\* A number written with w digits.
Shows(text, w, n) ==
  /\ TextOf(text, w)
  /\ \A i \in 1..w : text[i] = Numerals[Digit(n, w - i) + 1]

IsJoined(c, a, k, b, l) ==
  /\ TextOf(c, k + l)
  /\ \A i \in 1..k : c[i] = a[i]
  /\ \A i \in 1..l : c[k + i] = b[i]

\* Two texts of known lengths joined.
LEMMA JoinedTexts ==
  ASSUME NEW a, NEW k, TextOf(a, k), NEW b, NEW l, TextOf(b, l)
  PROVE  IsJoined(a \o b, a, k, b, l)
<1>1. a \in Text /\ b \in Text
  BY DEF TextOf
<1>2. /\ a \o b \in Text /\ Len(a) \in Nat /\ Len(b) \in Nat
      /\ Len(a \o b) = Len(a) + Len(b)
      /\ \A i \in 1..Len(a) : (a \o b)[i] = a[i]
      /\ \A i \in 1..Len(b) : (a \o b)[Len(a) + i] = b[i]
  BY <1>1, Joined
<1> QED
  BY <1>2 DEF TextOf, IsJoined

\* A text and its fill.
IsFill(fill, k, c) == fill = [i \in 1..k |-> c]

\* A text padded is its fill and the text.
LEMMA FillIs ==
  ASSUME NEW text, NEW w, NEW c, NEW k, NEW fill, w - Len(text) = k, IsFill(fill, k, c)
  PROVE  Padded(text, w, c) = fill \o text
BY Zenon DEF Padded, IsFill

\* A fill of noughts is a text of noughts.
LEMMA ZerosAre ==
  ASSUME NEW z \in Nat, NEW fill, IsFill(fill, z, "0")
  PROVE  TextOf(fill, z) /\ \A i \in 1..z : fill[i] = Numerals[1]
<1>1. Numerals[1] = "0" /\ "0" \in NameChars
  <2>1. Numerals[1] = "0" /\ 1 \in 1..10
    BY SMT DEF Numerals
  <2> QED
    BY <2>1 DEF NameChars
<1>2. fill \in Text /\ Len(fill) = z /\ \A i \in 1..z : fill[i] = "0"
  BY <1>1 DEF Text, IsFill
<1> QED
  BY <1>1, <1>2 DEF TextOf

IsSum(w, z, k) == w \in Nat /\ w = z + k

\* A text filled up to a width with noughts.
LEMMA ZerosFill ==
  ASSUME NEW text, NEW k \in Nat, TextOf(text, k), NEW z \in Nat, NEW w, IsSum(w, z, k)
  PROVE  /\ TextOf(Padded(text, w, "0"), w)
         /\ \A i \in 1..z : Padded(text, w, "0")[i] = Numerals[1]
         /\ \A j \in 1..k : Padded(text, w, "0")[z + j] = text[j]
<1>1. PICK fill : IsFill(fill, z, "0")
  BY DEF IsFill
<1>2. w - Len(text) = z
  <2>1. Len(text) = k
    BY DEF TextOf
  <2> QED
    BY SMT, <2>1 DEF IsSum
<1>3. Padded(text, w, "0") = fill \o text
  BY <1>1, <1>2, FillIs
<1>4. TextOf(fill, z) /\ \A i \in 1..z : fill[i] = Numerals[1]
  BY <1>1, ZerosAre
<1>5. /\ TextOf(fill \o text, z + k)
      /\ \A i \in 1..z : (fill \o text)[i] = fill[i]
      /\ \A i \in 1..k : (fill \o text)[z + i] = text[i]
  <2>1. IsJoined(fill \o text, fill, z, text, k)
    BY <1>4, JoinedTexts
  <2> QED
    BY <2>1 DEF IsJoined
<1> QED
  BY <1>3, <1>4, <1>5 DEF IsSum

\* The digits of a number, and no more.
LEMMA DecimalIs ==
  ASSUME NEW n \in Nat, Small(n), NEW k \in 1..4, IsCount(n, k)
  PROVE  Shows(Decimal(n), k, n)
<1> DEFINE Figure(i) == Numerals[((n \div 10^(k - i)) % 10) + 1]
           digits    == [i \in 1..k |-> Figure(i)]
<1>1. Decimal(n) = digits
  <2> DEFINE Count    == CHOOSE i \in 1..9 : Fits(n, i)
             Text1(c) == [i \in 1..c |-> Numerals[((n \div 10^(c - i)) % 10) + 1]]
  <2>1. Decimal(n) = Text1(Count)
    BY Zenon DEF Decimal, Fits, Ten
  <2>2. Text1(k) = digits
    BY Zenon
  <2> HIDE DEF Text1
  <2>3. Count = k
    BY Zenon DEF IsCount
  <2> HIDE DEF Count, digits
  <2> QED
    BY Zenon, <2>1, <2>2, <2>3
<1>2. ASSUME NEW i \in 1..k
      PROVE  Figure(i) = Numerals[Digit(n, k - i) + 1] /\ Figure(i) \in NameChars
  <2>1. k - i \in 0..3
    BY SMT
  <2>2. Digit(n, k - i) \in 0..9
    BY <2>1, DigitKnown
  <2>3. Numerals[Digit(n, k - i) + 1] \in NameChars
    BY <2>2, NumeralsAreDigits
  <2>4. Figure(i) = Numerals[Digit(n, k - i) + 1]
    BY Zenon DEF Digit, Ten
  <2> HIDE DEF Figure
  <2> QED
    BY <2>3, <2>4
<1> HIDE DEF Figure
<1>3. digits \in Text /\ Len(digits) = k /\ \A i \in 1..k : digits[i] = Figure(i)
  BY <1>2 DEF Text
<1> HIDE DEF digits
<1>4. \A i \in 1..k : digits[i] = Numerals[Digit(n, k - i) + 1]
  BY <1>2, <1>3
<1>5. Shows(digits, k, n)
  BY <1>3, <1>4 DEF Shows, TextOf
<1> QED
  BY <1>1, <1>5

\* A number has no more digits than the width that holds it.
LEMMA WidthHolds ==
  ASSUME NEW n \in Nat, Small(n), NEW k \in 1..4, Fits(n, k),
         NEW w \in 2..4, n < Ten(w)
  PROVE  k <= w
<1>1. k \in 1..9
  BY SMT
<1>2. \/ k = 1 /\ n < 10
      \/ k = 2 /\ 10 <= n /\ n < 100
      \/ k = 3 /\ 100 <= n /\ n < 1000
      \/ k = 4 /\ 1000 <= n
  BY <1>1, FitsBounds
<1>3. w = 2 => n < 100
  BY SMT, PowersOfTen
<1>4. w = 3 => n < 1000
  BY SMT, PowersOfTen
<1> QED
  BY SMT, <1>2, <1>3, <1>4

\* Filling up with zeros gives a text of the width.
LEMMA NumberPadded ==
  ASSUME NEW w \in 2..4, NEW n \in Nat, Small(n), n < Ten(w)
  PROVE  Shows(Padded(Decimal(n), w, "0"), w, n)
<1>1. PICK k \in 1..4 : Fits(n, k) /\ IsCount(n, k)
  BY DigitsCounted
<1>2. PICK z \in Nat : w = z + k
  <2>1. k <= w
    BY <1>1, WidthHolds
  <2> QED
    BY SMT, <2>1
<1> DEFINE digits == Decimal(n)
           text   == Padded(digits, w, "0")
<1>3. Shows(digits, k, n)
  BY <1>1, DecimalIs
<1> HIDE DEF digits
<1>4. k \in Nat /\ k \in 1..4
  BY SMT
<1>5. /\ TextOf(text, w)
      /\ \A i \in 1..z : text[i] = Numerals[1]
      /\ \A j \in 1..k : text[z + j] = digits[j]
  BY <1>2, <1>3, <1>4, ZerosFill DEF Shows, IsSum
<1> HIDE DEF text
<1>6. ASSUME NEW i \in 1..w PROVE text[i] = Numerals[Digit(n, w - i) + 1]
  <2>1. CASE i <= z
    <3>1. PICK j : j = w - i
      OBVIOUS
    <3>2. j \in 0..3 /\ k <= j /\ i \in 1..z
      BY SMT, <1>2, <1>4, <2>1, <3>1
    <3>3. Digit(n, j) = 0
      BY <1>1, <3>2, NoHigherDigits
    <3>4. Digit(n, j) + 1 = 1
      BY SMT, <3>3
    <3> QED
      BY <1>5, <3>1, <3>2, <3>4
  <2>2. CASE i > z
    <3>1. PICK j : j = i - z
      OBVIOUS
    <3>2. j \in 1..k /\ i = z + j /\ k - j = w - i
      BY SMT, <1>2, <1>4, <2>2, <3>1
    <3>3. text[i] = digits[j]
      BY <1>5, <3>2
    <3>4. digits[j] = Numerals[Digit(n, k - j) + 1]
      BY <1>3, <3>2 DEF Shows
    <3> QED
      BY <3>2, <3>3, <3>4
  <2> QED
    BY SMT, <1>2, <2>1, <2>2
<1>7. Shows(text, w, n)
  BY <1>5, <1>6 DEF Shows
<1> QED
  BY <1>7 DEF text, digits

\* The last digit and the rest.
LEMMA LastDigit ==
  ASSUME NEW n \in Nat
  PROVE  \E q \in Nat, d \in 0..9 : n = 10 * q + d
<1>1. PICK q \in Nat : q = n \div 10
  BY SMT
<1>2. PICK d \in 0..9 : d = n % 10
  BY SMT
<1>3. n = 10 * q + d
  BY SMT, <1>1, <1>2
<1> QED
  BY <1>3

\* A number is made up of its digits.
MadeUp(n, a, b, c, d) ==
  /\ a \in 0..9 /\ b \in 0..9 /\ c \in 0..9 /\ d \in 0..9
  /\ a = Digit(n, 3) /\ b = Digit(n, 2) /\ c = Digit(n, 1) /\ d = Digit(n, 0)
  /\ n = 1000 * a + 100 * b + 10 * c + d

\* A number is the sum of its digits, each for its power of ten.
LEMMA DigitsMakeUp ==
  ASSUME NEW n \in Nat, Small(n)
  PROVE  \E a, b, c, d \in 0..9 : MadeUp(n, a, b, c, d)
<1>1. PICK q1 \in Nat, d0 \in 0..9 : n = 10 * q1 + d0
  BY LastDigit
<1>2. PICK q2 \in Nat, d1 \in 0..9 : q1 = 10 * q2 + d1
  BY LastDigit
<1>3. PICK d3 \in Nat, d2 \in 0..9 : q2 = 10 * d3 + d2
  BY LastDigit
<1>4. 0 <= d3 /\ d3 <= 9
  BY SMT, <1>1, <1>2, <1>3 DEF Small
<1>5. n = 1000 * d3 + 100 * d2 + 10 * d1 + d0
  BY SMT, <1>1, <1>2, <1>3
<1>6. Digit(n, 0) = d0
  BY SMT, <1>1, PowersOfTen DEF Digit
<1>7. Digit(n, 1) = d1
  BY SMT, <1>1, <1>2, PowersOfTen DEF Digit
<1>8. Digit(n, 2) = d2
  <2>1. n \div 100 = q2
    BY SMT, <1>1, <1>2, <1>3
  <2> QED
    BY SMT, <1>3, <2>1, PowersOfTen DEF Digit
<1>9. Digit(n, 3) = d3
  <2>1. n \div 1000 = d3
    BY SMT, <1>1, <1>2, <1>3, <1>4, <1>5
  <2> QED
    BY SMT, <1>4, <2>1, PowersOfTen DEF Digit
<1>10. d3 \in 0..9
  BY SMT, <1>4
<1>11. MadeUp(n, d3, d2, d1, d0)
  BY <1>5, <1>6, <1>7, <1>8, <1>9, <1>10 DEF MadeUp
<1> QED
  BY <1>10, <1>11

\* Of two numbers the smaller has the smaller digit where they differ first.
LEMMA DigitsDecide ==
  ASSUME NEW x \in Nat, Small(x), NEW y \in Nat, Small(y), x < y, NEW w \in 2..4, y < Ten(w)
  PROVE  \E j \in 0..3 :
           /\ j < w /\ Digit(x, j) < Digit(y, j)
           /\ \A l \in 0..3 : j < l => Digit(x, l) = Digit(y, l)
<1>1. PICK a \in 0..9, b \in 0..9, c \in 0..9, d \in 0..9 : MadeUp(x, a, b, c, d)
  BY DigitsMakeUp
<1>2. PICK p \in 0..9, q \in 0..9, r \in 0..9, s \in 0..9 : MadeUp(y, p, q, r, s)
  BY DigitsMakeUp
<1>3. \/ a < p
      \/ a = p /\ b < q
      \/ a = p /\ b = q /\ c < r
      \/ a = p /\ b = q /\ c = r /\ d < s
  <2>1. /\ x = 1000 * a + 100 * b + 10 * c + d
        /\ y = 1000 * p + 100 * q + 10 * r + s
    BY SMT, <1>1, <1>2 DEF MadeUp
  <2>2. a <= p
    BY SMT, <2>1
  <2>3. a = p => b <= q
    BY SMT, <2>1
  <2>4. a = p /\ b = q => c <= r
    BY SMT, <2>1
  <2>5. a = p /\ b = q /\ c = r => d < s
    BY SMT, <2>1
  <2> QED
    BY SMT, <2>2, <2>3, <2>4, <2>5
<1>4. /\ w = 2 => p = 0 /\ q = 0
      /\ w = 3 => p = 0
  <2>1. (w = 2 => y < 100) /\ (w = 3 => y < 1000)
    BY SMT, PowersOfTen
  <2> QED
    BY SMT, <1>2, <2>1 DEF MadeUp
<1>5. CASE a < p
  <2>1. 3 < w /\ Digit(x, 3) < Digit(y, 3)
    <3>1. 3 < w
      BY SMT, <1>4, <1>5
    <3>2. Digit(x, 3) < Digit(y, 3)
      BY SMT, <1>1, <1>2, <1>5 DEF MadeUp
    <3> QED
      BY <3>1, <3>2
  <2>2. \A l \in 0..3 : 3 < l => Digit(x, l) = Digit(y, l)
    BY SMT
  <2> QED
    BY SMT, <2>1, <2>2
<1>6. CASE a = p /\ b < q
  <2>1. 2 < w /\ Digit(x, 2) < Digit(y, 2)
    <3>1. 2 < w
      BY SMT, <1>4, <1>6
    <3>2. Digit(x, 2) < Digit(y, 2)
      BY SMT, <1>1, <1>2, <1>6 DEF MadeUp
    <3> QED
      BY <3>1, <3>2
  <2>2. \A l \in 0..3 : 2 < l => Digit(x, l) = Digit(y, l)
    BY SMT, <1>1, <1>2, <1>6 DEF MadeUp
  <2> QED
    BY SMT, <2>1, <2>2
<1>7. CASE a = p /\ b = q /\ c < r
  <2>1. 1 < w /\ Digit(x, 1) < Digit(y, 1)
    BY SMT, <1>1, <1>2, <1>4, <1>7 DEF MadeUp
  <2>2. \A l \in 0..3 : 1 < l => Digit(x, l) = Digit(y, l)
    BY SMT, <1>1, <1>2, <1>7 DEF MadeUp
  <2> QED
    BY SMT, <2>1, <2>2
<1>8. CASE a = p /\ b = q /\ c = r /\ d < s
  <2>1. 0 < w /\ Digit(x, 0) < Digit(y, 0)
    BY SMT, <1>1, <1>2, <1>4, <1>8 DEF MadeUp
  <2>2. \A l \in 0..3 : 0 < l => Digit(x, l) = Digit(y, l)
    BY SMT, <1>1, <1>2, <1>8 DEF MadeUp
  <2> QED
    BY SMT, <2>1, <2>2
<1> QED
  BY <1>3, <1>5, <1>6, <1>7, <1>8

\* Written with the same width, the smaller number is before the other.
LEMMA NumbersInOrder ==
  ASSUME NEW x \in Nat, Small(x), NEW y \in Nat, Small(y), x < y, NEW w \in 2..4, y < Ten(w),
         NEW s, NEW t, Shows(s, w, x), Shows(t, w, y)
  PROVE  Before(s, t)
<1>1. PICK j \in 0..3 :
        /\ j < w /\ Digit(x, j) < Digit(y, j)
        /\ \A l \in 0..3 : j < l => Digit(x, l) = Digit(y, l)
  BY DigitsDecide
<1>2. PICK i \in 1..w : i = w - j
  BY SMT, <1>1
<1>3. /\ s \in Text /\ Len(s) = w /\ Len(t) = w
      /\ \A k \in 1..w : s[k] = Numerals[Digit(x, w - k) + 1]
      /\ \A k \in 1..w : t[k] = Numerals[Digit(y, w - k) + 1]
  BY DEF Shows, TextOf
<1>4. i \in DOMAIN s
  <2>1. DOMAIN s = 1..Len(s)
    BY <1>3 DEF Text
  <2> QED
    BY <1>2, <1>3, <2>1
<1>5. ASSUME NEW k \in 1..(i - 1) PROVE s[k] = t[k]
  <2>1. PICK l \in 0..3 : l = w - k
    BY SMT, <1>2
  <2>2. j < l /\ k \in 1..w
    BY SMT, <1>2, <2>1
  <2>3. Digit(x, l) = Digit(y, l)
    BY <1>1, <2>2
  <2> QED
    BY <1>3, <2>1, <2>2, <2>3
<1>6. w - i = j
  BY SMT, <1>2
<1>7. /\ s[i] = Numerals[Digit(x, j) + 1] /\ t[i] = Numerals[Digit(y, j) + 1]
  BY <1>3, <1>6
<1>8. Digit(x, j) \in 0..9 /\ Digit(y, j) \in 0..9
  BY DigitKnown
<1>9. /\ IsDigit(s[i]) /\ DigitValue(s[i]) = Digit(x, j)
      /\ IsDigit(t[i]) /\ DigitValue(t[i]) = Digit(y, j)
  BY <1>7, <1>8, NumeralsAreDigits
<1>10. DigitValue(s[i]) < DigitValue(t[i])
  BY <1>1, <1>9
<1> QED
  BY Zenon, <1>3, <1>4, <1>5, <1>9, <1>10 DEF Before

----------------------------------------------------------------------------
\* Texts of one length.
SameLength(a, b) == a \in Text /\ b \in Text /\ Len(a) = Len(b)

\* Joining texts of one length gives texts of one length.
LEMMA SameJoin ==
  ASSUME NEW a, NEW b, SameLength(a, b), NEW u, NEW v, SameLength(u, v)
  PROVE  SameLength(a \o u, b \o v)
<1>1. a \in Text /\ b \in Text /\ u \in Text /\ v \in Text
  BY DEF SameLength
<1>2. /\ a \o u \in Text /\ Len(a \o u) = Len(a) + Len(u)
      /\ b \o v \in Text /\ Len(b \o v) = Len(b) + Len(v)
  BY <1>1, Joined
<1> QED
  BY <1>2 DEF SameLength

\* BeforeStays and BeforeFollows, for texts of one length.
LEMMA BeforeJoin ==
  ASSUME NEW a, NEW b, SameLength(a, b), NEW u, NEW v, SameLength(u, v), Before(a, b)
  PROVE  Before(a \o u, b \o v)
BY BeforeStays DEF SameLength

\* The same first text leaves the decision to the second.
LEMMA JoinBefore ==
  ASSUME NEW a, a \in Text, NEW u, NEW v, SameLength(u, v), Before(u, v)
  PROVE  Before(a \o u, a \o v)
BY BeforeFollows DEF SameLength

\* A text that is the same in both.
LEMMA SameText ==
  ASSUME NEW a, a \in Text
  PROVE  SameLength(a, a)
BY DEF SameLength

\* What stands between the numbers is text.
LEMMA Punctuation ==
  /\ <<>> \in Text /\ <<"-">> \in Text /\ <<"_">> \in Text /\ <<".">> \in Text
<1>1. "-" \in NameChars /\ "_" \in NameChars /\ "." \in NameChars
  BY DEF NameChars
<1>2. ASSUME NEW S, NEW c \in S PROVE <<c>> \in Seq(S)
  OBVIOUS
<1>3. \A S : <<>> \in Seq(S)
  OBVIOUS
<1> QED
  BY Zenon, <1>1, <1>2, <1>3 DEF Text

\* The numbers of names.
TwoDigits(n)   == n \in Nat /\ n <= 99
ThreeDigits(n) == n \in Nat /\ n <= 999
WholeYear(n)  == n \in Nat /\ Small(n)

\* A number that is not negative has no sign.
LEMMA NoSign ==
  ASSUME NEW n \in Nat
  PROVE  Signed(n) = Decimal(n)
<1>1. ~(n < 0)
  BY SMT
<1> QED
  BY Zenon, <1>1 DEF Signed

\* Each width holds the numbers it is used for.
LEMMA Widths ==
  /\ \A n : TwoDigits(n) => n \in Nat /\ Small(n) /\ n < Ten(2)
  /\ \A n : ThreeDigits(n) => n \in Nat /\ Small(n) /\ n < Ten(3)
  /\ \A n : WholeYear(n) => n \in Nat /\ Small(n) /\ n < Ten(4)
  /\ 2 \in 2..4 /\ 3 \in 2..4 /\ 4 \in 2..4
<1>1. ASSUME NEW n \in Nat, TwoDigits(n) PROVE Small(n) /\ n < Ten(2)
  BY SMT, <1>1, PowersOfTen DEF TwoDigits, Small
<1>2. ASSUME NEW n \in Nat, ThreeDigits(n) PROVE Small(n) /\ n < Ten(3)
  BY SMT, <1>2, PowersOfTen DEF ThreeDigits, Small
<1>3. ASSUME NEW n \in Nat, WholeYear(n) PROVE Small(n) /\ n < Ten(4)
  BY SMT, <1>3, PowersOfTen DEF WholeYear, Small
<1>4. \A n : TwoDigits(n) \/ ThreeDigits(n) \/ WholeYear(n) => n \in Nat
  BY DEF TwoDigits, ThreeDigits, WholeYear
<1>5. 2 \in 2..4 /\ 3 \in 2..4 /\ 4 \in 2..4
  BY SMT
<1> QED
  BY <1>1, <1>2, <1>3, <1>4, <1>5

\* Two numbers filled up to one width have texts of one length, in their order.
LEMMA ShownNumbers ==
  ASSUME NEW w, w \in 2..4, NEW x, x \in Nat, Small(x), x < Ten(w),
         NEW y, y \in Nat, Small(y), y < Ten(w)
  PROVE  /\ SameLength(Padded(Decimal(x), w, "0"), Padded(Decimal(y), w, "0"))
         /\ x < y => Before(Padded(Decimal(x), w, "0"), Padded(Decimal(y), w, "0"))
<1> DEFINE s == Padded(Decimal(x), w, "0")
           t == Padded(Decimal(y), w, "0")
<1>1. Shows(s, w, x) /\ Shows(t, w, y)
  BY NumberPadded
<1> HIDE DEF s, t
<1>2. SameLength(s, t)
  BY <1>1 DEF Shows, TextOf, SameLength
<1>3. x < y => Before(s, t)
  BY <1>1, NumbersInOrder
<1> QED
  BY <1>2, <1>3 DEF s, t

\* Two digits: months, days, hours, minutes and seconds.
LEMMA PairsInOrder ==
  ASSUME NEW x, TwoDigits(x), NEW y, TwoDigits(y)
  PROVE  SameLength(Pad2(x), Pad2(y)) /\ (x < y => Before(Pad2(x), Pad2(y)))
<1>1. Pad2(x) = Padded(Decimal(x), 2, "0") /\ Pad2(y) = Padded(Decimal(y), 2, "0")
  BY Widths, NoSign DEF Pad2
<1> QED
  BY <1>1, Widths, ShownNumbers

\* Four digits: years.
LEMMA YearsInOrder ==
  ASSUME NEW x, WholeYear(x), NEW y, WholeYear(y)
  PROVE  /\ SameLength(Padded(Signed(x), 4, "0"), Padded(Signed(y), 4, "0"))
         /\ x < y => Before(Padded(Signed(x), 4, "0"), Padded(Signed(y), 4, "0"))
<1>1. Signed(x) = Decimal(x) /\ Signed(y) = Decimal(y)
  BY Widths, NoSign
<1> QED
  BY <1>1, Widths, ShownNumbers

\* Three digits: milliseconds.
LEMMA FractionsInOrder ==
  ASSUME NEW x, ThreeDigits(x), NEW y, ThreeDigits(y)
  PROVE  /\ SameLength(Padded(Decimal(x), 3, "0"), Padded(Decimal(y), 3, "0"))
         /\ x < y => Before(Padded(Decimal(x), 3, "0"), Padded(Decimal(y), 3, "0"))
BY Widths, ShownNumbers

\* The dates, as they are written.
DateWritten(x) == WholeYear(x.y) /\ TwoDigits(x.m) /\ TwoDigits(x.d)

\* The texts of dates are in the order of the dates.
LEMMA DateTextsInOrder ==
  ASSUME NEW x, DateWritten(x), NEW z, DateWritten(z)
  PROVE  /\ SameLength(DashDate(x), DashDate(z))
         /\ YmdLess(x, z) => Before(DashDate(x), DashDate(z))
<1> DEFINE Y(c) == Padded(Signed(c.y), 4, "0")
           A(c) == Y(c) \o <<"-">>
           B(c) == A(c) \o Pad2(c.m)
           C(c) == B(c) \o <<"-">>
           D(c) == C(c) \o Pad2(c.d)
<1>1. /\ SameLength(Y(x), Y(z)) /\ (x.y < z.y => Before(Y(x), Y(z)))
      /\ SameLength(Pad2(x.m), Pad2(z.m)) /\ (x.m < z.m => Before(Pad2(x.m), Pad2(z.m)))
      /\ SameLength(Pad2(x.d), Pad2(z.d)) /\ (x.d < z.d => Before(Pad2(x.d), Pad2(z.d)))
  BY YearsInOrder, PairsInOrder DEF DateWritten
<1>2. x.y = z.y => Y(x) = Y(z)
  OBVIOUS
<1> HIDE DEF Y
<1>3. SameLength(<<"-">>, <<"-">>)
  BY Punctuation, SameText
<1>4. SameLength(A(x), A(z)) /\ (x.y < z.y => Before(A(x), A(z))) /\ (x.y = z.y => A(x) = A(z))
  BY <1>1, <1>2, <1>3, SameJoin, BeforeJoin
<1> HIDE DEF A
<1>5. /\ SameLength(B(x), B(z)) /\ (x.y < z.y => Before(B(x), B(z)))
      /\ x.y = z.y /\ x.m < z.m => Before(B(x), B(z))
      /\ x.y = z.y /\ x.m = z.m => B(x) = B(z)
  <2>1. A(x) \in Text
    BY <1>4 DEF SameLength
  <2> QED
    BY <1>1, <1>4, <2>1, SameJoin, BeforeJoin, JoinBefore
<1> HIDE DEF B
<1>6. /\ SameLength(C(x), C(z)) /\ (x.y < z.y => Before(C(x), C(z)))
      /\ x.y = z.y /\ x.m < z.m => Before(C(x), C(z))
      /\ x.y = z.y /\ x.m = z.m => C(x) = C(z)
  BY <1>3, <1>5, SameJoin, BeforeJoin
<1> HIDE DEF C
<1>7. /\ SameLength(D(x), D(z)) /\ (x.y < z.y => Before(D(x), D(z)))
      /\ x.y = z.y /\ x.m < z.m => Before(D(x), D(z))
      /\ x.y = z.y /\ x.m = z.m /\ x.d < z.d => Before(D(x), D(z))
  <2>1. C(x) \in Text
    BY <1>6 DEF SameLength
  <2> QED
    BY <1>1, <1>6, <2>1, SameJoin, BeforeJoin, JoinBefore
<1> HIDE DEF D
<1>8. DashDate(x) = D(x) /\ DashDate(z) = D(z)
  BY Zenon DEF DashDate, D, C, B, A, Y
<1> QED
  BY <1>7, <1>8 DEF YmdLess

\* A fraction of a second is written only if a tick is less than a second.
LEMMA FractionWidths == FractionWidth(1) = 0 /\ FractionWidth(1000) = 3
<1> DEFINE Wide(second, w) ==
             10^w % second = 0 /\ \A v \in 0..(w - 1) : 10^v % second # 0
           Full(second, w) ==
             Ten(w) % second = 0 /\ \A v \in 0..(w - 1) : Ten(v) % second # 0
<1>1. ASSUME NEW second PROVE FractionWidth(second) = CHOOSE w \in 0..6 : Full(second, w)
  BY Zenon DEF FractionWidth, Ten
<1>2. 0 \in 0..6 /\ Full(1, 0)
  BY SMT, PowersOfTen
<1>3. ASSUME NEW w \in 0..6, Full(1, w) PROVE w = 0
  BY SMT, <1>3, PowersOfTen
<1>4. 3 \in 0..6 /\ Full(1000, 3)
  BY SMT, PowersOfTen
<1>5. ASSUME NEW w \in 0..6, Full(1000, w) PROVE w = 3
  <2>1. ~(w > 3)
    <3>1. w > 3 => 3 \in 0..(w - 1)
      BY SMT
    <3> QED
      BY SMT, <1>5, <3>1, PowersOfTen
  <2>2. w # 0 /\ w # 1 /\ w # 2
    BY SMT, <1>5, PowersOfTen
  <2> QED
    BY SMT, <2>1, <2>2
<1> HIDE DEF Full
<1>6. (CHOOSE w \in 0..6 : Full(1, w)) = 0
  BY <1>2, <1>3
<1>7. (CHOOSE w \in 0..6 : Full(1000, w)) = 3
  BY <1>4, <1>5
<1> QED
  BY <1>1, <1>6, <1>7

\* The seconds, as they are written.
SecondsWritten(tod, second) ==
  /\ TwoDigits(tod.s) /\ ThreeDigits(tod.sub) /\ tod.second = second
  /\ second = 1000 \/ (second = 1 /\ tod.sub = 0)

\* The text of the seconds, without a fraction and with one.
LEMMA SecondsAre ==
  ASSUME NEW tod
  PROVE  /\ tod.second = 1 => SecondText(tod, "") = Pad2(tod.s) \o <<>>
         /\ tod.second = 1000 =>
              SecondText(tod, "") =
                Pad2(tod.s) \o (<<".">> \o Padded(Decimal(tod.sub), 3, "0"))
<1>1. SecondText(tod, "") =
        Pad2(tod.s) \o (IF FractionWidth(tod.second) > 0
                        THEN <<".">> \o Padded(Decimal(tod.sub), FractionWidth(tod.second), "0")
                        ELSE <<>>)
  BY Zenon DEF SecondText, SecondsText
<1>2. ~(0 > 0) /\ 3 > 0
  BY SMT
<1>3. CASE tod.second = 1
  <2>1. ~(FractionWidth(tod.second) > 0)
    BY <1>2, <1>3, FractionWidths
  <2>2. tod.second # 1000
    BY SMT, <1>3
  <2> QED
    BY Zenon, <1>1, <2>1, <2>2
<1>4. CASE tod.second = 1000
  <2>1. FractionWidth(tod.second) = 3
    BY <1>4, FractionWidths
  <2>2. FractionWidth(tod.second) > 0
    BY <1>2, <2>1
  <2>3. tod.second # 1
    BY SMT, <1>4
  <2> QED
    BY Zenon, <1>1, <2>1, <2>2, <2>3
<1> QED
  BY <1>3, <1>4

\* The texts of seconds are in the order of the seconds and their fractions.
LEMMA SecondsInOrder ==
  ASSUME NEW a, NEW b, NEW second, SecondsWritten(a, second), SecondsWritten(b, second)
  PROVE  /\ SameLength(SecondText(a, ""), SecondText(b, ""))
         /\ a.s < b.s => Before(SecondText(a, ""), SecondText(b, ""))
         /\ a.s = b.s /\ a.sub < b.sub => Before(SecondText(a, ""), SecondText(b, ""))
<1> DEFINE F(c) == Padded(Decimal(c.sub), 3, "0")
           P(c) == Pad2(c.s)
<1>1. /\ SameLength(P(a), P(b)) /\ (a.s < b.s => Before(P(a), P(b)))
      /\ SameLength(F(a), F(b)) /\ (a.sub < b.sub => Before(F(a), F(b)))
  BY PairsInOrder, FractionsInOrder DEF SecondsWritten
<1>2. a.s = b.s => P(a) = P(b)
  OBVIOUS
<1> HIDE DEF F, P
<1>3. P(a) \in Text /\ SameLength(<<>>, <<>>) /\ SameLength(<<".">>, <<".">>) /\ <<".">> \in Text
  BY <1>1, Punctuation, SameText DEF SameLength
<1>4. CASE second = 1
  <2>1. SecondText(a, "") = P(a) \o <<>> /\ SecondText(b, "") = P(b) \o <<>>
    <3>1. a.second = 1 /\ b.second = 1
      BY Zenon, <1>4 DEF SecondsWritten
    <3>2. SecondText(a, "") = Pad2(a.s) \o <<>> /\ SecondText(b, "") = Pad2(b.s) \o <<>>
      BY Zenon, <3>1, SecondsAre
    <3> QED
      BY Zenon, <3>2 DEF P
  <2>2. ~(a.sub < b.sub)
    BY SMT, <1>4 DEF SecondsWritten
  <2> QED
    BY <1>1, <1>3, <2>1, <2>2, SameJoin, BeforeJoin
<1>5. CASE second = 1000
  <2> DEFINE G(c) == <<".">> \o F(c)
  <2>1. SameLength(G(a), G(b)) /\ (a.sub < b.sub => Before(G(a), G(b)))
    BY <1>1, <1>3, SameJoin, JoinBefore
  <2>2. SecondText(a, "") = P(a) \o G(a) /\ SecondText(b, "") = P(b) \o G(b)
    <3>1. a.second = 1000 /\ b.second = 1000
      BY Zenon, <1>5 DEF SecondsWritten
    <3>2. SecondText(a, "") = Pad2(a.s) \o (<<".">> \o Padded(Decimal(a.sub), 3, "0"))
      BY Zenon, <3>1, SecondsAre
    <3>3. SecondText(b, "") = Pad2(b.s) \o (<<".">> \o Padded(Decimal(b.sub), 3, "0"))
      BY Zenon, <3>1, SecondsAre
    <3> QED
      BY Zenon, <3>2, <3>3 DEF P, F
  <2> HIDE DEF G
  <2> QED
    BY <1>1, <1>2, <1>3, <2>1, <2>2, SameJoin, BeforeJoin, JoinBefore
<1> QED
  BY <1>4, <1>5 DEF SecondsWritten

\* The whole name.
FileText(f) ==
  ((((((<<>> \o DashDate(f.ymd)) \o <<"_">>) \o HourText(f.tod, "H")) \o <<"-">>)
     \o Pad2(f.tod.m)) \o <<"-">>) \o SecondText(f.tod, "")

NameWritten(f, second) ==
  /\ DateWritten(f.ymd) /\ TwoDigits(f.tod.h) /\ TwoDigits(f.tod.m)
  /\ SecondsWritten(f.tod, second)

EarlierTod(a, b) ==
  \/ a.h < b.h
  \/ a.h = b.h /\ a.m < b.m
  \/ a.h = b.h /\ a.m = b.m /\ a.s < b.s
  \/ a.h = b.h /\ a.m = b.m /\ a.s = b.s /\ a.sub < b.sub

\* The first field that differs decides between two names.
LEMMA TextsInOrder ==
  ASSUME NEW f, NEW g, NEW second, NameWritten(f, second), NameWritten(g, second),
         YmdLess(f.ymd, g.ymd) \/ (f.ymd = g.ymd /\ EarlierTod(f.tod, g.tod))
  PROVE  Before(FileText(f), FileText(g))
<1> DEFINE A(c) == <<>> \o DashDate(c.ymd)
           B(c) == A(c) \o <<"_">>
           H(c) == HourText(c.tod, "H")
           C(c) == B(c) \o H(c)
           D(c) == C(c) \o <<"-">>
           M(c) == Pad2(c.tod.m)
           E(c) == D(c) \o M(c)
           F(c) == E(c) \o <<"-">>
           S(c) == SecondText(c.tod, "")
           G(c) == F(c) \o S(c)
<1>1. /\ DateWritten(f.ymd) /\ DateWritten(g.ymd)
      /\ TwoDigits(f.tod.h) /\ TwoDigits(g.tod.h)
      /\ TwoDigits(f.tod.m) /\ TwoDigits(g.tod.m)
      /\ SecondsWritten(f.tod, second) /\ SecondsWritten(g.tod, second)
  BY DEF NameWritten
<1>2. /\ SameLength(<<>>, <<>>) /\ SameLength(<<"-">>, <<"-">>)
      /\ SameLength(<<"_">>, <<"_">>) /\ <<>> \in Text
  BY Punctuation, SameText
<1>3. H(f) = Pad2(f.tod.h) /\ H(g) = Pad2(g.tod.h)
  BY Zenon DEF HourText
<1>4. /\ SameLength(H(f), H(g)) /\ (f.tod.h < g.tod.h => Before(H(f), H(g)))
      /\ (f.tod.h = g.tod.h => H(f) = H(g))
  BY <1>1, <1>3, PairsInOrder
<1> HIDE DEF H
<1>5. /\ SameLength(M(f), M(g)) /\ (f.tod.m < g.tod.m => Before(M(f), M(g)))
      /\ (f.tod.m = g.tod.m => M(f) = M(g))
  BY <1>1, PairsInOrder
<1> HIDE DEF M
<1>6. /\ SameLength(S(f), S(g)) /\ (f.tod.s < g.tod.s => Before(S(f), S(g)))
      /\ (f.tod.s = g.tod.s /\ f.tod.sub < g.tod.sub => Before(S(f), S(g)))
  BY <1>1, SecondsInOrder
<1> HIDE DEF S
<1> DEFINE Day  == YmdLess(f.ymd, g.ymd)
           Same == f.ymd = g.ymd
<1>7. /\ SameLength(A(f), A(g)) /\ (Day => Before(A(f), A(g))) /\ (Same => A(f) = A(g))
  <2>1. /\ SameLength(DashDate(f.ymd), DashDate(g.ymd))
        /\ Day => Before(DashDate(f.ymd), DashDate(g.ymd))
    BY <1>1, DateTextsInOrder
  <2>2. Same => DashDate(f.ymd) = DashDate(g.ymd)
    OBVIOUS
  <2> HIDE DEF Day, Same
  <2> QED
    BY <1>2, <2>1, <2>2, SameJoin, JoinBefore
<1> HIDE DEF A, Day, Same
<1>8. /\ SameLength(B(f), B(g)) /\ (Day => Before(B(f), B(g))) /\ (Same => B(f) = B(g))
  BY <1>2, <1>7, SameJoin, BeforeJoin
<1> HIDE DEF B
<1> DEFINE Hour == Same /\ f.tod.h < g.tod.h
           SameHour == Same /\ f.tod.h = g.tod.h
<1>9. /\ SameLength(C(f), C(g)) /\ (Day \/ Hour => Before(C(f), C(g)))
      /\ (SameHour => C(f) = C(g))
  <2>1. B(f) \in Text
    BY <1>8 DEF SameLength
  <2> QED
    BY <1>4, <1>8, <2>1, SameJoin, BeforeJoin, JoinBefore
<1> HIDE DEF C
<1>10. /\ SameLength(D(f), D(g)) /\ (Day \/ Hour => Before(D(f), D(g)))
       /\ (SameHour => D(f) = D(g))
  BY <1>2, <1>9, SameJoin, BeforeJoin
<1> HIDE DEF D
<1> DEFINE Minute     == SameHour /\ f.tod.m < g.tod.m
           SameMinute == SameHour /\ f.tod.m = g.tod.m
<1>11. /\ SameLength(E(f), E(g)) /\ (Day \/ Hour \/ Minute => Before(E(f), E(g)))
       /\ (SameMinute => E(f) = E(g))
  <2>1. D(f) \in Text
    BY <1>10 DEF SameLength
  <2> HIDE DEF Hour, SameHour
  <2> QED
    BY <1>5, <1>10, <2>1, SameJoin, BeforeJoin, JoinBefore
<1> HIDE DEF E
<1>12. /\ SameLength(F(f), F(g)) /\ (Day \/ Hour \/ Minute => Before(F(f), F(g)))
       /\ (SameMinute => F(f) = F(g))
  <2> HIDE DEF Hour, SameHour
  <2> QED
    BY <1>2, <1>11, SameJoin, BeforeJoin
<1> HIDE DEF F
<1> DEFINE Tick == SameMinute /\ (f.tod.s < g.tod.s \/ (f.tod.s = g.tod.s /\ f.tod.sub < g.tod.sub))
<1>13. Day \/ Hour \/ Minute \/ Tick => Before(G(f), G(g))
  <2>1. F(f) \in Text
    BY <1>12 DEF SameLength
  <2>2. Tick => SameMinute /\ Before(S(f), S(g))
    BY <1>6
  <2> HIDE DEF Hour, SameHour, Minute, SameMinute, Tick
  <2> QED
    BY <1>6, <1>12, <2>1, <2>2, BeforeJoin, JoinBefore
<1> HIDE DEF G
<1>14. Day \/ Hour \/ Minute \/ Tick
  BY Zenon DEF EarlierTod, Day, Same
<1>15. FileText(f) = G(f) /\ FileText(g) = G(g)
  BY Zenon DEF FileText, G, F, E, D, C, B, A, H, M, S
<1> QED
  BY <1>13, <1>14, <1>15

----------------------------------------------------------------------------
\* The ticks in a second, and in a time of a day.
SecondKnown(second) == second = 1 \/ second = 1000

TimeOfDay(h, m, s, sub, second, d) ==
  d = ((h * 60 + m) * 60 + s) * second + sub /\ (second = 1 => sub = 0)

\* The fields of a time.
FieldsFound(f, n, d, second) ==
  /\ f.ymd = FromDays(n) /\ f.hasTod
  /\ f.tod.h \in 0..23 /\ f.tod.m \in 0..59 /\ f.tod.s \in 0..59 /\ f.tod.sub \in Thousandths
  /\ SecondKnown(second) /\ f.tod.second = second
  /\ TimeOfDay(f.tod.h, f.tod.m, f.tod.s, f.tod.sub, second, d)
  /\ TodToDuration(f.tod) = d

\* The fields of a time of the clock are those of its day and its time of day.
LEMMA FieldsAre ==
  ASSUME NEW unit \in Units, NEW t \in Int, Floor(t, TicksPerDay(unit)) \in Days
  PROVE  LET n == Floor(t, TicksPerDay(unit))
         IN  FieldsFound(Split(unit, t), n, (t - n * TicksPerDay(unit)) * UnitsPerTick(unit),
                         Second(unit))
<1> DEFINE n == Floor(t, TicksPerDay(unit))
           d == (t - n * TicksPerDay(unit)) * UnitsPerTick(unit)
           f == Split(unit, t)
<1>1. f.ymd = FromDays(n) /\ f.hasTod /\ f.tod = HhMmSs(d, Second(unit))
  BY DEF Split, TimeFields, Fields
<1>2. PICK h, m, s, ms : TimeOn(n, h, m, s, ms) /\ Shown(unit, t) = ShownAt(n, h, m, s, ms)
  BY ShownParts
<1>3. /\ f.tod.h = Shown(unit, t).h /\ f.tod.m = Shown(unit, t).min
      /\ f.tod.s = Shown(unit, t).s /\ f.tod.sub = Shown(unit, t).ms
  BY DEF Shown
<1> HIDE DEF f
<1>4. /\ ShownAt(n, h, m, s, ms).h = h /\ ShownAt(n, h, m, s, ms).min = m
      /\ ShownAt(n, h, m, s, ms).s = s /\ ShownAt(n, h, m, s, ms).ms = ms
  BY DEF ShownAt
<1>5. /\ f.tod.h \in 0..23 /\ f.tod.m \in 0..59 /\ f.tod.s \in 0..59
      /\ f.tod.sub \in Thousandths
  BY <1>2, <1>3, <1>4 DEF TimeOn
<1>6. Second(unit) = 1 \/ Second(unit) = 1000
  BY UnitFacts
<1>7. d \in Int /\ 0 <= d
  <2>1. PICK per \in Nat \ {0}, units \in Nat : per = TicksPerDay(unit) /\ units = UnitsPerTick(unit)
    BY SMT, UnitFacts
  <2>2. n \in Int /\ n * per <= t
    BY <2>1, FloorRoundsDown
  <2> HIDE DEF n
  <2>3. PICK e \in Nat : e = t - n * per
    BY SMT, <2>2
  <2>4. d = e * units
    BY <2>1, <2>3
  <2> QED
    BY SMT, <2>4
<1> HIDE DEF n, d
<1>8. TodToDuration(f.tod) = d
  BY <1>1, <1>6, <1>7, PartsMakeUp
<1>9. ~f.tod.neg /\ f.tod.second = Second(unit)
  <2>1. ~(d < 0)
    BY SMT, <1>7
  <2>2. ~HhMmSs(d, Second(unit)).neg /\ HhMmSs(d, Second(unit)).second = Second(unit)
    BY <2>1 DEF HhMmSs
  <2> QED
    BY <1>1, <2>2
<1>10. TodToDuration(f.tod) =
         ((f.tod.h * 60 + f.tod.m) * 60 + f.tod.s) * f.tod.second + f.tod.sub
  BY Zenon, <1>9 DEF TodToDuration
<1>11. Second(unit) = 1 => f.tod.sub = 0
  <2> SUFFICES ASSUME Second(unit) = 1 PROVE HhMmSs(d, 1).sub = 0
    BY <1>1
  <2>1. \A rest \in Int : rest - Cut(rest, 1) * 1 = 0
    BY SMT DEF Cut
  <2> DEFINE a == Magnitude(d)
             h1 == Cut(a, 3600 * 1)
             m1 == Cut(a, 60 * 1) - h1 * 60
             rest == a - h1 * 3600 * 1 - m1 * 60 * 1
  <2>2. HhMmSs(d, 1).sub = rest - Cut(rest, 1) * 1
    BY DEF HhMmSs
  <2>3. a \in Int
    BY SMT, <1>7 DEF Magnitude
  <2> HIDE DEF a
  <2>4. h1 \in Int /\ Cut(a, 60 * 1) \in Int
    BY SMT, <2>3 DEF Cut
  <2> HIDE DEF h1
  <2>5. m1 \in Int
    BY SMT, <2>4
  <2> HIDE DEF m1
  <2>6. rest \in Int
    BY SMT, <2>3, <2>4, <2>5
  <2> HIDE DEF rest
  <2> QED
    BY <2>1, <2>2, <2>6
<1>12. SecondKnown(Second(unit))
  BY <1>6 DEF SecondKnown
<1>13. TimeOfDay(f.tod.h, f.tod.m, f.tod.s, f.tod.sub, Second(unit), d)
  BY <1>8, <1>9, <1>10, <1>11 DEF TimeOfDay
<1>14. FieldsFound(f, n, d, Second(unit))
  BY <1>1, <1>5, <1>8, <1>9, <1>12, <1>13 DEF FieldsFound
<1> QED
  BY <1>14 DEF n, d, f

\* A later time of a day is written by later fields.
LEMMA LaterFields ==
  ASSUME NEW f, NEW g, NEW n, NEW k, NEW second, NEW d \in Int, NEW e \in Int,
         FieldsFound(f, n, d, second), FieldsFound(g, k, e, second), d < e
  PROVE  EarlierTod(f.tod, g.tod)
<1>1. PICK h \in 0..23, m \in 0..59, s \in 0..59, sub \in Thousandths :
        /\ h = f.tod.h /\ m = f.tod.m /\ s = f.tod.s /\ sub = f.tod.sub
        /\ TimeOfDay(h, m, s, sub, second, d)
  BY DEF FieldsFound
<1>2. PICK i \in 0..23, j \in 0..59, u \in 0..59, rest \in Thousandths :
        /\ i = g.tod.h /\ j = g.tod.m /\ u = g.tod.s /\ rest = g.tod.sub
        /\ TimeOfDay(i, j, u, rest, second, e)
  BY DEF FieldsFound
<1>3. second = 1 \/ second = 1000
  BY DEF FieldsFound, SecondKnown
<1> USE DEF TimeOfDay, Thousandths
<1>4. \/ h < i
      \/ h = i /\ m < j
      \/ h = i /\ m = j /\ s < u
      \/ h = i /\ m = j /\ s = u /\ sub < rest
  <2>1. CASE second = 1
    <3>1. /\ d = (h * 60 + m) * 60 + s /\ e = (i * 60 + j) * 60 + u
      BY SMT, <1>1, <1>2, <2>1
    <3> QED
      BY SMT, <3>1
  <2>2. CASE second = 1000
    <3>1. /\ d = ((h * 60 + m) * 60 + s) * 1000 + sub
          /\ e = ((i * 60 + j) * 60 + u) * 1000 + rest
      BY SMT, <1>1, <1>2, <2>2
    <3> QED
      BY SMT, <3>1
  <2> QED
    BY <1>3, <2>1, <2>2
<1> QED
  BY <1>1, <1>2, <1>4 DEF EarlierTod

\* A millisecond has three digits.
LEMMA ThousandthIs ==
  ASSUME NEW n \in Thousandths
  PROVE  ThreeDigits(n)
<1>1. n \in Int /\ 0 <= n /\ n <= 999
  BY SMT DEF Thousandths
<1> QED
  BY SMT, <1>1 DEF ThreeDigits

\* The fields of a time with a year of four digits can be written in their widths.
LEMMA FieldsWritten ==
  ASSUME NEW f, NEW n \in Days, NEW d, NEW second, FieldsFound(f, n, d, second),
         FourDigits(f.ymd.y)
  PROVE  NameWritten(f, second)
<1>1. DateWritten(f.ymd)
  <2>1. f.ymd = FromDays(n)
    BY DEF FieldsFound
  <2>2. GoodDate(f.ymd)
    BY <2>1, DayHasGoodDate
  <2> DEFINE x == f.ymd
  <2> HIDE DEF x
  <2>3. /\ x.y \in Int /\ x.m \in Int /\ 1 <= x.m /\ x.m <= 12
        /\ x.d \in Int /\ 1 <= x.d /\ x.d <= LastDay(x.y, x.m)
    BY <2>2 DEF GoodDate, x
  <2>4. LastDay(x.y, x.m) \in Int /\ LastDay(x.y, x.m) <= 31
    BY <2>3, MonthBounds
  <2>5. TwoDigits(x.m) /\ TwoDigits(x.d)
    BY SMT, <2>3, <2>4 DEF TwoDigits
  <2>6. WholeYear(x.y)
    BY SMT, <2>3 DEF FourDigits, WholeYear, Small, x
  <2>7. DateWritten(x)
    BY <2>5, <2>6 DEF DateWritten
  <2> QED
    BY <2>7 DEF x
<1>2. TwoDigits(f.tod.h) /\ TwoDigits(f.tod.m) /\ TwoDigits(f.tod.s)
  BY SMT DEF FieldsFound, TwoDigits
<1>3. ThreeDigits(f.tod.sub)
  BY ThousandthIs DEF FieldsFound
<1>4. f.tod.second = second /\ (second = 1000 \/ (second = 1 /\ f.tod.sub = 0))
  BY DEF FieldsFound, SecondKnown, TimeOfDay
<1> QED
  BY <1>1, <1>2, <1>3, <1>4 DEF NameWritten, SecondsWritten

\* The name of a file, from the fields of its time.
LEMMA NameIs ==
  ASSUME NEW f, NEW n \in Days, NEW d \in Int, 0 <= d, NEW second, FieldsFound(f, n, d, second)
  PROVE  Format(f, UTC, FileFormat).out = FileText(f)
<1>1. YmdOk(f.ymd)
  BY DayHasGoodDate DEF FieldsFound
<1>2. ~(TodToDuration(f.tod) < 0)
  <2>1. TodToDuration(f.tod) = d
    BY DEF FieldsFound
  <2> QED
    BY SMT, <2>1
<1>3. f.hasTod
  BY DEF FieldsFound
<1> QED
  BY <1>1, <1>2, <1>3, FileFormatRun DEF FileText

\* Of two times of a day the later has the longer time of day.
LEMMA TimeOfDayGrows ==
  ASSUME NEW unit \in Units, NEW t \in Int, NEW u \in Int, t < u, NEW n \in Int,
         n * TicksPerDay(unit) <= t
  PROVE  LET d == (t - n * TicksPerDay(unit)) * UnitsPerTick(unit)
             e == (u - n * TicksPerDay(unit)) * UnitsPerTick(unit)
         IN  d \in Int /\ e \in Int /\ 0 <= d /\ d < e
<1> DEFINE per   == TicksPerDay(unit)
           units == UnitsPerTick(unit)
<1>1. per \in Nat /\ (units = 86400 \/ units = 3600 \/ units = 60 \/ units = 1)
  BY SMT, UnitFacts
<1>2. n * per <= t
  OBVIOUS
<1> HIDE DEF per
<1>3. PICK a \in Nat, b \in Nat : a = t - n * per /\ b = u - n * per /\ a < b
  <2>1. n * per \in Int
    BY SMT, <1>1
  <2> QED
    BY SMT, <1>2, <2>1
<1>4. a * units \in Int /\ b * units \in Int /\ 0 <= a * units /\ a * units < b * units
  <2>1. CASE units = 86400
    BY SMT, <1>3, <2>1
  <2>2. CASE units = 3600
    BY SMT, <1>3, <2>2
  <2>3. CASE units = 60
    BY SMT, <1>3, <2>3
  <2>4. CASE units = 1
    BY SMT, <1>3, <2>4
  <2> QED
    BY <1>1, <2>1, <2>2, <2>3, <2>4
<1> HIDE DEF units
<1> QED
  BY <1>3, <1>4 DEF per, units

\* A day has begun by the times in it.
LEMMA DayPassed ==
  ASSUME NEW unit \in Units, NEW t \in Int, Floor(t, TicksPerDay(unit)) \in Days
  PROVE  /\ Floor(t, TicksPerDay(unit)) \in Int
         /\ Floor(t, TicksPerDay(unit)) * TicksPerDay(unit) <= t
BY UnitTicks, FloorRoundsDown

\* usrp_ops.cpp:549-551 names a capture's file by the time of its first sample,
\* format("%F_%H-%M-%S"). Names of one length that differ in digits only sort as
\* text: of any two times of one unit, however far apart, as long as their years
\* have four digits, the earlier has the name that sorts first.
THEOREM NamesSort ==
  \A unit \in Units, t \in Int, u \in Int :
    LET f == Split(unit, t)
        g == Split(unit, u)
    IN  /\ t < u
        /\ Floor(t, TicksPerDay(unit)) \in Days /\ Floor(u, TicksPerDay(unit)) \in Days
        /\ FourDigits(f.ymd.y) /\ FourDigits(g.ymd.y)
        => Before(Format(f, UTC, FileFormat).out, Format(g, UTC, FileFormat).out)
<1> DEFINE In(unit, t) == /\ Floor(t, TicksPerDay(unit)) \in Days
                          /\ FourDigits(Split(unit, t).ymd.y)
           Name(unit, t) == Format(Split(unit, t), UTC, FileFormat).out
<1>1. ASSUME NEW unit \in Units, NEW t \in Int, NEW u \in Int, t < u, In(unit, t), In(unit, u)
      PROVE  Before(Name(unit, t), Name(unit, u))
  <2> DEFINE n == Floor(t, TicksPerDay(unit))
             k == Floor(u, TicksPerDay(unit))
             d == (t - n * TicksPerDay(unit)) * UnitsPerTick(unit)
             e == (u - k * TicksPerDay(unit)) * UnitsPerTick(unit)
             f == Split(unit, t)
             g == Split(unit, u)
             second == Second(unit)
  <2>1. n \in Days /\ k \in Days /\ FourDigits(f.ymd.y) /\ FourDigits(g.ymd.y)
    BY <1>1
  <2>2. n \in Int /\ k \in Int /\ n <= k
    <3>1. t <= u
      BY SMT, <1>1
    <3> QED
      BY <3>1, FloorsInOrder
  <2>3. FieldsFound(f, n, d, second) /\ FieldsFound(g, k, e, second)
    BY <2>1, FieldsAre
  <2>4. d \in Int /\ 0 <= d /\ e \in Int /\ 0 <= e
    <3>1. ASSUME NEW v \in Int, Floor(v, TicksPerDay(unit)) \in Days
          PROVE  LET j == Floor(v, TicksPerDay(unit))
                     x == (v - j * TicksPerDay(unit)) * UnitsPerTick(unit)
                 IN  x \in Int /\ 0 <= x
      <4>1. v + 1 \in Int /\ v < v + 1
        BY SMT
      <4> QED
        BY <3>1, <4>1, DayPassed, TimeOfDayGrows
    <3> QED
      BY <2>1, <3>1
  <2>5. n = k => d < e
    BY <1>1, <2>1, DayPassed, TimeOfDayGrows
  <2> HIDE DEF n, k, d, e, f, g, second
  <2>6. NameWritten(f, second) /\ NameWritten(g, second)
    BY <2>1, <2>3, FieldsWritten
  <2>7. /\ Format(f, UTC, FileFormat).out = FileText(f)
        /\ Format(g, UTC, FileFormat).out = FileText(g)
    BY <2>1, <2>3, <2>4, NameIs
  <2>8. f.ymd = FromDays(n) /\ g.ymd = FromDays(k)
    BY <2>3 DEF FieldsFound
  <2>9. CASE n < k
    <3>1. YmdLess(f.ymd, g.ymd)
      BY <2>1, <2>8, <2>9, DatesInOrder
    <3>2. Before(FileText(f), FileText(g))
      BY <2>6, <3>1, TextsInOrder
    <3> QED
      BY <2>7, <3>2 DEF f, g
  <2>10. CASE n = k
    <3>1. EarlierTod(f.tod, g.tod)
      BY <2>3, <2>4, <2>5, <2>10, LaterFields
    <3>2. Before(FileText(f), FileText(g))
      BY <2>6, <2>8, <2>10, <3>1, TextsInOrder
    <3> QED
      BY <2>7, <3>2 DEF f, g
  <2> QED
    BY SMT, <2>2, <2>9, <2>10
<1> QED
  BY <1>1

\* A tick later the day is the same or the next.
LEMMA NextTickDay ==
  ASSUME NEW unit \in Units, NEW t \in Int, Floor(t, TicksPerDay(unit)) \in Days,
         FourDigits(Split(unit, t + 1).ymd.y)
  PROVE  Floor(t + 1, TicksPerDay(unit)) \in Days
<1> DEFINE n == Floor(t, TicksPerDay(unit))
           k == Floor(t + 1, TicksPerDay(unit))
<1>1. n \in Int /\ k \in Int /\ n <= k
  <2>1. t + 1 \in Int /\ t <= t + 1
    BY SMT
  <2> QED
    BY <2>1, FloorsInOrder
<1>2. k <= n + 1
  <2>1. t + 1 \in Int
    BY SMT
  <2>2. PICK per \in Nat \ {0} : per = TicksPerDay(unit)
    BY UnitTicks
  <2>3. t < n * per + per /\ k * per <= t + 1
    BY <2>1, <2>2, FloorRoundsDown
  <2> HIDE DEF n, k
  <2>4. ~(k >= n + 2)
    <3>1. k >= n + 2 => k * per >= (n + 2) * per
      BY SMT, <1>1
    <3>2. (n + 2) * per = n * per + per + per
      BY SMT, <1>1
    <3>3. n * per \in Int /\ k * per \in Int
      BY SMT, <1>1
    <3> QED
      BY SMT, <2>3, <3>1, <3>2, <3>3
  <2> QED
    BY SMT, <1>1, <2>4
<1>3. Split(unit, t + 1).ymd = FromDays(k)
  BY DEF Split, TimeFields, Fields
<1> HIDE DEF n, k
<1>4. n \in Days
  BY DEF n
<1>5. k # 11248738
  <2>1. k = 11248738 => FromDays(k).y = -32768
    BY SMT, <1>1, TheLastDays
  <2> QED
    BY SMT, <1>3, <2>1 DEF FourDigits
<1>6. k \in Days
  BY SMT, <1>1, <1>2, <1>4, <1>5, DaysAre
<1> QED
  BY <1>6 DEF k

\* The clock's invariant puts each name before the next tick's.
LEMMA NamesNow == ClockInv => NamesInOrder
<1> SUFFICES ASSUME ClockInv, FourDigits(Now.ymd.y),
                    FourDigits(Split(start.unit, tp + 1).ymd.y)
             PROVE  Before(FileTime(tp), FileTime(tp + 1))
  BY DEF NamesInOrder, Before
<1>1. start.unit \in Units /\ tp \in Int /\ Floor(tp, TicksPerDay(start.unit)) \in Days
  BY ClockInRange DEF ClockInv
<1>2. tp + 1 \in Int /\ tp < tp + 1
  BY SMT, <1>1
<1>3. Floor(tp + 1, TicksPerDay(start.unit)) \in Days
  BY <1>1, NextTickDay
<1>4. Before(Format(Split(start.unit, tp), UTC, FileFormat).out,
             Format(Split(start.unit, tp + 1), UTC, FileFormat).out)
  BY <1>1, <1>2, <1>3, NamesSort DEF Now
<1> QED
  BY <1>4 DEF FileTime, FileFormat

\* At every time of the clock, as long as the years have four digits, the file
\* named a tick later sorts after the one named now (usrp_ops.cpp:549-551).
THEOREM NamesAlwaysInOrder == Spec => []NamesInOrder
BY Inductive, NamesNow, PTL
=============================================================================
