------------------------------- MODULE Dates --------------------------------
(***************************************************************************)
(* A clock whose time is written out and read back with date.h.  A time    *)
(* point is a number of ticks since 1970; a text is put together from      *)
(* pieces, each written by date::format() at the time that is then on the  *)
(* clock, so that the pieces of one text may belong to different times; in *)
(* the end the whole text is read with date::parse().                      *)
(*                                                                         *)
(* The receiver writes one such piece per request, the time in the name of *)
(* the capture file ("%F_%H-%M-%S", in milliseconds).                      *)
(***************************************************************************)
EXTENDS DateParse

CONSTANTS
  Starts,     \* records: the unit of a tick, the first time, how many ticks follow
  Pieces,     \* records: a type, a format, and how far it can be read back
  MaxPieces,  \* pieces of one text
  WriteTicks  \* ticks after the first time at which a piece may be written

Units == {"ms", "s", "min", "h", "day"}

Kinds ==
  {"sys_time", "local_time", "duration", "year", "month", "day", "weekday",
   "year_month", "month_day", "year_month_day"}

ASSUME StartsAssumption ==
  Starts \subseteq [unit : Units, tp : Int, ticks : Nat]

ASSUME BoundsAssumption ==
  MaxPieces \in Nat /\ WriteTicks \in Nat /\ \A s \in Starts : WriteTicks <= s.ticks

ASSUME PiecesAssumption ==
  \A piece \in Pieces : piece.kind \in Kinds /\ piece.back \in {"whole", "part", "never"}

VARIABLES
  start,    \* where the clock started
  tp,       \* the time on the clock
  shown,    \* what a display of the clock shows then, from date.h
  written,  \* the pieces of the text, in order
  result    \* what reading the text gave, a value, a failure or an exception:
            \* empty until it is read

vars == <<start, tp, shown, written, result>>

----------------------------------------------------------------------------
\* The time as a value of each type.

Milliseconds(unit) ==
  CASE unit = "ms"  -> 1
    [] unit = "s"   -> 1000
    [] unit = "min" -> 60 * 1000
    [] unit = "h"   -> 3600 * 1000
    [] unit = "day" -> 24 * 3600 * 1000

TicksPerDay(unit) == 86400000 \div Milliseconds(unit)

\* A year is a short: the clock runs within the days whose year fits one.
ASSUME RangeAssumption ==
  \A s \in Starts :
    {Floor(s.tp, TicksPerDay(s.unit)), Floor(s.tp + s.ticks, TicksPerDay(s.unit))}
      \subseteq Days

\* The common type of a tick and a second, and its units in a tick.
Second(unit)       == IF unit = "ms" THEN 1000 ELSE 1
UnitsPerTick(unit) == (Milliseconds(unit) * Second(unit)) \div 1000

Split(unit, t) == TimeFields(t, TicksPerDay(unit), UnitsPerTick(unit), Second(unit))

Now == Split(start.unit, tp)

\* The date, the weekday, the weeks and the time of the time point t.
Shown(unit, t) ==
  LET sd == Floor(t, TicksPerDay(unit))
      f  == Split(unit, t)
  IN  [y |-> f.ymd.y, m |-> f.ymd.m, d |-> f.ymd.d,
       wd |-> WeekdayFromDays(sd), yday |-> DayOfYear(f),
       sundays |-> WeekNumber(f.ymd, Sunday), mondays |-> WeekNumber(f.ymd, Monday),
       isoYear |-> IsoYear(sd), isoWeek |-> IsoWeek(sd),
       h |-> f.tod.h, min |-> f.tod.m, s |-> f.tod.s, ms |-> f.tod.sub]

\* The duration is the time since one tick after the start.
View(kind) ==
  LET ymd == Now.ymd
  IN  CASE kind \in {"sys_time", "local_time"} -> tp
        [] kind = "duration"       -> tp - start.tp - 1
        [] kind = "year"           -> ymd.y
        [] kind = "month"          -> ymd.m
        [] kind = "day"            -> ymd.d
        [] kind = "weekday"        -> ExtractWeekday(Now)
        [] kind = "year_month"     -> <<ymd.y, ymd.m>>
        [] kind = "month_day"      -> <<ymd.m, ymd.d>>
        [] kind = "year_month_day" -> ymd

\* The overloads of to_stream().
FieldsOf(kind, x) ==
  CASE kind \in {"sys_time", "local_time"} -> Split(start.unit, x)
    [] kind = "duration"       ->
         DurationFields(x * UnitsPerTick(start.unit), Second(start.unit))
    [] kind = "year"           -> YearFields(x)
    [] kind = "month"          -> MonthFields(x)
    [] kind = "day"            -> DayFields(x)
    [] kind = "weekday"        -> WeekdayFields(x)
    [] kind = "year_month"     -> YearMonthFields(x[1], x[2])
    [] kind = "month_day"      -> MonthDayFields(x[1], x[2])
    [] kind = "year_month_day" -> DateFields(x)

ZoneOf(kind) == IF kind = "sys_time" THEN UTC ELSE NoZone

FormatValue(kind, x, fmt) == Format(FieldsOf(kind, x), ZoneOf(kind), fmt)

\* The overloads of from_stream().
ValueOf(kind, r) ==
  LET Time(offset) ==
        TimeParsed(r, TicksPerDay(start.unit), UnitsPerTick(start.unit), offset)
  IN  CASE kind = "sys_time"       -> Time(r.offset)
        [] kind = "local_time"     -> Time(0)
        [] kind = "duration"       -> DurationParsed(r, UnitsPerTick(start.unit))
        [] kind = "year"           -> YearParsed(r)
        [] kind = "month"          -> MonthParsed(r)
        [] kind = "day"            -> DayParsed(r)
        [] kind = "weekday"        -> WeekdayParsed(r)
        [] kind = "year_month"     -> YearMonthParsed(r)
        [] kind = "month_day"      -> MonthDayParsed(r)
        [] kind = "year_month_day" -> YmdParsed(r)

ParseValue(kind, text, fmt) ==
  LET r == Parse(text, fmt, Second(start.unit))
      v == ValueOf(kind, r)
  IN  [threw |-> r.threw, ok |-> v.ok, value |-> v.value]

----------------------------------------------------------------------------

Init ==
  /\ start \in Starts
  /\ tp = start.tp
  /\ shown = Shown(start.unit, tp)
  /\ written = <<>>
  /\ result = <<>>

Turn ==
  /\ result = <<>>
  /\ tp < start.tp + (IF written = <<>> THEN start.ticks ELSE WriteTicks)
  /\ tp' = tp + 1
  /\ shown' = Shown(start.unit, tp + 1)
  /\ UNCHANGED <<start, written, result>>

\* The formats keep four characters for a year and no place for a sign.
FourDigits(y) == 0 <= y /\ y <= 9999

InWriting ==
  result = <<>> /\ tp <= start.tp + WriteTicks /\ FourDigits(Now.ymd.y)

Write(piece) ==
  /\ InWriting
  /\ Len(written) < MaxPieces
  /\ \A i \in DOMAIN written : written[i].piece.kind = piece.kind
  /\ LET s == FormatValue(piece.kind, View(piece.kind), piece.fmt)
     IN  IF s.threw THEN UNCHANGED written
         ELSE written' = Append(written, [piece |-> piece, text |-> s.out,
                                          value |-> View(piece.kind)])
  /\ UNCHANGED <<start, tp, shown, result>>

Kind == written[1].piece.kind
Lines(f(_)) == FoldLeft(LAMBDA s, w : s \o f(w) \o <<" ">>, <<>>, written)

\* What the time_get facet would read is left out.
Letters(w) == {w.piece.fmt[i] : i \in DOMAIN w.piece.fmt}
AllLetters == UNION {Letters(written[i]) : i \in DOMAIN written}

Read ==
  /\ InWriting /\ written # <<>>
  /\ AllLetters \cap {"c", "p", "r", "x", "X"} = {}
  /\ result' = <<ParseValue(Kind, Lines(LAMBDA w : w.text), Lines(LAMBDA w : w.piece.fmt))>>
  /\ UNCHANGED <<start, tp, shown, written>>

Next == Turn \/ (\E piece \in Pieces : Write(piece)) \/ Read

Spec == Init /\ [][Next]_vars

----------------------------------------------------------------------------
(***************************************************************************)
(* Properties.                                                             *)
(***************************************************************************)

\* Type correctness: the clock stays within its walk, what it shows is within
\* the ranges of a date and a time, and only pieces of one type are put
\* together.
TypeOK ==
  /\ start \in Starts
  /\ tp \in start.tp..(start.tp + start.ticks)
  /\ YmdOk(shown) /\ WeekdayOk(shown.wd) /\ (shown.y > MinYear => shown.isoWeek \in 1..53)
  /\ shown.yday \in 1..366 /\ shown.sundays \in 0..53 /\ shown.mondays \in 0..53
  /\ shown.h \in 0..23 /\ {shown.min, shown.s} \subseteq 0..59 /\ shown.ms \in 0..999
  /\ Len(written) <= MaxPieces
  /\ \A i \in DOMAIN written :
       written[i].piece \in Pieces /\ written[i].piece.kind = written[1].piece.kind
  /\ Len(result) <= 1
  /\ result # <<>> => written # <<>>

WallClock == INSTANCE WallClock WITH unit <- start.unit, wall <- shown

\* Refinement: what floor(), from_days(), weekday_from_days(), the week
\* numbers of to_stream() and hh_mm_ss compute from a number of ticks moves on
\* like the calendar on the wall, across months, leap days, years, the epoch
\* and the eras of 400 years.
IsWallClock == WallClock!Spec

\* A year is a short: the arithmetic is that of numbers within its range.
InRange(y) == y \in MinYear..MaxYear

\* What depends on the clock alone is looked at before anything is written.

\* The views of one day agree: each of year_month_day, year_month_weekday and
\* year_month_weekday_last goes back to the day it was made from, their ok()
\* holds for the days there are and for no other, and later days compare as
\* later.
ViewsAgree ==
  LET sd  == Floor(tp, TicksPerDay(start.unit))
      ymd == FromDays(sd)
      nth == NthWeekdayFromDays(sd)
      fifth == [nth EXCEPT !.index = 5]
      last  == LastWeekdayToDays(ymd.y, ymd.m, nth.wd)
  IN  written = <<>> =>
      /\ YmdOk(ymd) /\ MonthDayOk(ymd.m, ymd.d) /\ ToDays(ymd) = sd
      /\ NthWeekdayOk(nth) /\ NthWeekdayToDays(nth) = sd
      /\ NthWeekdayOk(fifth) <=> FromDays(NthWeekdayToDays(fifth)).m = ymd.m
      /\ last \in {NthWeekdayToDays([nth EXCEPT !.index = i]) : i \in 4..5}
      /\ FromDays(last).m = ymd.m /\ FromDays(last + 7).m # ymd.m
      /\ InRange(ymd.y + 1) =>
           \A n \in {1, 27, 365} : /\ YmdLess(ymd, FromDays(sd + n))
                                   /\ ~YmdLess(FromDays(sd + n), ymd)
      /\ \A n \in {1, 5, 7, 300} :
           WeekdayMinus(WeekdayPlus(nth.wd, n), nth.wd) = n % 7
      /\ Ceil(tp, TicksPerDay(start.unit)) =
           sd + (IF Now.tod = HhMmSs(0, Second(start.unit)) THEN 0 ELSE 1)

\* Arithmetic on months and years is that of a count of months since year 0:
\* adding crosses years in both directions, the difference undoes it, the
\* order is the order of the counts, and a month alone counts modulo twelve.
MonthsCount ==
  LET ymd      == Now.ymd
      Count(x) == x.y * 12 + x.m - 1
  IN  written = <<>> =>
      \A n \in {k \in -25..25 : InRange(ymd.y + k \div 12) /\ InRange(ymd.y + k \div 12 + 1)} :
        LET moved == YmdPlusMonths(ymd, n)
        IN  /\ Count(moved) = Count(ymd) + n /\ moved.m \in 1..12 /\ moved.d = ymd.d
            /\ YearMonthMinus(moved, ymd) = n
            /\ YearMonthLess(moved, ymd) <=> n < 0
            /\ MonthPlus(ymd.m, n) = moved.m
            /\ MonthPlus(ymd.m, MonthMinus(moved.m, ymd.m)) = moved.m
            /\ n % 12 = 0 => YmdPlusYears(ymd, n \div 12) = moved

\* A text that is read as a value is the text of that value: written out
\* again, each of its pieces comes out as it was, although the pieces may have
\* been written at different times; otherwise reading fails.  One thing is not
\* compared by the code: the ISO week or year, when the date was found from
\* another week number.
IsoUnchecked ==
  /\ AllLetters \cap {"U", "W"} # {} /\ AllLetters \cap {"G", "V"} # {}
  /\ ~({"G", "V"} \subseteq AllLetters)

ReadAgrees ==
  result # <<>> /\ result[1].ok /\ ~IsoUnchecked =>
    \A i \in DOMAIN written :
      FormatValue(Kind, result[1].value, written[i].piece.fmt).out = written[i].text


\* The times in the names of the capture files, one tick apart, differ, and
\* sort in the order of the times.
FileTime(t) ==
  Format(Split(start.unit, t), UTC,
         <<"%", "F", "_", "%", "H", "-", "%", "M", "-", "%", "S">>).out

NamesInOrder ==
  /\ written = <<>>
  /\ FourDigits(Now.ymd.y) /\ FourDigits(Split(start.unit, tp + 1).ymd.y)
  =>
    LET older == FileTime(tp)
        newer == FileTime(tp + 1)
    IN  /\ Len(older) = Len(newer)
        /\ \E i \in DOMAIN older :
             /\ \A k \in 1..(i - 1) : older[k] = newer[k]
             /\ IsDigit(older[i]) /\ IsDigit(newer[i])
             /\ DigitValue(older[i]) < DigitValue(newer[i])
=============================================================================
