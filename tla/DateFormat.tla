----------------------------- MODULE DateFormat -----------------------------
(***************************************************************************)
(* date::format() and to_stream() of date.h: a value is laid out as fields *)
(* (a date, a weekday, a time of day, each of which may be missing), and   *)
(* the characters of a format are taken one after the other by a small     *)
(* machine that remembers an open `%' and a modifier `E' or `O'.           *)
(*                                                                         *)
(* A text is a sequence of characters, a name of a day or a month being    *)
(* one character.  The build keeps ONLY_C_LOCALE at 0, so that names, %c,  *)
(* %x, %X, %r, %p and the modified conversions come from the standard      *)
(* library's time_put facet; they are given as the "C" locale has them.    *)
(***************************************************************************)
EXTENDS Calendar, Sequences, SequencesExt

Numerals == <<"0", "1", "2", "3", "4", "5", "6", "7", "8", "9">>
DayNames == <<"Sun", "Mon", "Tue", "Wed", "Thu", "Fri", "Sat">>
FullDayNames == <<"Sunday", "Monday", "Tuesday", "Wednesday", "Thursday",
                  "Friday", "Saturday">>
MonthNames == <<"Jan", "Feb", "Mar", "Apr", "May", "Jun", "Jul", "Aug", "Sep",
                "Oct", "Nov", "Dec">>
FullMonthNames == <<"January", "February", "March", "April", "May", "June",
                    "July", "August", "September", "October", "November",
                    "December">>

----------------------------------------------------------------------------
\* Numbers as text.

Decimal(n) ==
  LET k == CHOOSE i \in 1..9 : n < 10^i /\ (i = 1 \/ n >= 10^(i - 1))
  IN  [i \in 1..k |-> Numerals[((n \div 10^(k - i)) % 10) + 1]]

Signed(n) == IF n < 0 THEN <<"-">> \o Decimal(-n) ELSE Decimal(n)

\* Filled up on the left to a width, the sign counting as a character.
Padded(text, width, fill) ==
  [i \in 1..(width - Len(text)) |-> fill] \o text

Pad2(n) == Padded(Signed(n), 2, "0")
Pad3(n) == Padded(Signed(n), 3, "0")

\* The year's own operator<<: the fill goes between sign and digits.
YearText(y) ==
  IF y < 0 THEN <<"-">> \o Padded(Decimal(-y), 4, "0") ELSE Padded(Decimal(y), 4, "0")

----------------------------------------------------------------------------
\* Fields, and the values they are made of.  A tick is a Duration; `second'
\* is the number of ticks of the common type with seconds in a second.

NoYear == -32768
NoYmd  == [y |-> NoYear, m |-> 0, d |-> 0]
NoWeekday == 8

Fields(ymd, wd, hasTod, tod) ==
  [ymd |-> ymd, wd |-> wd, hasTod |-> hasTod, tod |-> tod]

DateFields(ymd) == Fields(ymd, NoWeekday, FALSE, HhMmSs(0, 1))

\* What each type puts into the fields.  A time point is split at the day
\* before it (floor), so that its time of day is never negative.
TimeFields(tp, ticksPerDay, unitsPerTick, second) ==
  LET sd == Floor(tp, ticksPerDay)
  IN  Fields(FromDays(sd), NoWeekday, TRUE,
             HhMmSs((tp - sd * ticksPerDay) * unitsPerTick, second))

DurationFields(d, second) == Fields(NoYmd, NoWeekday, TRUE, HhMmSs(d, second))
YearFields(y)             == DateFields(Ymd(y, 0, 0))
MonthFields(m)            == DateFields(Ymd(NoYear, m, 0))
DayFields(d)              == DateFields(Ymd(NoYear, 0, d))
WeekdayFields(wd)         == Fields(NoYmd, Weekday(wd), FALSE, HhMmSs(0, 1))
YearMonthFields(y, m)     == DateFields(Ymd(y, m, 0))
MonthDayFields(m, d)      == DateFields(Ymd(NoYear, m, d))

\* The zone a format may name: a local time has none.
UTC    == [known |-> TRUE, name |-> <<"UTC">>, minutes |-> 0]
NoZone == [known |-> FALSE, name |-> <<>>, minutes |-> 0]

----------------------------------------------------------------------------
\* What a conversion needs.  Without it the stream's failbit is set, which
\* the stream of date::format() turns into an exception.

\* The weekday comes from the date if there is one; the two must agree.
ExtractWeekday(f) == IF YmdOk(f.ymd) THEN WeekdayFromDays(ToDays(f.ymd)) ELSE f.wd

HasWeekday(f) ==
  IF YmdOk(f.ymd) THEN WeekdayOk(f.wd) => f.wd = ExtractWeekday(f) ELSE WeekdayOk(f.wd)

HasMonth(f) == MonthOk(f.ymd.m)

Provides(f, zone, c) ==
  CASE c \in {"a", "A", "u", "w"} -> HasWeekday(f)
    [] c \in {"b", "B", "h", "m"} -> HasMonth(f)
    [] c \in {"d", "e"}           -> f.ymd.d \in 1..31
    [] c \in {"C", "y", "Y"}      -> YearOk(f.ymd.y)
    [] c \in {"D", "F", "g", "G", "U", "V", "W"} -> YmdOk(f.ymd)
    [] c = "x"                    -> YmdOk(f.ymd) /\ HasWeekday(f)
    [] c = "c"                    -> YmdOk(f.ymd) /\ HasWeekday(f) /\ f.hasTod
    [] c = "j"                    -> YmdOk(f.ymd) \/ f.hasTod
    [] c \in {"z", "Z"}           -> zone.known
    [] c \in {"n", "t"}           -> TRUE
    [] OTHER                      -> f.hasTod

----------------------------------------------------------------------------
\* What a conversion writes.

\* Decimals of a second: as many as the smallest power of ten a tick divides.
FractionWidth(second) ==
  CHOOSE w \in 0..6 : 10^w % second = 0 /\ \A v \in 0..(w - 1) : 10^v % second # 0

\* Mutant: the fraction is not filled up with zeros.
SecondsTextShort(tod) ==
  Pad2(tod.s) \o (IF FractionWidth(tod.second) > 0
                  THEN <<".">> \o Decimal(tod.sub) ELSE <<>>)

SecondsText(tod) ==
  Pad2(tod.s) \o (IF FractionWidth(tod.second) > 0
                  THEN <<".">> \o Padded(Decimal(tod.sub), FractionWidth(tod.second), "0")
                  ELSE <<>>)

HourMinuteText(tod) == Pad2(tod.h) \o <<":">> \o Pad2(tod.m)

TodText(tod) ==
  (IF tod.neg THEN <<"-">> ELSE <<>>) \o HourMinuteText(tod) \o <<":">> \o SecondsText(tod)

HourNames(h) == IF IsAm(h) THEN "AM" ELSE "PM"

\* %D: the remainder of a C++ division has the sign of the year.
SlashDate(ymd) ==
  Pad2(ymd.m) \o <<"/">> \o Pad2(ymd.d) \o <<"/">> \o Pad2(ymd.y - Cut(ymd.y, 100) * 100)

\* %F: the sign of the year counts within its four characters.
DashDate(ymd) ==
  Padded(Signed(ymd.y), 4, "0") \o <<"-">> \o Pad2(ymd.m) \o <<"-">> \o Pad2(ymd.d)

CenturyText(y) == IF y >= 0 THEN Pad2(y \div 100) ELSE <<"-">> \o Pad2((99 - y) \div 100)

DayOfYear(f) ==
  IF YmdOk(f.ymd) THEN ToDays(f.ymd) - ToDays(Ymd(f.ymd.y, 1, 1)) + 1
  ELSE Cut(TodToDuration(f.tod), 86400 * f.tod.second)

\* %U and %W: the days before the first Sunday or Monday are in week 0.
WeekNumber(ymd, wd) ==
  LET ld == ToDays(ymd)
      st == FirstWeekday(ymd.y, wd)
  IN  IF ld < st THEN 0 ELSE Cut(ld - st, 7) + 1

\* %z: with a colon if the conversion is modified.
OffsetText(minutes, modified) ==
  LET m == Magnitude(minutes)
  IN  <<IF minutes < 0 THEN "-" ELSE "+">> \o Pad2(Cut(m, 60))
        \o (IF modified # "" THEN <<":">> ELSE <<>>) \o Pad2(m - Cut(m, 60) * 60)

UnitsText(second) == IF second = 1 THEN <<"s">> ELSE <<"m", "s">>

NameText(f, c) ==
  CASE c = "a" -> <<DayNames[ExtractWeekday(f) + 1]>>
    [] c = "A" -> <<FullDayNames[ExtractWeekday(f) + 1]>>
    [] c \in {"b", "h"} -> <<MonthNames[f.ymd.m]>>
    [] c = "B" -> <<FullMonthNames[f.ymd.m]>>

WeekdayText(f, c) ==
  LET wd == ExtractWeekday(f) IN Decimal(IF c = "u" THEN IsoEncoding(wd) ELSE wd)

DayText(f, c) ==
  IF c = "d" THEN Pad2(f.ymd.d) ELSE Padded(Decimal(f.ymd.d), 2, " ")

\* In two digits the sign of a year is lost.
YearDigits(y, c) == IF c \in {"y", "g"} THEN Pad2(Magnitude(y) % 100) ELSE YearText(y)

IsoYearText(f, c) == YearDigits(IsoYear(ToDays(f.ymd)), c)

HourText(tod, c) == Pad2(IF c = "H" THEN tod.h ELSE Make12(tod.h))

\* A modified %S is the facet's, which knows no fraction.
SecondText(tod, modified) == IF modified = "" THEN SecondsText(tod) ELSE Pad2(tod.s)

\* %X, %r and %c of the facet.
ClockText(tod) == HourMinuteText(tod) \o <<":">> \o Pad2(tod.s)

TwelveHourText(tod) ==
  HourText(tod, "I") \o <<":">> \o Pad2(tod.m) \o <<":">> \o Pad2(tod.s)
    \o <<" ", HourNames(tod.h)>>

DateClockText(f) ==
  NameText(f, "a") \o <<" ">> \o NameText(f, "b") \o <<" ">> \o DayText(f, "e")
    \o <<" ">> \o ClockText(f.tod) \o <<" ">> \o Signed(f.ymd.y)

TimeText(f, c, modified) ==
  CASE c \in {"H", "I"} -> HourText(f.tod, c)
    [] c = "M" -> Pad2(f.tod.m)
    [] c = "S" -> SecondText(f.tod, modified)
    [] c = "R" -> HourMinuteText(f.tod)
    [] c = "T" -> TodText(f.tod)
    [] c = "X" -> ClockText(f.tod)
    [] c = "r" -> TwelveHourText(f.tod)
    [] c = "p" -> <<HourNames(f.tod.h)>>
    [] c = "Q" -> Signed(TodToDuration(f.tod))
    [] c = "q" -> UnitsText(f.tod.second)

DateText(f, c) ==
  CASE c \in {"a", "A", "b", "B", "h"} -> NameText(f, c)
    [] c \in {"u", "w"} -> WeekdayText(f, c)
    [] c = "m" -> Pad2(f.ymd.m)
    [] c \in {"d", "e"} -> DayText(f, c)
    [] c = "C" -> CenturyText(f.ymd.y)
    [] c \in {"y", "Y"} -> YearDigits(f.ymd.y, c)
    [] c \in {"D", "x"} -> SlashDate(f.ymd)
    [] c = "F" -> DashDate(f.ymd)
    [] c = "j" -> Pad3(DayOfYear(f))
    [] c \in {"G", "g"} -> IsoYearText(f, c)
    [] c = "V" -> Pad2(IsoWeek(ToDays(f.ymd)))
    [] c = "U" -> Pad2(WeekNumber(f.ymd, Sunday))
    [] c = "W" -> Pad2(WeekNumber(f.ymd, Monday))

ConversionText(f, zone, c, modified) ==
  CASE c \in {"H", "I", "M", "S", "R", "T", "X", "r", "p", "Q", "q"} ->
         TimeText(f, c, modified)
    [] c = "c" -> DateClockText(f)
    [] c = "n" -> <<"\n">>
    [] c = "t" -> <<"\t">>
    [] c = "z" -> OffsetText(zone.minutes, modified)
    [] c = "Z" -> zone.name
    [] OTHER   -> DateText(f, c)

----------------------------------------------------------------------------
\* The machine.

FormatStart(f) ==
  [out |-> <<>>, command |-> FALSE, modified |-> "", threw |-> FALSE,
   insertNegative |-> f.hasTod /\ TodToDuration(f.tod) < 0]

Conversions ==
  {"a", "A", "b", "B", "h", "c", "x", "C", "d", "e", "D", "F", "g", "G", "H", "I", "j",
   "m", "M", "n", "p", "Q", "q", "r", "R", "S", "t", "T", "u", "U", "V", "w", "W", "X",
   "y", "Y", "z", "Z"}

\* The modifiers with which a conversion is written out as it stands.
Refused(c) ==
  CASE c \in {"d", "e", "H", "I", "m", "M", "S", "u", "U", "V", "w", "W"} -> {"E"}
    [] c \in {"c", "x", "X", "C", "Y"} -> {"O"}
    [] c \in {"y", "z"}                -> {}
    [] OTHER                           -> {"E", "O"}

Modifier(modified) == IF modified = "" THEN <<>> ELSE <<modified>>

Put(s, text) == [s EXCEPT !.out = @ \o text, !.command = FALSE, !.modified = ""]

Echo(s, c) == Put(s, <<"%">> \o Modifier(s.modified) \o <<c>>)

\* %H, %I, %M and %S put the sign of a negative duration first, once.
WithSign(s, c) ==
  IF c \in {"H", "I", "M", "S"} /\ s.insertNegative
  THEN [s EXCEPT !.out = Append(@, "-"), !.insertNegative = FALSE]
  ELSE s

Convert(f, zone, s, c) ==
  CASE s.modified \in Refused(c) /\ ~(c = "w" /\ ~HasWeekday(f)) -> Echo(s, c)
    [] s.modified \in Refused(c) /\ c = "w" /\ ~HasWeekday(f) -> [s EXCEPT !.threw = TRUE]
    [] s.modified \notin Refused(c) /\ ~Provides(f, zone, c) -> [s EXCEPT !.threw = TRUE]
    [] s.modified \notin Refused(c) /\ Provides(f, zone, c) ->
         Put(WithSign(s, c), ConversionText(f, zone, c, s.modified))

FormatStep(f, zone, s, c) ==
  CASE s.threw -> s
    [] ~s.threw /\ ~s.command ->
         IF c = "%" THEN [s EXCEPT !.command = TRUE] ELSE Put(s, <<c>>)
    [] ~s.threw /\ s.command ->
         CASE c \in {"E", "O"} /\ s.modified = "" -> [s EXCEPT !.modified = c]
           [] c = "%" /\ s.modified = ""          -> Put(s, <<"%">>)
           [] c \in Conversions                   -> Convert(f, zone, s, c)
           [] OTHER                               -> Echo(s, c)

\* A `%' or modifier left open at the end is written out.
FormatEnd(s) ==
  IF s.command THEN Put(s, <<"%">> \o Modifier(s.modified)) ELSE s

Format(f, zone, fmt) ==
  FormatEnd(FoldLeft(LAMBDA s, c : FormatStep(f, zone, s, c), FormatStart(f), fmt))
=============================================================================
