----------------------------- MODULE DateParse ------------------------------
(***************************************************************************)
(* date::parse() and from_stream() of date.h: the characters of a format   *)
(* take characters from a text and collect partial values (a year, a week  *)
(* number, an hour, ...); at the end the partial values are combined to a  *)
(* date and a time of day, and rejected if they contradict each other.     *)
(*                                                                         *)
(* Left out are the conversions that hand the stream to the standard       *)
(* library's time_get facet and take over what it finds: %c, %x, %X, %r,   *)
(* %p and the modified numbers.  Names of days and months, which also come *)
(* from the facet, are one character here and read as such.                *)
(***************************************************************************)
EXTENDS DateFormat

----------------------------------------------------------------------------
\* The input stream: the rest of the text, failbit and eofbit. After an
\* exception, which nothing in date.h catches, nothing more is read.

\* Looking at a character where none is left sets eofbit, a second time failbit.
Peek(p) ==
  IF p.in = <<>> THEN [p EXCEPT !.fail = @ \/ p.eof, !.eof = TRUE] ELSE p

Fail(p) == [p EXCEPT !.fail = TRUE]
Throw(p) == [p EXCEPT !.fail = TRUE, !.threw = TRUE]
Good(p) == ~p.fail /\ ~p.eof

Drop(p, k) == [p EXCEPT !.in = SubSeq(@, k + 1, Len(@))]

ReadChar(p, c) ==
  CASE p.fail -> p
    [] ~p.fail /\ p.in = <<>> -> [p EXCEPT !.fail = TRUE, !.eof = TRUE]
    [] ~p.fail /\ p.in # <<>> -> IF Head(p.in) = c THEN Drop(p, 1) ELSE Fail(p)

ReadChars(p, text) == FoldLeft(ReadChar, p, text)

IsDigit(c) == \E i \in 1..10 : Numerals[i] = c
DigitValue(c) == (CHOOSE i \in 1..10 : Numerals[i] = c) - 1
NumberOf(digits) == FoldLeft(LAMBDA x, c : 10 * x + DigitValue(c), 0, digits)
IsSpace(c) == c \in {" ", "\n", "\t"}

\* How many characters come before the first of the stops, at most M; a limit
\* of 0 is never met, so that it does not limit.
RunLength(text, M, stops) ==
  Min({i - 1 : i \in stops} \cup {IF M = 0 \/ M > Len(text) THEN Len(text) ELSE M})

NonDigits(text) == {i \in DOMAIN text : ~IsDigit(text[i])}
NonSpaces(text) == {i \in DOMAIN text : ~IsSpace(text[i])}

\* Take k characters; unless the limit M is met, the one after them is looked at.
Take(p, k, M) ==
  LET q == Drop(p, k) IN IF q.in = <<>> /\ (k # M \/ M = 0) THEN Peek(q) ELSE q

ReadUnsigned(p, m, M) ==
  LET k == RunLength(p.in, M, NonDigits(p.in))
      q == Take(p, k, M)
  IN  IF p.fail THEN [p |-> p, x |-> 0]
      ELSE [p |-> IF k < m THEN Fail(q) ELSE q, x |-> NumberOf(SubSeq(p.in, 1, k))]

ReadSigned(p, m, M) ==
  LET u == ReadUnsigned(Drop(p, 1), m, M)
  IN  CASE p.fail \/ p.in = <<>> -> [p |-> Fail(Peek(p)), x |-> 0]
        [] ~p.fail /\ p.in # <<>> ->
             CASE Head(p.in) = "-"   -> [p |-> u.p, x |-> -u.x]
               [] Head(p.in) = "+"   -> u
               [] IsDigit(Head(p.in)) -> ReadUnsigned(p, m, M)
               [] OTHER              -> [p |-> Fail(p), x |-> 0]

\* Seconds with a fraction, rounded to ticks. A point alone is no number for
\* std::stold(), which throws.
ReadSeconds(p, M, second) ==
  LET FirstPoint(i) == p.in[i] = "." /\ \A j \in 1..(i - 1) : p.in[j] # "."
      k == RunLength(p.in, M, {i \in NonDigits(p.in) : ~FirstPoint(i)})
      taken    == SubSeq(p.in, 1, k)
      digits   == SelectSeq(taken, IsDigit)
      decimals == IF Len(digits) = k THEN 0
                  ELSE k - (CHOOSE i \in 1..k : taken[i] = ".")
  IN  CASE p.fail -> [p |-> p, x |-> 0]
        [] ~p.fail /\ k = 0 -> [p |-> Fail(Take(p, k, M)), x |-> 0]
        [] ~p.fail /\ k > 0 /\ digits = <<>> -> [p |-> Throw(p), x |-> 0]
        [] ~p.fail /\ digits # <<>> ->
             [p |-> Take(p, k, M), x |-> Round(NumberOf(digits) * second, 10^decimals)]

SkipSpace(p) ==
  LET k == RunLength(p.in, 0, NonSpaces(p.in))
  IN  IF Good(p) THEN Take(p, k, 0) ELSE p

\* The name of a day or a month, as the facet reads it.
ReadName(p, names, full) ==
  LET Named(i) == p.in # <<>> /\ Head(p.in) \in {names[i], full[i]}
  IN  IF p.fail \/ p.eof \/ \A i \in DOMAIN names : ~Named(i)
      THEN [p |-> Fail(Peek(p)), x |-> 0]
      ELSE [p |-> [Drop(p, 1) EXCEPT !.eof = Len(p.in) = 1],
            x |-> CHOOSE i \in DOMAIN names : Named(i)]

----------------------------------------------------------------------------
\* The partial values, each with a value that stands for none.

\* The smallest int.
Least == -2147483647 - 1

Nil == [Y |-> Least, G |-> Least, C |-> -21474836, y |-> 100, g |-> 100,
        m |-> 0, d |-> 0, j |-> -1, wd |-> NoWeekday, H |-> Least, I |-> 0,
        M |-> Least, s |-> Least, U |-> 100, V |-> 100, W |-> 100,
        offset |-> Least, zone |-> <<>>]

\* A value read twice must be the same.
\* Mutant: the last value that is read counts.
CheckedSetLast(p, field, x) == IF p.fail THEN p ELSE [p EXCEPT !.val[field] = x]

CheckedSet(p, field, x) ==
  CASE p.fail -> p
    [] ~p.fail /\ p.val[field] = Nil[field] -> [p EXCEPT !.val[field] = x]
    [] ~p.fail /\ p.val[field] # Nil[field] -> IF p.val[field] = x THEN p ELSE Fail(p)

\* The numbers: their partial value, whether a sign is read, the usual width.
Number(field, signed, width) == [field |-> field, signed |-> signed, width |-> width]

Reader ==
  [C |-> Number("C", TRUE, 2), d |-> Number("d", TRUE, 2), e |-> Number("d", TRUE, 2),
   H |-> Number("H", FALSE, 2), I |-> Number("I", TRUE, 2), j |-> Number("j", FALSE, 3),
   M |-> Number("M", FALSE, 2), m |-> Number("m", TRUE, 2), Y |-> Number("Y", TRUE, 4),
   y |-> Number("y", FALSE, 2), g |-> Number("g", FALSE, 2), G |-> Number("G", TRUE, 4),
   U |-> Number("U", FALSE, 2), V |-> Number("V", FALSE, 2), W |-> Number("W", FALSE, 2),
   u |-> Number("wd", FALSE, 1), w |-> Number("wd", FALSE, 1)]

ReadNumber(p, c) ==
  LET r == Reader[c]
      w == IF p.width = -1 THEN r.width ELSE p.width
      q == IF r.signed THEN ReadSigned(p, 1, w) ELSE ReadUnsigned(p, 1, w)
      inRange == CASE c = "u" -> q.x \in 1..7
                   [] c = "w" -> q.x \in 0..6
                   [] c = "I" -> q.x \in 1..12
                   [] OTHER   -> TRUE
  IN  CheckedSet(IF inRange THEN q.p ELSE Fail(q.p), r.field,
                 IF c = "u" /\ q.x = 7 THEN 0 ELSE q.x)

ReadWeekdayName(p) ==
  LET q == ReadName(p, DayNames, FullDayNames) IN CheckedSet(q.p, "wd", q.x - 1)

ReadMonthName(p) ==
  LET q == ReadName(p, MonthNames, FullMonthNames) IN CheckedSet(q.p, "m", q.x)

ReadSlashDate(p) ==
  LET n == ReadUnsigned(p, 1, 2)
      d == ReadUnsigned(ReadChar(n.p, "/"), 1, 2)
      y == ReadSigned(ReadChar(d.p, "/"), 1, 2)
  IN  CheckedSet(CheckedSet(CheckedSet(y.p, "y", y.x), "m", n.x), "d", d.x)

ReadDashDate(p) ==
  LET y == ReadSigned(p, 1, IF p.width = -1 THEN 4 ELSE p.width)
      n == ReadUnsigned(ReadChar(y.p, "-"), 1, 2)
      d == ReadUnsigned(ReadChar(n.p, "-"), 1, 2)
  IN  CheckedSet(CheckedSet(CheckedSet(d.p, "Y", y.x), "m", n.x), "d", d.x)

ReadHourMinute(p) ==
  LET h == ReadUnsigned(p, 1, 2)
      m == ReadUnsigned(ReadChar(h.p, ":"), 1, 2)
  IN  CheckedSet(CheckedSet(m.p, "H", h.x), "M", m.x)

SecondsWidth(second) == IF second = 1 THEN 2 ELSE 3 + FractionWidth(second)

ReadTime(p, second) ==
  LET h == ReadUnsigned(p, 1, 2)
      m == ReadUnsigned(ReadChar(h.p, ":"), 1, 2)
      s == ReadSeconds(ReadChar(m.p, ":"), SecondsWidth(second), second)
  IN  CheckedSet(CheckedSet(CheckedSet(s.p, "H", h.x), "M", m.x), "s", s.x)

ReadSecond(p, second) ==
  LET s == ReadSeconds(p, IF p.width = -1 THEN SecondsWidth(second) ELSE p.width, second)
  IN  CheckedSet(s.p, "s", s.x)

\* %z: hours of two digits, then minutes; with a colon if it is modified.
ReadOffset(p) ==
  LET neg    == p.in # <<>> /\ Head(p.in) = "-"
      h      == ReadSigned(Peek(p), IF p.modified = "" THEN 2 ELSE 1, 2)
      colon  == h.p.in # <<>> /\ Head(h.p.in) = ":"
      more   == /\ Good(h.p) /\ h.p.in # <<>>
                /\ IF p.modified = "" THEN IsDigit(Head(h.p.in)) ELSE colon
      m      == ReadUnsigned(IF colon THEN Drop(h.p, 1) ELSE h.p, 2, 2)
      length == Magnitude(h.x) * 60 + (IF more THEN m.x ELSE 0)
      q      == IF more THEN m.p ELSE IF Good(h.p) THEN Peek(h.p) ELSE h.p
  IN  CheckedSet(q, "offset", IF neg THEN -length ELSE length)

\* %Z: the name of a zone, read up to a character no such name has.
ReadZone(p) ==
  LET InName(c) == ~IsSpace(c) /\ c \notin {":", ".", ",", "%", "[", "]", "(", ")"}
      k == RunLength(p.in, 0, {i \in DOMAIN p.in : ~InName(p.in[i])})
  IN  IF ~Good(p) \/ k = 0 THEN Fail(IF Good(p) THEN Peek(p) ELSE p)
      ELSE CheckedSet(Take(p, k, 0), "zone", SubSeq(p.in, 1, k))

----------------------------------------------------------------------------
\* The machine.

ParseStart(text) ==
  [in |-> text, fail |-> FALSE, eof |-> FALSE, threw |-> FALSE, command |-> FALSE,
   modified |-> "", width |-> -1, val |-> Nil]

Close(p) == [p EXCEPT !.command = FALSE, !.modified = "", !.width = -1]

\* A conversion that is refused must stand in the text as it does in the format.
ReadEcho(p, chars) ==
  Close(ReadChars(p, <<"%">> \o (IF p.width = -1 THEN <<>> ELSE Decimal(p.width))
                            \o Modifier(p.modified) \o chars))

\* %n takes one space, %t at most one.  At the end of the text the conversion
\* stays open.
ReadOneSpace(p, c) ==
  CASE p.in = <<>> -> IF c = "n" THEN Fail(Peek(p)) ELSE Peek(p)
    [] p.in # <<>> /\ IsSpace(Head(p.in)) -> Close(Drop(p, 1))
    [] p.in # <<>> /\ ~IsSpace(Head(p.in)) -> Close(IF c = "n" THEN Fail(p) ELSE p)

ReadConversion(p, c, second) ==
  CASE c \in {"a", "A"}      -> Close(ReadWeekdayName(p))
    [] c \in {"b", "B", "h"} -> Close(ReadMonthName(p))
    [] c \in DOMAIN Reader   -> Close(ReadNumber(p, c))
    [] c = "D" -> Close(ReadSlashDate(p))
    [] c = "F" -> Close(ReadDashDate(p))
    [] c = "R" -> Close(ReadHourMinute(p))
    [] c = "T" -> Close(ReadTime(p, second))
    [] c = "S" -> Close(ReadSecond(p, second))
    [] c = "z" -> Close(ReadOffset(p))
    [] c = "Z" -> Close(ReadZone(p))
    [] c \in {"n", "t"} -> ReadOneSpace(p, c)

Readable ==
  DOMAIN Reader \cup {"a", "A", "b", "B", "h", "D", "F", "R", "T", "S", "z", "Z", "n", "t"}

\* The letters from_stream() knows: %Q and %q are written but not read.
ParseConversions == Conversions \ {"Q", "q"}

\* The modifiers a conversion does not take.
RefusedRead(c) ==
  CASE c \in {"d", "e", "H", "M", "m", "S", "u", "w"} -> {"E"}
    [] c \in {"c", "x", "X", "Y"}                     -> {"O"}
    [] c \in {"C", "y", "z"}                          -> {}
    [] OTHER                                          -> {"E", "O"}

Echoed(p, c) ==
  CASE c \in ParseConversions -> p.modified \in RefusedRead(c)
    [] c \in {"E", "O", "%"}  -> p.modified # ""
    [] OTHER                  -> ~IsDigit(c) \/ p.modified # ""

ReadCommand(p, c, second) ==
  CASE Echoed(p, c) -> ReadEcho(p, <<c>>)
    [] ~Echoed(p, c) /\ c = "%" -> Close(ReadChar(p, c))
    [] ~Echoed(p, c) /\ c \in {"E", "O"} -> [p EXCEPT !.modified = c]
    [] ~Echoed(p, c) /\ IsDigit(c) ->
         [p EXCEPT !.width = (IF @ = -1 THEN 0 ELSE 10 * @) + DigitValue(c)]
    [] ~Echoed(p, c) /\ c \in Readable /\ (p.modified = "" \/ c = "z") ->
         ReadConversion(p, c, second)

ParseStep(p, c, second) ==
  CASE p.fail -> p
    [] ~p.fail /\ p.command  -> ReadCommand(p, c, second)
    [] ~p.fail /\ ~p.command ->
         CASE c = "%"    -> [p EXCEPT !.command = TRUE]
           [] IsSpace(c) -> SkipSpace(p)
           [] OTHER      -> ReadChar(p, c)

\* A `%' left open at the end of the format must stand in the text.
ParseEnd(p) == IF Good(p) /\ p.command THEN ReadEcho(p, <<>>) ELSE p

----------------------------------------------------------------------------
\* The partial values are combined.

\* A year of two digits and an optional century, as a full year: c and the
\* year must agree if both were read.
WithCentury(century, full, two) ==
  LET c == IF century # Nil.C THEN century
           ELSE IF full = Least THEN (IF two >= 69 THEN 19 ELSE 20)
           ELSE Cut(IF full >= 0 THEN full ELSE full - 100, 100)
      t == IF c >= 0 THEN 100 * c + two ELSE 100 * (c + 1) - (IF two = 0 THEN 100 ELSE two)
  IN  IF two = 100 THEN [ok |-> TRUE, century |-> century, full |-> full]
      ELSE [ok |-> two \in 0..99 /\ full \in {Least, t}, century |-> c, full |-> t]

WithYears(val) ==
  LET yy == WithCentury(val.C, val.Y, val.y)
      gg == WithCentury(yy.century, val.G, val.g)
  IN  [ok |-> yy.ok /\ gg.ok, computed |-> FALSE,
       val |-> [val EXCEPT !.Y = IF yy.full \in MinYear..MaxYear THEN yy.full ELSE Least,
                           !.G = gg.full]]

\* A date computed from a week or a day of the year fills in what was not
\* read and must agree with what was.
Place(t, ymd, withYear) ==
  LET v == t.val
  IN  [ok  |-> /\ t.ok
               /\ withYear /\ v.Y # Nil.Y => Short(v.Y) = ymd.y
               /\ v.m # Nil.m => Byte(v.m) = ymd.m
               /\ v.d # Nil.d => Byte(v.d) = ymd.d,
       computed |-> t.computed \/ withYear,
       val |-> [v EXCEPT !.Y = IF @ = Nil.Y THEN ymd.y ELSE @,
                         !.m = IF @ = Nil.m THEN ymd.m ELSE @,
                         !.d = IF @ = Nil.d THEN ymd.d ELSE @]]

FromIsoWeek(t) ==
  LET v == t.val
  IN  IF t.ok /\ v.G # Nil.G /\ v.V # Nil.V /\ v.wd # Nil.wd
      THEN Place(t, FromDays(IsoStart(v.G) + 7 * (v.V - 1)
                               + WeekdayMinus(Weekday(v.wd), Monday)), TRUE)
      ELSE t

FromWeek(t, week, first) ==
  LET v == t.val
  IN  IF t.ok /\ v.Y # Nil.Y /\ week # 100 /\ v.wd # Nil.wd
      THEN Place(t, FromDays(FirstWeekday(v.Y, first) + 7 * (week - 1)
                               + WeekdayMinus(Weekday(v.wd), first)), TRUE)
      ELSE t


FromDayOfYear(t) ==
  LET v == t.val
      u == Place(t, FromDays(ToDays(Ymd(v.Y, 1, 1)) + v.j - 1), FALSE)
  IN  IF t.ok /\ v.j # Nil.j /\ v.Y # Nil.Y THEN [u EXCEPT !.val.j = Nil.j] ELSE t

\* A year that was not read is the smallest int, as a short: 0.
DateOf(v) == Ymd(v.Y, v.m, v.d)

\* The weekday and the week numbers that were read fit the date, as far as
\* the date was not computed from some of them.
FitsDate(t, ymd) ==
  LET v  == t.val
      sd == ToDays(ymd)
  IN  /\ v.wd # Nil.wd => v.wd = WeekdayFromDays(sd)
      /\ ~t.computed =>
           /\ v.G # Nil.G => v.G = IsoYear(sd)
           /\ v.V # Nil.V => v.V = IsoWeek(sd)
           /\ v.U # Nil.U => v.U = Floor(sd - FirstWeekday(ymd.y, Sunday), 7) + 1
           /\ v.W # Nil.W => v.W = Floor(sd - FirstWeekday(ymd.y, Monday), 7) + 1

\* An hour of twelve that was read without AM or PM fits the hour.
FitsHour(v) ==
  v.I # Nil.I /\ v.H # Nil.H =>
    IF v.I = 12 THEN v.H \in {0, 12} ELSE v.H \in {v.I, v.I + 12}

TodOf(v, second) ==
  [neg |-> FALSE,
   h |-> (IF v.H = Nil.H THEN 0 ELSE v.H) + (IF v.j = Nil.j THEN 0 ELSE 24 * v.j),
   m |-> IF v.M = Nil.M THEN 0 ELSE v.M,
   s |-> IF v.s = Nil.s THEN 0 ELSE Cut(v.s, second),
   sub |-> IF v.s = Nil.s THEN 0 ELSE v.s - Cut(v.s, second) * second,
   second |-> second]

FilledIn(val) ==
  FromDayOfYear(FromWeek(FromWeek(FromIsoWeek(WithYears(val)), val.U, Sunday), val.W, Monday))

Result(p, t, ymd, second) ==
  LET wd == IF t.val.wd = Nil.wd /\ YmdOk(ymd) THEN WeekdayFromDays(ToDays(ymd)) ELSE t.val.wd
  IN  [threw  |-> p.threw,
       ok     |-> ~p.fail /\ t.ok /\ (YmdOk(ymd) => FitsDate(t, ymd)) /\ FitsHour(t.val),
       ymd    |-> ymd,
       wd     |-> Weekday(wd),
       tod    |-> TodOf(t.val, second),
       hasTod |-> \E k \in {"H", "M", "s", "j"} : t.val[k] # Nil[k],
       offset |-> IF p.val.offset = Nil.offset THEN 0 ELSE p.val.offset]

Dated(p, t, second)  == Result(p, t, DateOf(t.val), second)
Combine(p, second)   == Dated(p, FilledIn(p.val), second)

Parse(text, fmt, second) ==
  Combine(ParseEnd(FoldLeft(LAMBDA p, c : ParseStep(p, c, second), ParseStart(text), fmt)),
          second)

----------------------------------------------------------------------------
\* What each type takes from the fields: whether it is set, and its value.

Parsed(ok, value) == [ok |-> ok, value |-> IF ok THEN value ELSE 0]

\* Rounded from an even number of days: of two ticks equally near, the even
\* one is taken.
TimeParsed(r, ticksPerDay, unitsPerTick, offset) ==
  LET odd   == ToDays(r.ymd) % 2
      local == (odd * 86400 - offset * 60) * r.tod.second + TodToDuration(r.tod)
  IN  Parsed(r.ok /\ YmdOk(r.ymd) /\ InConventionalRange(r.tod),
             (ToDays(r.ymd) - odd) * ticksPerDay + Round(local, unitsPerTick))

\* duration_cast to the ticks asked for.
DurationParsed(r, unitsPerTick) ==
  Parsed(r.ok /\ r.hasTod, Cut(TodToDuration(r.tod), unitsPerTick))

YearParsed(r)      == Parsed(r.ok /\ YearOk(r.ymd.y), r.ymd.y)
MonthParsed(r)     == Parsed(r.ok /\ MonthOk(r.ymd.m), r.ymd.m)
DayParsed(r)       == Parsed(r.ok /\ r.ymd.d \in 1..31, r.ymd.d)
WeekdayParsed(r)   == Parsed(r.ok /\ WeekdayOk(r.wd), r.wd)
YearMonthParsed(r) == Parsed(r.ok /\ MonthOk(r.ymd.m), <<r.ymd.y, r.ymd.m>>)
MonthDayParsed(r)  == Parsed(r.ok /\ MonthOk(r.ymd.m) /\ r.ymd.d \in 1..31, <<r.ymd.m, r.ymd.d>>)
YmdParsed(r)       == Parsed(r.ok /\ YmdOk(r.ymd), r.ymd)
=============================================================================
