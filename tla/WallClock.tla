----------------------------- MODULE WallClock ------------------------------
(***************************************************************************)
(* What date.h promises of a clock that ticks: the calendar on the wall.   *)
(* Days, weekdays and weeks are counted one by one, the months have their  *)
(* lengths, and nothing is computed from a number of days.                 *)
(***************************************************************************)
EXTENDS Integers

VARIABLES
  unit,  \* what one tick adds
  wall   \* date, weekday, day of the year, weeks and time

MonthLength(y, m) ==
  CASE m \in {4, 6, 9, 11} -> 30
    [] m = 2               -> IF y % 4 = 0 /\ (y % 100 = 0 => y % 400 = 0) THEN 29 ELSE 28
    [] OTHER               -> 31

NextDate(w) ==
  LET monthEnds == w.d = MonthLength(w.y, w.m)
      yearEnds  == monthEnds /\ w.m = 12
      d  == IF monthEnds THEN 1 ELSE w.d + 1
      m  == IF yearEnds THEN 1 ELSE IF monthEnds THEN w.m + 1 ELSE w.m
      wd == IF w.wd = 6 THEN 0 ELSE w.wd + 1
      \* The ISO year starts on the Monday from 29 December to 4 January.
      isoStarts == wd = 1 /\ ((m = 12 /\ d >= 29) \/ (m = 1 /\ d <= 4))
  IN  [y |-> IF yearEnds THEN w.y + 1 ELSE w.y, m |-> m, d |-> d, wd |-> wd,
       yday |-> IF yearEnds THEN 1 ELSE w.yday + 1,
       sundays |-> (IF yearEnds THEN 0 ELSE w.sundays) + (IF wd = 0 THEN 1 ELSE 0),
       mondays |-> (IF yearEnds THEN 0 ELSE w.mondays) + (IF wd = 1 THEN 1 ELSE 0),
       isoYear |-> IF isoStarts THEN w.isoYear + 1 ELSE w.isoYear,
       isoWeek |-> IF isoStarts THEN 1 ELSE IF wd = 1 THEN w.isoWeek + 1 ELSE w.isoWeek,
       h |-> w.h, min |-> w.min, s |-> w.s, ms |-> w.ms]

AddHour(w) ==
  IF w.h < 23 THEN [w EXCEPT !.h = @ + 1] ELSE [NextDate(w) EXCEPT !.h = 0]

AddMinute(w) ==
  IF w.min < 59 THEN [w EXCEPT !.min = @ + 1] ELSE [AddHour(w) EXCEPT !.min = 0]

AddSecond(w) ==
  IF w.s < 59 THEN [w EXCEPT !.s = @ + 1] ELSE [AddMinute(w) EXCEPT !.s = 0]

AddMillisecond(w) ==
  IF w.ms < 999 THEN [w EXCEPT !.ms = @ + 1] ELSE [AddSecond(w) EXCEPT !.ms = 0]

Init == unit \in {"ms", "s", "min", "h", "day"}

Next ==
  /\ UNCHANGED unit
  /\ wall' = CASE unit = "ms"  -> AddMillisecond(wall)
               [] unit = "s"   -> AddSecond(wall)
               [] unit = "min" -> AddMinute(wall)
               [] unit = "h"   -> AddHour(wall)
               [] unit = "day" -> NextDate(wall)

Spec == Init /\ [][Next]_<<unit, wall>>
=============================================================================
