------------------------------ MODULE MCDates -------------------------------
(***************************************************************************)
(* The walks and the pieces of text that TLC checks.                       *)
(***************************************************************************)
EXTENDS Dates

Start(unit, first, ticks) == [unit |-> unit, tp |-> first, ticks |-> ticks]

SomeStarts ==
  {
   \* A year and its leap day, day by day; around 1900, which has none.
   Start("day", ToDays(Ymd(1999, 12, 30)), 430),
   Start("day", ToDays(Ymd(1900, 2, 25)), 10),
   \* The first and the last days of the range, an era before 1970, year 0.
   Start("day", ToDays(Ymd(MinYear, 1, 1)), 5),
   Start("day", ToDays(Ymd(MaxYear, 12, 26)), 5),
   Start("day", ToDays(Ymd(-1, 12, 20)), 80),
   Start("day", ToDays(Ymd(1599, 12, 20)), 80),
   \* Midnight at the end of years that end in week 52, 53 and 1.
   Start("h", 24 * ToDays(Ymd(2020, 12, 31)) + 23, 80),
   Start("min", 1440 * ToDays(Ymd(2024, 12, 29)) + 1439, 3),
   Start("min", 1440 * ToDays(Ymd(2021, 2, 28)) + 1439, 61),
   Start("s", 86400 * ToDays(Ymd(2005, 1, 1)) + 86399, 61),
   \* The epoch, from below, to the millisecond.
   Start("ms", -1, 3),
   Start("ms", -86400001, 3)
  }

Piece(kind, fmt, back) == [kind |-> kind, fmt |-> fmt, back |-> back]

SomePieces ==
  {
   Piece("sys_time", <<"%", "F", " ", "%", "T">>, "whole"),
   Piece("sys_time", <<"%", "F", "_", "%", "H", "-", "%", "M", "-", "%", "S">>, "whole"),
   Piece("sys_time", <<"%", "Y", "-", "%", "j", "T", "%", "R", ":", "%", "S">>, "whole"),
   Piece("sys_time", <<"%", "G", "-", "W", "%", "V", "-", "%", "u", " ", "%", "T">>, "whole"),
   Piece("sys_time", <<"%", "Y", " ", "%", "U", " ", "%", "w", " ", "%", "T">>, "whole"),
   Piece("sys_time", <<"%", "Y", " ", "%", "W", " ", "%", "u", "%", "n", "%", "T">>, "whole"),
   Piece("sys_time", <<"%", "C", "%", "y", "%", "m", "%", "d", " ", "%", "T", "%", "z">>, "whole"),
   Piece("sys_time", <<"%", "d", " ", "%", "B", " ", "%", "Y", " ", "%", "T", " ", "%", "Z", " ", "%", "E", "z">>, "whole"),
   Piece("sys_time", <<"%", "g", "%", "V", "%", "t", "%", "u", "%", "H", "%", "M", "%", "S">>, "whole"),
   Piece("sys_time", <<"%", "y", "%", "m", "%", "d", "%", "H", "%", "M", "%", "S">>, "whole"),
   Piece("sys_time", <<"%", "c", " ", "%", "x", " ", "%", "X", " ", "%", "r", " ", "%", "p", " ", "%", "Q", "%", "q">>, "never"),
   Piece("sys_time", <<"%", "D">>, "part"),
   Piece("sys_time", <<"%", "A">>, "part"),
   Piece("sys_time", <<"%", "V">>, "part"),
   Piece("month_day", <<"%", "h", " ", "%", "e">>, "never"),
   Piece("sys_time", <<"%", "H", " ", "(", "%", "I", ")">>, "part"),
   Piece("sys_time", <<"%", "E", "b", "%", "O", "Q", "1", "0", "0", "%", "%", " ", "%">>, "part"),
   Piece("local_time", <<"%", "F", " ", "%", "T">>, "whole"),
   Piece("local_time", <<"%", "F", " ", "%", "z">>, "part"),
   Piece("duration", <<"%", "H", ":", "%", "M", ":", "%", "S">>, "whole"),
   Piece("duration", <<"%", "T">>, "whole"),
   Piece("year", <<"%", "Y">>, "whole"),
   Piece("year", <<"%", "C", "%", "y">>, "whole"),
   Piece("month", <<"%", "b">>, "whole"),
   Piece("month", <<"%", "m">>, "whole"),
   Piece("day", <<"%", "d">>, "whole"),
   Piece("weekday", <<"%", "A">>, "whole"),
   Piece("weekday", <<"%", "u">>, "whole"),
   Piece("weekday", <<"%", "F">>, "part"),
   Piece("year_month", <<"%", "B", " ", "%", "Y">>, "whole"),
   Piece("month_day", <<"%", "d", ".", "%", "m", ".">>, "whole"),
   Piece("year_month_day", <<"%", "F">>, "whole"),
   Piece("year_month_day", <<"%", "a", " ", "%", "G", "-", "W", "%", "V">>, "whole"),
   Piece("year_month_day", <<"%", "D">>, "part")
  }
=============================================================================
