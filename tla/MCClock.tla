------------------------------- MODULE MCClock -------------------------------
(***************************************************************************)
(* Small instances of Clock: the afternoon of 26 January of year 10, and   *)
(* noon and midnight before and after it.                                  *)
(***************************************************************************)
EXTENDS Clock

At(day, hours, minutes, seconds) ==
  MkTime(MkDay(day, 1, 10), hours, minutes, seconds)

MCInstants == {At(26, 11, 58, 30), At(26, 12, 10, 5), At(26, 16, 8, 20),
               At(26, 16, 10, 0), At(26, 23, 50, 40), At(27, 0, 30, 0),
               At(27, 17, 4, 11)}
MCZones  == {0, 2 * Hour, -(5 * Hour)}
MCSkews  == {0, -100, 400}
MCErrors == {-(40 * Day) - 3 * Hour + 20, -(40 * Day) + 1000}
MCTimeStyle == {"24h", "12h"}
MCDateStyle == {"dmy", "mdy", "unset"}
MonthFirst  == {"mdy"}
=============================================================================
