------------------------------ MODULE WeekMath ------------------------------
(***************************************************************************)
(* The arithmetic of ISO weeks behind the weekly shift of TriMC            *)
(* (src/cron/week-math.ts).  A date is its year, its day of the year,      *)
(* counted from 0, and its day of the week, Monday being 1 and Sunday 7.   *)
(* Moving a date by some days is what JavaScript's Date does in the time   *)
(* zone of the server, which has no summer time; strings are left out.     *)
(***************************************************************************)
EXTENDS Integers

Leap(y) == (y % 4 = 0 /\ y % 100 # 0) \/ y % 400 = 0
Length(y) == IF Leap(y) THEN 366 ELSE 365

Date(y, k, w) == [year |-> y, yday |-> k, wday |-> w]
Dates == {d \in [year : Int, yday : 0..365, wday : 1..7] : d.yday < Length(d.year)}

\* The date n days later, or earlier if n is negative, by at most a year.
AddDays(d, n) ==
  LET k == d.yday + n
      w == ((d.wday - 1 + n) % 7) + 1
  IN IF k < 0 THEN Date(d.year - 1, k + Length(d.year - 1), w)
     ELSE IF k >= Length(d.year) THEN Date(d.year + 1, k - Length(d.year), w)
     ELSE Date(d.year, k, w)

\* The week of the Thursday, counted in the Thursday's year.
IsoWeekOf(d) == (AddDays(d, 4 - d.wday).yday \div 7) + 1

\* December 28 of the year before d lies in that year's last week.
IsoWeekOfLastWeekOfYearBefore(d) == IsoWeekOf(AddDays(d, -(d.yday + 4)))

MondayOf(d) == AddDays(d, 1 - d.wday)

ShiftOfSameYear(now) ==  \* mutant: the week before week 1 is week 0
  LET monday == MondayOf(AddDays(now, 1))
  IN [from |-> IsoWeekOf(monday) - 1, to |-> IsoWeekOf(monday), start |-> monday]

ShiftOf52Weeks(now) ==  \* mutant: every year has 52 weeks
  LET monday == MondayOf(AddDays(now, 1))
      to == IsoWeekOf(monday)
  IN [from |-> IF to - 1 < 1 THEN 52 ELSE to - 1, to |-> to, start |-> monday]

ComputeWeekShiftTokens(now) ==
  LET monday == MondayOf(AddDays(now, 1))
      to == IsoWeekOf(monday)
  IN [from |-> IF to - 1 < 1 THEN IsoWeekOfLastWeekOfYearBefore(monday) ELSE to - 1,
      to |-> to, start |-> monday]
=============================================================================
