---------------------------- MODULE MCCommandRun ----------------------------
(***************************************************************************)
(* CommandRun around the ends of nine years, which begin on every day of   *)
(* the week, two of them leap years; the job may miss a week.              *)
(***************************************************************************)
EXTENDS CommandRun

\* Day 0 is January 1 of the year 1, a Monday.
NewYear(y) ==
  LET n == 365 * (y - 1) + (y - 1) \div 4 - (y - 1) \div 100 + (y - 1) \div 400
  IN Date(y, 0, (n % 7) + 1)

MCDays == {AddDays(NewYear(y), n) : y \in 2019..2027, n \in -8..8}

\* What the tests say of 2026 (test/cron/week-math.test.ts).
ASSUME TestsOfWeekMath ==
  /\ IsoWeekOf(AddDays(NewYear(2026), 228)) = 34
  /\ IsoWeekOf(AddDays(NewYear(2027), -4)) = 53
=============================================================================
