-------------------------- MODULE CommandRunProofs --------------------------
(***************************************************************************)
(* Proofs about WeekMath, for every date of every year, and CommandRun, for*)
(* any number of background processes.  Of the calendar they use only that *)
(* a year has 365 or 366 days.                                             *)
(***************************************************************************)
EXTENDS CommandRun, TLAPS

\* All that is used of the calendar.
LEMMA Lengths == \A y : Length(y) = 365 \/ Length(y) = 366
BY DEF Length

\* A date and its three parts.
LEMMA DateParts ==
  ASSUME NEW d \in Dates
  PROVE  \E y \in Int, k \in 0..365, w \in 1..7 : d = Date(y, k, w) /\ k < Length(y)
<1>1. d = Date(d.year, d.yday, d.wday)
  BY DEF Dates, Date
<1>2. d.year \in Int /\ d.yday \in 0..365 /\ d.wday \in 1..7 /\ d.yday < Length(d.year)
  BY DEF Dates
<1> QED
  BY <1>1, <1>2

\* Parts that make a date.
LEMMA DateType ==
  ASSUME NEW y \in Int, NEW k \in Int, NEW w \in 1..7, 0 <= k, k < Length(y)
  PROVE  Date(y, k, w) \in Dates
<1>1. k \in 0..365
  BY Lengths
<1> QED
  BY <1>1 DEF Dates, Date

\* A weekday moved is a weekday.
LEMMA Weekdays == \A w \in Int, n \in Int : ((w - 1 + n) % 7) + 1 \in 1..7
OBVIOUS

\* A date moved by less than a year is a date.
LEMMA AddDaysType ==
  ASSUME NEW d \in Dates, NEW n \in Int, d.yday + n >= -365, d.yday + n <= 700
  PROVE  AddDays(d, n) \in Dates
<1>1. PICK y \in Int, k \in 0..365, w \in 1..7 : d = Date(y, k, w) /\ k < Length(y)
  BY DateParts
<1>2. k + n >= -365 /\ k + n <= 700
  BY <1>1 DEF Date
<1>3. PICK v \in 1..7 : v = ((w - 1 + n) % 7) + 1
  BY Weekdays
<1>0. k \in Int /\ w \in Int /\ v \in Int
  OBVIOUS
<1>7. AddDays(Date(y, k, w), n) =
        IF k + n < 0 THEN Date(y - 1, (k + n) + Length(y - 1), v)
        ELSE IF k + n >= Length(y) THEN Date(y + 1, (k + n) - Length(y), v)
        ELSE Date(y, k + n, v)
  BY <1>0, <1>3 DEF AddDays, Date
<1>4. CASE k + n < 0
  <2>1. PICK l \in Int : l = Length(y - 1) /\ (l = 365 \/ l = 366)
    BY Lengths
  <2>2. y - 1 \in Int /\ (k + n) + l \in Int /\ 0 <= (k + n) + l /\ (k + n) + l < l
    BY <1>2, <1>4, <2>1
  <2>3. Date(y - 1, (k + n) + l, v) \in Dates
    BY <2>1, <2>2, DateType
  <2> QED
    BY <1>1, <1>4, <1>7, <2>1, <2>3
<1>5. CASE ~(k + n < 0) /\ k + n >= Length(y)
  <2>1. PICK l \in Int : l = Length(y) /\ (l = 365 \/ l = 366)
    BY Lengths
  <2>2. PICK m \in Int : m = Length(y + 1) /\ (m = 365 \/ m = 366)
    BY Lengths
  <2>3. y + 1 \in Int /\ (k + n) - l \in Int /\ 0 <= (k + n) - l /\ (k + n) - l < m
    BY <1>2, <1>5, <2>1, <2>2
  <2>4. Date(y + 1, (k + n) - l, v) \in Dates
    BY <2>2, <2>3, DateType
  <2> QED
    BY <1>1, <1>5, <1>7, <2>1, <2>4
<1>6. CASE ~(k + n < 0) /\ ~(k + n >= Length(y))
  <2>1. PICK l \in Int : l = Length(y) /\ (l = 365 \/ l = 366)
    BY Lengths
  <2>2. k + n \in Int /\ 0 <= k + n /\ k + n < l
    BY <1>2, <1>6, <2>1
  <2>3. Date(y, k + n, v) \in Dates
    BY <2>1, <2>2, DateType
  <2> QED
    BY <1>1, <1>6, <1>7, <2>3
<1> QED
  BY <1>4, <1>5, <1>6

\* Two moves of at most three weeks are one.
LEMMA AddDaysTwice ==
  ASSUME NEW d \in Dates, NEW a \in Int, NEW b \in Int,
         a >= -21, a <= 21, b >= -21, b <= 21
  PROVE  AddDays(AddDays(d, a), b) = AddDays(d, a + b)
<1>1. PICK y \in Int, k \in 0..365, w \in 1..7 : d = Date(y, k, w) /\ k < Length(y)
  BY DateParts
<1>2. PICK v \in Int : v = ((w - 1 + a) % 7) + 1
  OBVIOUS
<1>3. PICK u \in Int : u = ((v - 1 + b) % 7) + 1
  OBVIOUS
<1>4. u = ((w - 1 + (a + b)) % 7) + 1
  BY <1>2, <1>3
<1>5. PICK l \in Int : l = Length(y - 1) /\ (l = 365 \/ l = 366)
  BY Lengths
<1>6. PICK m \in Int : m = Length(y) /\ (m = 365 \/ m = 366)
  BY Lengths
<1>7. PICK n \in Int : n = Length(y + 1) /\ (n = 365 \/ n = 366)
  BY Lengths
<1>8. AddDays(d, a) = IF k + a < 0 THEN Date(y - 1, (k + a) + l, v)
                      ELSE IF k + a >= m THEN Date(y + 1, (k + a) - m, v)
                      ELSE Date(y, k + a, v)
  BY <1>1, <1>2, <1>5, <1>6, <1>7 DEF AddDays, Date
<1>9. AddDays(d, a + b) = IF k + (a + b) < 0 THEN Date(y - 1, (k + (a + b)) + l, u)
                          ELSE IF k + (a + b) >= m THEN Date(y + 1, (k + (a + b)) - m, u)
                          ELSE Date(y, k + (a + b), u)
  BY <1>1, <1>4, <1>5, <1>6, <1>7 DEF AddDays, Date
<1>10. CASE k + a < 0
  <2>1. AddDays(d, a) = Date(y - 1, (k + a) + l, v)
    BY <1>8, <1>10
  <2>2. AddDays(AddDays(d, a), b) = IF (k + a) + l + b >= l THEN Date(y, ((k + a) + l + b) - l, u)
                                    ELSE Date(y - 1, (k + a) + l + b, u)
    BY <1>1, <1>3, <1>5, <1>10, <2>1 DEF AddDays, Date
  <2> QED
    BY <1>1, <1>6, <1>9, <1>10, <2>2
<1>11. CASE ~(k + a < 0) /\ k + a >= m
  <2>1. AddDays(d, a) = Date(y + 1, (k + a) - m, v)
    BY <1>8, <1>11
  <2>2. AddDays(AddDays(d, a), b) = IF (k + a) - m + b < 0 THEN Date(y, (k + a) - m + b + m, u)
                                    ELSE Date(y + 1, (k + a) - m + b, u)
    BY <1>1, <1>3, <1>6, <1>7, <1>11, <2>1 DEF AddDays, Date
  <2> QED
    BY <1>1, <1>6, <1>9, <1>11, <2>2
<1>12. CASE ~(k + a < 0) /\ ~(k + a >= m)
  <2>1. AddDays(d, a) = Date(y, k + a, v)
    BY <1>8, <1>12
  <2>2. AddDays(AddDays(d, a), b) =
          IF (k + a) + b < 0 THEN Date(y - 1, ((k + a) + b) + l, u)
          ELSE IF (k + a) + b >= m THEN Date(y + 1, ((k + a) + b) - m, u)
          ELSE Date(y, (k + a) + b, u)
    BY <1>1, <1>3, <1>5, <1>6, <1>7, <1>12, <2>1 DEF AddDays, Date
  <2> QED
    BY <1>1, <1>9, <2>2
<1> QED
  BY <1>10, <1>11, <1>12
--------------------------------------------------------
\* The week before that of a Monday, as the code finds it, is the week of the Monday
\* before.  Of a week 1 that begins in December the code asks for the last week of
\* the year before last, which then has 52 like the last one.
LEMMA PreviousWeek ==
  ASSUME NEW y \in Int, NEW k \in 0..365, k < Length(y),
         NEW m, m = Date(y, k, 1)
  PROVE  /\ IsoWeekOf(m) \in 1..53
         /\ (IF IsoWeekOf(m) - 1 < 1 THEN IsoWeekOfLastWeekOfYearBefore(m)
             ELSE IsoWeekOf(m) - 1) = IsoWeekOf(AddDays(m, -7))
         /\ IsoWeekOf(AddDays(m, -7)) \in 1..53
<1>1. PICK l \in Int : l = Length(y - 1) /\ (l = 365 \/ l = 366)
  BY Lengths
<1>2. PICK n \in Int : n = Length(y) /\ (n = 365 \/ n = 366)
  BY Lengths
<1>3. IsoWeekOf(m) = IF k + 3 >= n THEN ((k + 3) - n) \div 7 + 1 ELSE (k + 3) \div 7 + 1
  BY <1>2 DEF IsoWeekOf, AddDays, Date
<1>4. AddDays(m, -7) = IF k - 7 < 0 THEN Date(y - 1, k - 7 + l, 1) ELSE Date(y, k - 7, 1)
  BY <1>1, <1>2 DEF AddDays, Date
<1>5. IsoWeekOf(AddDays(m, -7)) =
        IF k - 4 < 0 THEN (k - 4 + l) \div 7 + 1 ELSE (k - 4) \div 7 + 1
  BY <1>1, <1>2, <1>4 DEF IsoWeekOf, AddDays, Date
<1>6. PICK v \in 1..7 : v = ((-(k + 4)) % 7) + 1
  OBVIOUS
<1>7. AddDays(m, -(k + 4)) = Date(y - 1, l - 4, v)
  BY <1>1, <1>2, <1>6 DEF AddDays, Date
<1>8. IsoWeekOfLastWeekOfYearBefore(m) = (l - v) \div 7 + 1
  BY <1>1, <1>6, <1>7 DEF IsoWeekOfLastWeekOfYearBefore, IsoWeekOf, AddDays, Date
<1>9. IsoWeekOf(m) \in 1..53 /\ IsoWeekOf(AddDays(m, -7)) \in 1..53
  BY <1>1, <1>2, <1>3, <1>5
<1>10. CASE k + 3 >= n
  <2>1. k = 362 \/ k = 363 \/ k = 364 \/ k = 365
    BY <1>2, <1>10
  <2>2. (k + 3) - n \in 0..2
    BY <1>2, <1>10
  <2>3. IsoWeekOf(m) = 1
    BY <1>3, <1>10, <2>2
  <2>4. IsoWeekOf(AddDays(m, -7)) = 52
    BY <1>5, <2>1
  <2>5. v \in 3..6
    BY <1>6, <2>1
  <2>6. l - v \in 357..363
    BY <1>1, <2>5
  <2>7. IsoWeekOfLastWeekOfYearBefore(m) = 52
    BY <1>8, <2>6
  <2> QED
    BY <1>9, <2>3, <2>4, <2>7
<1>11. CASE k + 3 < n /\ k >= 4
  BY <1>2, <1>3, <1>5, <1>9, <1>11
<1>12. CASE k < 4
  BY <1>1, <1>2, <1>3, <1>5, <1>6, <1>8, <1>9, <1>12
<1> QED
  BY <1>2, <1>10, <1>11, <1>12
--------------------------------------------------------
\* The weekday a move leads to.
LEMMA WeekdayOfMove ==
  ASSUME NEW d \in Dates, NEW n \in Int
  PROVE  AddDays(d, n).wday = ((d.wday - 1 + n) % 7) + 1
BY DEF AddDays, Date

\* Every move of at most three weeks leads to a date.
LEMMA NearDays ==
  ASSUME NEW d \in Dates, NEW n \in Int, n >= -21, n <= 21
  PROVE  AddDays(d, n) \in Dates
<1>1. PICK y \in Int, k \in 0..365, w \in 1..7 : d = Date(y, k, w) /\ k < Length(y)
  BY DateParts
<1>2. d.yday = k
  BY <1>1 DEF Date
<1>3. k + n >= -365 /\ k + n <= 700
  OBVIOUS
<1> QED
  BY <1>2, <1>3, AddDaysType

\* The tokens of a day: the weeks of the Monday after the window's Sunday and of the
\* Monday before.
LEMMA Tokens ==
  ASSUME NEW d \in Dates
  PROVE  LET s == ComputeWeekShiftTokens(d)
         IN /\ Window(d) \in Dates
            /\ s = [from |-> IsoWeekOf(AddDays(AddDays(Window(d), 1), -7)),
                    to |-> IsoWeekOf(AddDays(Window(d), 1)), start |-> AddDays(Window(d), 1)]
            /\ s.from \in 1..53 /\ s.to \in 1..53 /\ s.start \in Dates
<1>1. PICK y \in Int, k \in 0..365, w \in 1..7 : d = Date(y, k, w) /\ k < Length(y)
  BY DateParts
<1>2. d.wday = w
  BY <1>1 DEF Date
<1>3. PICK r \in 0..6 : r = w % 7
  OBVIOUS
<1> DEFINE m == AddDays(d, 1 - r)
<1>4. Window(d) = AddDays(d, -r) /\ Window(d) \in Dates
  BY <1>2, <1>3, NearDays DEF Window
<1>5. AddDays(Window(d), 1) = m
  <2>1. AddDays(AddDays(d, -r), 1) = AddDays(d, -r + 1)
    BY AddDaysTwice
  <2>2. -r + 1 = 1 - r
    OBVIOUS
  <2> QED
    BY <1>4, <2>1, <2>2
<1>6. MondayOf(AddDays(d, 1)) = m
  <2>1. AddDays(d, 1).wday = ((w - 1 + 1) % 7) + 1
    BY <1>2, WeekdayOfMove
  <2>2. 1 - AddDays(d, 1).wday = -r
    BY <1>3, <2>1
  <2>3. AddDays(AddDays(d, 1), -r) = AddDays(d, 1 + (-r))
    BY AddDaysTwice
  <2>4. 1 + (-r) = 1 - r
    OBVIOUS
  <2> QED
    BY <2>2, <2>3, <2>4 DEF MondayOf
<1>7. m \in Dates /\ m.wday = 1
  <2>1. m \in Dates
    <3>1. 1 - r \in Int /\ 1 - r >= -21 /\ 1 - r <= 21
      OBVIOUS
    <3> QED
      BY <3>1, NearDays
  <2>2. m.wday = ((w - 1 + (1 - r)) % 7) + 1
    <3>1. 1 - r \in Int
      OBVIOUS
    <3> QED
      BY <1>2, <3>1, WeekdayOfMove
  <2>3. ((w - 1 + (1 - r)) % 7) + 1 = 1
    BY <1>3
  <2> QED
    BY <2>1, <2>2, <2>3
<1> HIDE DEF m
<1>8. PICK z \in Int, j \in 0..365, x \in 1..7 : m = Date(z, j, x) /\ j < Length(z)
  BY <1>7, DateParts
<1>9. m = Date(z, j, 1)
  BY <1>7, <1>8 DEF Date
<1>10. /\ IsoWeekOf(m) \in 1..53
       /\ (IF IsoWeekOf(m) - 1 < 1 THEN IsoWeekOfLastWeekOfYearBefore(m)
           ELSE IsoWeekOf(m) - 1) = IsoWeekOf(AddDays(m, -7))
       /\ IsoWeekOf(AddDays(m, -7)) \in 1..53
  BY <1>8, <1>9, PreviousWeek
<1>11. ComputeWeekShiftTokens(d) =
         [from |-> IsoWeekOf(AddDays(m, -7)), to |-> IsoWeekOf(m), start |-> m]
  BY <1>6, <1>10 DEF ComputeWeekShiftTokens
<1> QED
  BY <1>4, <1>5, <1>7, <1>10, <1>11

\* Runs of one window have the same tokens, and those of the next one follow.
LEMMA ChainOfTokens ==
  ASSUME NEW d \in Dates, NEW e \in Dates
  PROVE  LET s == ComputeWeekShiftTokens(d)
             t == ComputeWeekShiftTokens(e)
         IN /\ Window(e) = Window(d) => t = s
            /\ Window(e) = AddDays(Window(d), 7) =>
                 t.from = s.to /\ t.start = AddDays(s.start, 7)
<1> DEFINE u == Window(d)
           s == ComputeWeekShiftTokens(d)
           t == ComputeWeekShiftTokens(e)
<1>1. /\ u \in Dates
      /\ s = [from |-> IsoWeekOf(AddDays(AddDays(u, 1), -7)),
              to |-> IsoWeekOf(AddDays(u, 1)), start |-> AddDays(u, 1)]
      /\ t = [from |-> IsoWeekOf(AddDays(AddDays(Window(e), 1), -7)),
              to |-> IsoWeekOf(AddDays(Window(e), 1)), start |-> AddDays(Window(e), 1)]
  BY Tokens
<1>2. ASSUME Window(e) = u PROVE t = s
  BY <1>1, <1>2
<1>3. ASSUME Window(e) = AddDays(u, 7) PROVE t.from = s.to /\ t.start = AddDays(s.start, 7)
  <2>1. AddDays(AddDays(u, 7), 1) = AddDays(u, 8) /\ AddDays(AddDays(u, 1), 7) = AddDays(u, 8)
    BY <1>1, AddDaysTwice
  <2>2. AddDays(AddDays(u, 8), -7) = AddDays(u, 1)
    BY <1>1, AddDaysTwice
  <2> QED
    BY <1>1, <1>3, <2>1, <2>2
<1> QED
  BY <1>2, <1>3
--------------------------------------------------------
---------------------------------------------------------------------------
\* What a settled run and the last shift say, which the properties rest on.
Settled ==
  /\ handler = "running" => result = NoResult
  /\ told = "ok" => result.code = "zero"
  /\ result.code = "zero" => shell = "exited" /\ code = "zero" /\ Holders = {} /\ ~unread
ShiftOfLastRun == ranOn # Never => shift = ComputeWeekShiftTokens(ranOn)
IInv == TypeOK /\ Settled /\ NoneSurvives /\ ShiftOfLastRun

LEMMA NeverIsADate == Never \in Dates
<1>1. 0 \in Int /\ 0 < Length(0)
  BY Lengths
<1> QED
  BY <1>1, DateType DEF Never

\* It holds at first, and every step keeps it.
LEMMA InitIInv == Init => IInv
<1> SUFFICES ASSUME Init PROVE IInv
  OBVIOUS
<1>1. shift \in [from : 1..53, to : 1..53, start : Dates]
  BY NeverIsADate DEF Init
<1>2. TypeOK
  BY <1>1 DEF Init, TypeOK, NoResult, ProcStates
<1>3. Settled /\ NoneSurvives /\ ShiftOfLastRun
  BY DEF Init, Settled, NoneSurvives, ShiftOfLastRun, NoResult
<1> QED
  BY <1>2, <1>3 DEF IInv

LEMMA SpawnIInv ==
  ASSUME IInv, NEW sh \in {"alive", "none"}, NEW hd \in {"running", "writing"},
         Spawn(sh), handler' = hd
  PROVE  IInv'
<1>1. today \in Dates /\ today \in Days
  BY DaysAssumption DEF IInv, TypeOK
<1>2. shift' = ComputeWeekShiftTokens(today) /\ ranOn' = today
  BY DEF Spawn
<1>3. shift' \in [from : 1..53, to : 1..53, start : Dates]
  BY <1>1, <1>2, Tokens
<1>4. TypeOK'
  BY <1>1, <1>2, <1>3 DEF IInv, TypeOK, Spawn, NoResult, ProcStates
<1>5. Settled'
  BY DEF Spawn, Settled, NoResult
<1>6. NoneSurvives'
  BY DEF Spawn, NoneSurvives, NoResult
<1>7. ShiftOfLastRun'
  BY <1>2 DEF ShiftOfLastRun
<1> QED
  BY <1>4, <1>5, <1>6, <1>7 DEF IInv

LEMMA NextIInv == IInv /\ [Next]_vars => IInv'
<1> SUFFICES ASSUME IInv, [Next]_vars PROVE IInv'
  OBVIOUS
<1> USE DEF IInv, ShiftOfLastRun
<1>1. CASE Refuse
  BY <1>1 DEF Refuse, system, TypeOK, Settled, NoneSurvives, Holders, Group
<1>2. CASE Start
  BY <1>2, SpawnIInv DEF Start
<1>3. CASE StartFails
  BY <1>3, SpawnIInv DEF StartFails
<1>4. CASE Close
  BY <1>4 DEF Close, Settle, system, TypeOK, Settled, NoneSurvives, Holders, Group, NoResult
<1>5. CASE Timeout
  <2>1. TypeOK'
    BY <1>5 DEF Timeout, Settle, TypeOK, ProcStates
  <2>2. Settled'
    BY <1>5 DEF Timeout, Settle, TypeOK, Settled, NoResult
  <2>3. Group' = {}
    BY <1>5 DEF Timeout, Settle, TypeOK, Group
  <2> QED
    BY <1>5, <2>1, <2>2, <2>3 DEF Timeout, Settle, NoneSurvives
<1>6. CASE WriteLog
  BY <1>6 DEF WriteLog, system, TypeOK, Settled, NoneSurvives, Holders, Group
<1>7. CASE Outside
  <2>1. TypeOK'
    <3>1. UNCHANGED <<today, ranOn, shift, handler, result, told>>
      BY <1>7 DEF Outside
    <3>2. /\ shell' \in {"none", "alive", "exited"} /\ code' \in {"none", "zero", "other"}
          /\ unread' \in BOOLEAN
      BY <1>7 DEF Outside, Command, TypeOK
    <3>3. procs' \in [Procs -> ProcStates]
      BY <1>7 DEF Outside, Command, TypeOK, ProcStates
    <3> QED
      BY <3>1, <3>2, <3>3 DEF TypeOK
  <2>2. Settled'
    BY <1>7 DEF Outside, Command, TypeOK, Settled, Holders, NoResult
  <2>3. NoneSurvives'
    BY <1>7 DEF Outside, Command, TypeOK, NoneSurvives, Group
  <2> QED
    BY <1>7, <2>1, <2>2, <2>3 DEF Outside
<1>8. CASE Data
  BY <1>8 DEF Data, TypeOK, Settled, NoneSurvives, Holders, Group
<1>9. CASE Midnight
  BY <1>9 DEF Midnight, system, TypeOK, Settled, NoneSurvives, Holders, Group
<1>10. CASE UNCHANGED vars
  BY <1>10 DEF vars, system, TypeOK, Settled, NoneSurvives, Holders, Group
<1> QED
  BY <1>1, <1>2, <1>3, <1>4, <1>5, <1>6, <1>7, <1>8, <1>9, <1>10 DEF Next

LEMMA Inductive == Spec => []IInv
BY InitIInv, NextIInv, PTL DEF Spec

\* Every variable keeps its type, and the weeks of a shift are weeks a year has: the
\* week before week 1 is never week 0 (TypeOK).
THEOREM TypeCorrect == Spec => []TypeOK
<1>1. IInv => TypeOK
  BY DEF IInv
<1> QED
  BY Inductive, <1>1, PTL

\* A run told to have ended well exited with 0 and its log has all its output, for
\* any number of background processes (the close event, command-handler.ts:171).
THEOREM OkRunsAreWhole == Spec => []OkIsWhole
<1>1. IInv => OkIsWhole
  BY DEF IInv, Settled, OkIsWhole
<1> QED
  BY Inductive, <1>1, PTL

\* Nothing of the process group survives a timeout (command-handler.ts:147-160).
THEOREM GroupsDie == Spec => []NoneSurvives
<1>1. IInv => NoneSurvives
  BY DEF IInv
<1> QED
  BY Inductive, <1>1, PTL

\* A run on any day of any year shifts the week of the Monday after the window's
\* Sunday, which is a Monday, from the week of the Monday seven days before: the
\* code's detour over December 28 of the year before always finds that week.
THEOREM ShiftIsOfTwoMondays ==
  ASSUME NEW d \in Dates
  PROVE  LET monday == AddDays(Window(d), 1)
         IN /\ monday \in Dates /\ monday.wday = 1
            /\ ComputeWeekShiftTokens(d) =
                 [from |-> IsoWeekOf(AddDays(monday, -7)), to |-> IsoWeekOf(monday),
                  start |-> monday]
<1> DEFINE u == Window(d)
<1>1. /\ u \in Dates
      /\ ComputeWeekShiftTokens(d) =
           [from |-> IsoWeekOf(AddDays(AddDays(u, 1), -7)),
            to |-> IsoWeekOf(AddDays(u, 1)), start |-> AddDays(u, 1)]
      /\ AddDays(u, 1) \in Dates
  BY Tokens
<1>2. d.wday \in 1..7
  BY DEF Dates
<1>3. u.wday = ((d.wday - 1 + (-(d.wday % 7))) % 7) + 1
  <2>1. -(d.wday % 7) \in Int
    BY <1>2
  <2> QED
    BY <2>1, WeekdayOfMove DEF Window
<1>4. u.wday = 7
  BY <1>2, <1>3
<1>5. AddDays(u, 1).wday = ((u.wday - 1 + 1) % 7) + 1
  BY <1>1, WeekdayOfMove
<1>6. AddDays(u, 1).wday = 1
  BY <1>4, <1>5
<1> QED
  BY <1>1, <1>6

\* Every step chains the shifts.
LEMMA NextChained == IInv /\ [Next]_vars => [Chained]_vars
<1> SUFFICES ASSUME IInv, [Next]_vars, ranOn # Never PROVE Chained
  BY DEF Chained
<1>1. ranOn \in Dates /\ today \in Dates /\ shift = ComputeWeekShiftTokens(ranOn)
  BY DaysAssumption DEF IInv, TypeOK, ShiftOfLastRun
<1>2. \/ ranOn' = today /\ shift' = ComputeWeekShiftTokens(today)
      \/ ranOn' = ranOn /\ shift' = shift
  BY DEF Next, Refuse, Start, StartFails, Spawn, Close, Timeout, Settle, WriteLog, Outside,
     Data, Midnight, vars
<1>3. PICK e \in Dates : ranOn' = e /\ shift' = ComputeWeekShiftTokens(e)
  BY <1>1, <1>2
<1> QED
  BY <1>1, <1>3, ChainOfTokens DEF Chained

\* The shifts of successive weeks follow each other over every year's end, for every
\* day of every year (week-math.ts:58-78).
THEOREM ShiftsFollow == Spec => ShiftsChain
BY Inductive, NextChained, PTL DEF Spec, ShiftsChain
=============================================================================
