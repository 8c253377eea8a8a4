--------------------------- MODULE DispatchProofs ---------------------------
(***************************************************************************)
(* Proofs about Dispatch, for any staff, any kinds of tasks, any caps and  *)
(* any number of tasks under way.                                          *)
(***************************************************************************)
EXTENDS Dispatch, FiniteSetTheorems, TLAPS

---------------------------------------------------------------------------
\* Routing.

\* A finite set has a member that comes first in a strict order.
LEMMA FirstExists ==
  ASSUME NEW S, IsFiniteSet(S), S # {}, NEW R,
         \A i \in S : <<i, i>> \notin R,
         \A h, i, j \in S : <<h, i>> \in R /\ <<i, j>> \in R => <<h, j>> \in R
  PROVE  \E i \in S : \A j \in S : <<j, i>> \notin R
<1> DEFINE Below(i) == {j \in S : <<j, i>> \in R}
           T == {Below(i) : i \in S}
<1>1. IsWellFoundedOn(StrictSubsetOrdering(S), SUBSET S)
  BY FS_StrictSubsetOrderingWellFounded, FS_FiniteSubsetsOfFinite
<1>2. T \subseteq SUBSET S /\ T # {}
  <2>1. \A i \in S : Below(i) \subseteq S /\ Below(i) \in T
    OBVIOUS
  <2>2. \A X \in T : \E i \in S : X = Below(i)
    OBVIOUS
  <2> HIDE DEF T, Below
  <2> QED BY <2>1, <2>2
<1>3. PICK X \in T : \A Y \in T : ~ (<<Y, X>> \in StrictSubsetOrdering(S))
  <2> HIDE DEF T
  <2> QED BY <1>1, <1>2, WFMin
<1>4. PICK i \in S : X = Below(i)
  BY <1>3
<1>5. ASSUME NEW j \in S, <<j, i>> \in R PROVE FALSE
  <2>1. Below(j) \subseteq Below(i) /\ j \in Below(i) /\ j \notin Below(j)
    BY <1>5
  <2>2. <<Below(j), Below(i)>> \in StrictSubsetOrdering(S)
    BY <2>1 DEF StrictSubsetOrdering
  <2> QED BY <2>2, <1>3, <1>4
<1> QED BY <1>5

LEMMA StaffTypes ==
  /\ Employees = 1..Len(Staff) /\ Len(Staff) \in Nat /\ IsFiniteSet(Employees)
  /\ NoOne \notin Employees
  /\ \A i \in Employees : Staff[i] \in Contracts
<1>1. Staff \in Seq(Contracts)
  BY DispatchAssumption
<1>2. Employees = 1..Len(Staff) /\ Len(Staff) \in Nat /\ \A i \in Employees : Staff[i] \in Contracts
  BY <1>1 DEF Employees
<1>3. IsFiniteSet(1..Len(Staff))
  BY <1>2, FS_Interval
<1> QED BY <1>2, <1>3 DEF NoOne

LEMMA StaffFields ==
  ASSUME NEW i \in Employees
  PROVE  /\ Staff[i].boss \in Payees /\ Staff[i].cap \in Nat /\ Staff[i].room \in Nat
         /\ Staff[i].load \in Nat /\ Staff[i].tier \in Tiers
BY StaffTypes DEF Contracts, Payees

LEMMA ScoreType == ASSUME NEW k \in Kinds, NEW i \in Employees PROVE Score(k, i) \in Int
<1>1. Cardinality(k.outputs) \in Nat /\ IsFiniteSet(k.outputs)
  BY DispatchAssumption, FS_CardinalityType
<1>2. Cardinality(k.outputs \cap Staff[i].outputs) \in Nat
  BY <1>1, FS_Subset, FS_CardinalityType
<1>3. Coverage(k, i) \in Int
  <2> DEFINE w == Cardinality(k.outputs)
             t == Cardinality(k.outputs \cap Staff[i].outputs)
  <2>1. CASE w = 0
    BY <2>1 DEF Coverage
  <2>2. CASE w # 0
    <3>1. w \in Nat /\ t \in Nat
      BY <1>1, <1>2
    <3> HIDE DEF w, t
    <3>2. 2 * w > 0 /\ 200 * t + w \in Int
      BY <3>1, <2>2
    <3>3. (200 * t + w) \div (2 * w) \in Int
      <4> DEFINE a == 200 * t + w
                 b == 2 * w
      <4>1. a \in Int /\ b \in Int /\ b > 0
        BY <3>1, <3>2
      <4>2. a \div b \in Int
        <5> HIDE DEF a, b
        <5> QED BY <4>1
      <4> QED BY <4>2
    <3> QED BY <3>3, <2>2 DEF Coverage, w, t
  <2> QED BY <2>1, <2>2
<1> QED BY <1>3 DEF Score

LEMMA BestType ==
  ASSUME NEW k \in Kinds, NEW S \in SUBSET Employees, S # {}
  PROVE  Best(k, S) \in S
<1> DEFINE R == {p \in S \X S : Before(k, p[1], p[2])}
<1>1. IsFiniteSet(S)
  BY StaffTypes, FS_Subset
<1>2. \A i \in S : Score(k, i) \in Int /\ i \in Nat
  BY ScoreType, StaffTypes
<1>3. \A i \in S : <<i, i>> \notin R
  BY <1>2 DEF Before
<1>4. \A h, i, j \in S : <<h, i>> \in R /\ <<i, j>> \in R => <<h, j>> \in R
  BY <1>2 DEF Before
<1>5. PICK i \in S : \A j \in S : <<j, i>> \notin R
  <2> HIDE DEF R
  <2> QED BY <1>1, <1>3, <1>4, FirstExists
<1>6. \A j \in S : ~ Before(k, j, i)
  BY <1>5
<1>7. \A j \in S \ {i} : Before(k, i, j)
  BY <1>2, <1>6 DEF Before
<1> QED BY <1>7 DEF Best

LEMMA FirstOfType ==
  ASSUME NEW S \in SUBSET Employees, S # {} PROVE FirstOf(S) \in S
<1> DEFINE R == {p \in S \X S : p[1] < p[2]}
<1>1. IsFiniteSet(S) /\ \A i \in S : i \in Nat
  <2>1. IsFiniteSet(S)
    BY StaffTypes, FS_Subset
  <2>2. \A i \in S : i \in Nat
    BY StaffTypes
  <2> QED BY <2>1, <2>2
<1>2. \A i \in S : <<i, i>> \notin R
  BY <1>1
<1>3. \A h, i, j \in S : <<h, i>> \in R /\ <<i, j>> \in R => <<h, j>> \in R
  BY <1>1
<1>4. PICK i \in S : \A j \in S : <<j, i>> \notin R
  <2> HIDE DEF R
  <2> QED BY <1>1, <1>2, <1>3, FirstExists
<1>5. \A j \in S : ~ (j < i)
  BY <1>4
<1>6. \A j \in S : i <= j
  BY <1>1, <1>5
<1> QED BY <1>6 DEF FirstOf

\* A routing decision names employees, and an estimate is a number.
LEMMA Routed ==
  ASSUME NEW k \in Kinds, Acceptable(k) # {}
  PROVE  /\ Primary(k) \in Employees
         /\ Assignable(k) # {} => Assignee(k) \in Employees
         /\ Estimate(k) \in Nat
<1>1. Acceptable(k) \subseteq Active /\ Active \subseteq Employees /\ Active # {}
  BY DEF Acceptable, Active
<1>2. Primary(k) \in Acceptable(k)
  BY <1>1, BestType DEF Primary
<1>3. Assignable(k) # {} => Assignee(k) \in Employees
  BY <1>1, <1>2, BestType DEF Assignable, Assignee
<1>4. Estimate(k) \in Nat
  <2>1. Staff[FirstOf(Active)].tier \in Tiers
    BY <1>1, FirstOfType, StaffFields
  <2>2. Cardinality(k.outputs) \in Nat
    BY DispatchAssumption, FS_CardinalityType
  <2>3. Turn[Staff[FirstOf(Active)].tier] \in Nat /\ Price[Staff[FirstOf(Active)].tier] \in Nat
    BY <2>1, DispatchAssumption
  <2> DEFINE w == IF k.outputs = {} THEN 10 ELSE 20 * Cardinality(k.outputs)
             u == Least(w, Turn[Staff[FirstOf(Active)].tier])
             p == Price[Staff[FirstOf(Active)].tier]
  <2>4. u \in Nat /\ p \in Nat
    BY <2>2, <2>3 DEF Least
  <2>5. u * p \in Nat
    <3> HIDE DEF u, p
    <3> QED BY <2>4
  <2> QED BY <2>5 DEF Estimate
<1> QED BY <1>1, <1>2, <1>3, <1>4

LEMMA EscalationType == ASSUME NEW k \in Kinds PROVE Escalation(k) \in Payees
<1>1. CASE Acceptable(k) # {}
  BY <1>1, Routed, StaffFields DEF Escalation
<1>2. CASE Acceptable(k) = {} /\ Active # {}
  BY <1>2, FirstOfType, StaffFields DEF Escalation, Active
<1>3. CASE Acceptable(k) = {} /\ Active = {}
  BY <1>3 DEF Escalation, Payees
<1> QED BY <1>1, <1>2, <1>3

---------------------------------------------------------------------------
\* Types, and what holds of each call wherever it is: nothing is told before the one
\* call of the callback, and from then on what was told is what is returned.
Untold == {"idle", "submit", "connect", "stream", "ended", "refused", "caught"}
Ends   == {"success", "failed"}

CallOk(t) ==
  /\ phase[t] = "idle" => to[t] = NoOne /\ asked[t] = NotAsked
  /\ phase[t] # "answered" => result[t] = "none"
  /\ phase[t] \in Untold => told[t] = << >> /\ outcome[t] = "none"
  /\ phase[t] = "returned" => outcome[t] \in Ends /\ told[t] = <<outcome[t]>>
  /\ phase[t] = "answered" =>
       \/ result[t] = "rejected" /\ told[t] = << >>
       \/ result[t] \in Ends /\ result[t] = outcome[t] /\ told[t] = <<result[t]>>
  /\ failed[t] => verdict[t] = "failed"
  /\ outcome[t] = "success" => verdict[t] = "success"
CallInv == \A t \in Tasks : CallOk(t)
DayInv == budget.day <= today
IInv == TypeOK /\ CallInv /\ DayInv

LEMMA OnlyCallOf ==
  ASSUME IInv, NEW t \in Tasks, CallOk(t)',
         \A s \in Tasks \ {t} :
           /\ phase'[s] = phase[s] /\ to'[s] = to[s] /\ asked'[s] = asked[s]
           /\ verdict'[s] = verdict[s] /\ failed'[s] = failed[s]
           /\ told'[s] = told[s] /\ outcome'[s] = outcome[s] /\ result'[s] = result[s]
  PROVE  CallInv'
<1> SUFFICES ASSUME NEW s \in Tasks, s # t PROVE CallOk(s)'
  BY DEF CallInv
<1>1. CallOk(s)
  BY DEF IInv, CallInv
<1> QED BY <1>1 DEF CallOk

LEMMA ResetType ==
  ASSUME TypeOK
  PROVE  Reset(budget) \in Totals /\ Reset(budget).day = today
BY DEF TypeOK, Totals, Reset, Zero

LEMMA InitInv == Init => IInv
<1> SUFFICES ASSUME Init PROVE IInv
  OBVIOUS
<1>1. TypeOK
  <2>1. budget \in Totals /\ today \in 0..MaxDay /\ unasked \in Nat
    BY DispatchAssumption DEF Init, Totals, Zero
  <2>2. to \in [Tasks -> Payees] /\ asked \in [Tasks -> Asked]
    BY DEF Init, Payees, Asked, NotAsked
  <2>3. failed \in [Tasks -> BOOLEAN]
    BY DEF Init
  <2>4. told \in [Tasks -> Seq({"success", "failed"})] /\ expired \in [Tasks -> BOOLEAN]
    BY DEF Init
  <2>5. /\ phase \in [Tasks -> Phases]
        /\ verdict \in [Tasks -> {"success", "failed"}]
        /\ tail \in [Tasks -> {"content", "failed"}]
        /\ outcome \in [Tasks -> {"none", "success", "failed"}]
        /\ result \in [Tasks -> {"none", "rejected", "success", "failed"}]
    BY DEF Init, Phases
  <2> QED BY <2>1, <2>2, <2>3, <2>4, <2>5 DEF TypeOK
<1>2. CallInv
  BY DEF Init, CallInv, CallOk, Untold
<1>3. DayInv
  BY DEF Init, DayInv
<1> QED BY <1>1, <1>2, <1>3 DEF IInv

LEMMA GoesStep ==
  ASSUME IInv, NEW t \in Tasks, NEW e \in Payees, phase[t] = "idle", Goes(t, e),
         UNCHANGED <<heard, told, outcome>>,
         \A s \in Tasks \ {t} : asked'[s] = asked[s]
  PROVE  /\ to' \in [Tasks -> Payees]
         /\ phase' \in [Tasks -> Phases]
         /\ result' \in [Tasks -> {"none", "rejected", "success", "failed"}]
         /\ CallInv'
<1>1. /\ to' \in [Tasks -> Payees]
      /\ phase' \in [Tasks -> Phases]
      /\ result' \in [Tasks -> {"none", "rejected", "success", "failed"}]
  BY DEF IInv, TypeOK, Goes, Phases
<1>2. /\ phase'[t] = (IF e = NoOne THEN "answered" ELSE "submit")
      /\ result'[t] = (IF e = NoOne THEN "rejected" ELSE "none")
      /\ UNCHANGED <<verdict, failed, told, outcome>>
  BY DEF IInv, TypeOK, Goes, heard
<1>3. CallOk(t)
  BY DEF IInv, CallInv
<1>4. CallOk(t)'
  BY <1>2, <1>3 DEF CallOk, Untold
<1>5. CallInv'
  BY <1>2, <1>4, OnlyCallOf DEF IInv, TypeOK, Goes
<1> QED BY <1>1, <1>5

LEMMA DispatchStep == ASSUME IInv, NEW t \in Tasks, Dispatch(t) PROVE IInv'
<1>1. PICK k \in Kinds : Unmatched(t, k) \/ Matched(t, k)
  BY DEF Dispatch
<1>2. phase[t] = "idle" /\ UNCHANGED <<today, heard, expired, told, outcome, unasked>>
  BY DEF Dispatch
<1>3. CASE Unmatched(t, k)
  <2>1. PICK e \in Payees : Goes(t, e)
    BY <1>3, EscalationType DEF Unmatched
  <2>2. UNCHANGED <<budget, asked>>
    BY <1>3 DEF Unmatched
  <2>3. /\ to' \in [Tasks -> Payees]
        /\ phase' \in [Tasks -> Phases]
        /\ result' \in [Tasks -> {"none", "rejected", "success", "failed"}]
        /\ CallInv'
    BY <1>2, <2>1, <2>2, GoesStep
  <2>4. TypeOK'
    BY <1>2, <2>2, <2>3 DEF IInv, TypeOK, heard
  <2>5. DayInv'
    BY <1>2, <2>2 DEF IInv, DayInv
  <2> QED BY <2>3, <2>4, <2>5 DEF IInv
<1>4. CASE Matched(t, k)
  <2>1. PICK e \in Payees : Goes(t, e)
    BY <1>4, EscalationType, Routed DEF Matched, Payees
  <2>2. budget' = Reset(budget)
    BY <1>4 DEF Matched
  <2>3. /\ asked' \in [Tasks -> Asked]
        /\ \A s \in Tasks \ {t} : asked'[s] = asked[s]
    BY <1>4, Routed DEF Matched, IInv, TypeOK, Asked, Payees
  <2>4. /\ to' \in [Tasks -> Payees]
        /\ phase' \in [Tasks -> Phases]
        /\ result' \in [Tasks -> {"none", "rejected", "success", "failed"}]
        /\ CallInv'
    BY <1>2, <2>1, <2>3, GoesStep
  <2>5. budget' \in Totals /\ budget'.day = today
    BY <2>2, ResetType DEF IInv
  <2>6. TypeOK'
    BY <1>2, <2>3, <2>4, <2>5 DEF IInv, TypeOK, heard
  <2>7. DayInv'
    BY <1>2, <2>5 DEF IInv, DayInv, TypeOK
  <2> QED BY <2>4, <2>6, <2>7 DEF IInv
<1> QED BY <1>1, <1>3, <1>4

\* A step of an execution that reads nothing and tells nothing.
LEMMA MoveStep ==
  ASSUME IInv, NEW t \in Tasks, Executing(t),
         NEW p \in {"submit", "connect", "stream", "ended", "refused", "caught"},
         phase' = [phase EXCEPT ![t] = p],
         expired' \in [Tasks -> BOOLEAN], UNCHANGED <<money, heard, told, outcome, result>>
  PROVE  IInv'
<1>1. phase' \in [Tasks -> Phases]
  BY DEF IInv, TypeOK, Phases
<1>2. TypeOK'
  BY <1>1 DEF IInv, TypeOK, money, heard
<1>3. CallOk(t)
  BY DEF IInv, CallInv
<1>4. phase'[t] = p /\ UNCHANGED <<to, asked, verdict, failed>>
  BY DEF IInv, TypeOK, money, heard
<1>5. CallOk(t)'
  BY <1>3, <1>4 DEF CallOk, Untold, Executing
<1>6. CallInv'
  BY <1>4, <1>5, OnlyCallOf DEF IInv, TypeOK
<1>7. DayInv'
  BY DEF IInv, DayInv, money
<1> QED BY <1>2, <1>6, <1>7 DEF IInv

LEMMA OverStep ==
  ASSUME IInv, NEW t \in Tasks, NEW how \in {"ended", "refused", "caught"}, Over(t, how),
         UNCHANGED <<money, heard, told, outcome, result>>
  PROVE  IInv'
<1>1. Executing(t) /\ phase' = [phase EXCEPT ![t] = how]
  BY DEF Over
<1>2. expired' \in [Tasks -> BOOLEAN]
  BY DEF Over, IInv, TypeOK
<1> QED BY <1>1, <1>2, MoveStep

LEMMA NotifyStep == ASSUME IInv, NEW t \in Tasks, Notify(t) PROVE IInv'
<1>1. phase[t] \in {"ended", "refused", "caught"} /\ UNCHANGED <<money, heard, expired, result>>
  BY DEF Notify
<1>2. phase' = [phase EXCEPT ![t] = "returned"]
  BY DEF Notify, Swallow
<1>3. Status(t) \in Ends /\ (Status(t) = "success" => verdict[t] = "success")
  BY DEF IInv, TypeOK, Status, Ends
<1>4. told[t] = << >> /\ CallOk(t)
  BY <1>1 DEF IInv, CallInv, CallOk, Untold
<1>5. Append(told[t], Status(t)) = <<Status(t)>>
  BY <1>4
<1>6. told' = [told EXCEPT ![t] = <<Status(t)>>] /\ outcome' = [outcome EXCEPT ![t] = Status(t)]
  BY <1>5 DEF Notify
<1>7. /\ phase' \in [Tasks -> Phases]
      /\ outcome' \in [Tasks -> {"none", "success", "failed"}]
      /\ told' \in [Tasks -> Seq({"success", "failed"})]
  <2>1. <<Status(t)>> \in Seq({"success", "failed"})
    BY <1>3 DEF Ends
  <2>2. phase' \in [Tasks -> Phases] /\ outcome' \in [Tasks -> {"none", "success", "failed"}]
    BY <1>2, <1>3, <1>6 DEF IInv, TypeOK, Phases, Ends
  <2> QED BY <1>6, <2>1, <2>2 DEF IInv, TypeOK
<1>8. TypeOK'
  BY <1>1, <1>7 DEF IInv, TypeOK, money, heard
<1>9. /\ phase'[t] = "returned" /\ told'[t] = <<outcome'[t]>> /\ outcome'[t] = Status(t)
      /\ UNCHANGED <<to, asked, verdict, failed, result>>
  BY <1>1, <1>2, <1>6 DEF IInv, TypeOK, money, heard
<1>10. CallOk(t)'
  BY <1>1, <1>3, <1>4, <1>9 DEF CallOk, Untold
<1>11. CallInv'
  BY <1>2, <1>6, <1>9, <1>10, OnlyCallOf DEF IInv, TypeOK
<1>12. DayInv'
  BY <1>1 DEF IInv, DayInv, money
<1> QED BY <1>8, <1>11, <1>12 DEF IInv

LEMMA AnswerStep == ASSUME IInv, NEW t \in Tasks, Answer(t) PROVE IInv'
<1>1. /\ phase[t] = "returned" /\ phase' = [phase EXCEPT ![t] = "answered"]
      /\ result' = [result EXCEPT ![t] = outcome[t]]
      /\ UNCHANGED <<money, heard, expired, told, outcome>>
  BY DEF Answer
<1>2. CallOk(t) /\ outcome[t] \in Ends
  BY <1>1 DEF IInv, CallInv, CallOk
<1>3. TypeOK'
  <2>1. /\ phase' \in [Tasks -> Phases]
        /\ result' \in [Tasks -> {"none", "rejected", "success", "failed"}]
    BY <1>1, <1>2 DEF IInv, TypeOK, Phases, Ends
  <2> QED BY <1>1, <2>1 DEF IInv, TypeOK, money, heard
<1>4. /\ phase'[t] = "answered" /\ result'[t] = outcome[t]
      /\ UNCHANGED <<to, asked, verdict, failed, told, outcome>>
  BY <1>1 DEF IInv, TypeOK, money, heard
<1>5. CallOk(t)'
  BY <1>1, <1>2, <1>4 DEF CallOk, Untold
<1>6. CallInv'
  BY <1>1, <1>4, <1>5, OnlyCallOf DEF IInv, TypeOK
<1>7. DayInv'
  BY <1>1 DEF IInv, DayInv, money
<1> QED BY <1>3, <1>6, <1>7 DEF IInv

LEMMA ReadStep == ASSUME IInv, NEW t \in Tasks, Read(t) PROVE IInv'
<1>1. phase[t] = "stream" /\ UNCHANGED <<money, phase, expired, told, outcome, result>>
  BY DEF Read
<1>2. /\ verdict' \in [Tasks -> {"success", "failed"}]
      /\ tail' \in [Tasks -> {"content", "failed"}]
  BY DEF Read, IInv, TypeOK, Verdict
<1>3. failed' \in [Tasks -> BOOLEAN]
  BY DEF Read, IInv, TypeOK
<1>4. TypeOK'
  BY <1>1, <1>2, <1>3 DEF IInv, TypeOK, money
<1>5. CallOk(t)
  BY DEF IInv, CallInv
<1>6. failed'[t] => verdict'[t] = "failed"
  BY <1>5 DEF Read, IInv, TypeOK, CallOk, Verdict
<1>7. CallOk(t)'
  BY <1>1, <1>5, <1>6 DEF CallOk, Untold, money
<1>8. CallInv'
  BY <1>1, <1>7, OnlyCallOf DEF Read, IInv, TypeOK, money
<1>9. DayInv'
  BY <1>1 DEF IInv, DayInv, money
<1> QED BY <1>4, <1>8, <1>9 DEF IInv

LEMMA ExecuteStep == ASSUME IInv, NEW t \in Tasks, Execute(t) PROVE IInv'
<1>1. CASE Fetch(t)
  <2>1. expired' \in [Tasks -> BOOLEAN]
    BY <1>1 DEF Fetch, IInv, TypeOK
  <2> QED BY <1>1, <2>1, MoveStep DEF Fetch, Executing
<1>2. CASE Refuse(t)
  BY <1>2, OverStep DEF Refuse
<1>3. CASE Break(t)
  BY <1>3, OverStep DEF Break
<1>4. CASE Expire(t)
  <2>1. expired' \in [Tasks -> BOOLEAN]
    BY <1>4 DEF Expire, IInv, TypeOK
  <2>2. TypeOK'
    BY <1>4, <2>1 DEF Expire, IInv, TypeOK, money, heard
  <2>3. CallInv' /\ DayInv'
    BY <1>4 DEF Expire, IInv, CallInv, CallOk, DayInv, money, heard
  <2> QED BY <2>2, <2>3 DEF IInv
<1>5. CASE Abort(t)
  BY <1>5, OverStep DEF Abort
<1>6. CASE StreamEnd(t)
  BY <1>6, OverStep DEF StreamEnd
<1> QED BY <1>1, <1>2, <1>3, <1>4, <1>5, <1>6, ReadStep, NotifyStep, AnswerStep DEF Execute

LEMMA ReturnStep ==
  ASSUME IInv, NEW t \in Tasks, Return(t), budget' \in Totals, budget'.day <= today, unasked' \in Nat
  PROVE  IInv'
<1>1. /\ phase' \in [Tasks -> Phases]
      /\ verdict' \in [Tasks -> {"success", "failed"}]
      /\ tail' \in [Tasks -> {"content", "failed"}]
      /\ outcome' \in [Tasks -> {"none", "success", "failed"}]
      /\ result' \in [Tasks -> {"none", "rejected", "success", "failed"}]
  BY DEF IInv, TypeOK, Return, Phases
<1>2. to' \in [Tasks -> Payees] /\ asked' \in [Tasks -> Asked]
  BY DEF IInv, TypeOK, Return, Payees, Asked, NotAsked
<1>3. failed' \in [Tasks -> BOOLEAN] /\ expired' \in [Tasks -> BOOLEAN]
  BY DEF IInv, TypeOK, Return
<1>4. told' \in [Tasks -> Seq({"success", "failed"})]
  BY DEF IInv, TypeOK, Return
<1>5. TypeOK'
  BY <1>1, <1>2, <1>3, <1>4 DEF IInv, TypeOK, Return
<1>6. /\ phase'[t] = "idle" /\ to'[t] = NoOne /\ asked'[t] = NotAsked /\ ~ failed'[t]
      /\ told'[t] = << >> /\ outcome'[t] = "none" /\ result'[t] = "none"
  BY DEF IInv, TypeOK, Return
<1>7. CallOk(t)'
  BY <1>6 DEF CallOk
<1>8. CallInv'
  BY <1>7, OnlyCallOf DEF IInv, TypeOK, Return
<1>9. DayInv'
  BY DEF DayInv, Return
<1> QED BY <1>5, <1>8, <1>9 DEF IInv

LEMMA RecordedType ==
  ASSUME IInv, NEW e \in Employees, NEW c \in Costs
  PROVE  Recorded(Reset(budget), e, c) \in Totals /\ Recorded(Reset(budget), e, c).day = today
<1> DEFINE b == Reset(budget)
<1>1. b \in Totals /\ b.day = today
  BY ResetType DEF IInv
<1>2. Recorded(b, e, c) \in Totals /\ Recorded(b, e, c).day = today
  <2> HIDE DEF b
  <2>1. c \in Nat
    BY DispatchAssumption
  <2>2. Recorded(b, e, c) = [day |-> b.day, used |-> b.used + c,
                             usedBy |-> [b.usedBy EXCEPT ![e] = @ + c]]
    BY DEF Recorded
  <2>3. b.used + c \in Nat /\ [b.usedBy EXCEPT ![e] = @ + c] \in [Employees -> Nat]
    BY <1>1, <2>1 DEF Totals
  <2> QED BY <1>1, <2>2, <2>3 DEF Totals
<1> QED BY <1>2

LEMMA NextInv == ASSUME IInv, [Next]_vars PROVE IInv'
<1>1. ASSUME NEW t \in Tasks, Dispatch(t) PROVE IInv'
  BY <1>1, DispatchStep
<1>2. ASSUME NEW t \in Tasks, Execute(t) PROVE IInv'
  BY <1>2, ExecuteStep
<1>3. ASSUME NEW t \in Tasks, Dismiss(t) PROVE IInv'
  BY <1>3, ReturnStep DEF Dismiss, IInv, TypeOK, DayInv
<1>4. ASSUME NEW t \in Tasks, RecordCost(t) PROVE IInv'
  <2>1. PICK c \in Costs :
          /\ budget' = Recorded(Reset(budget), to[t], c)
          /\ unasked' = unasked + (IF Paid(t) THEN 0 ELSE c)
    BY <1>4 DEF RecordCost
  <2>2. to[t] \in Employees
    BY <1>4 DEF RecordCost, IInv, TypeOK, Payees
  <2>3. budget' \in Totals /\ budget'.day = today
    BY <2>1, <2>2, RecordedType
  <2>4. unasked' \in Nat /\ today \in Nat
    BY <2>1, DispatchAssumption DEF IInv, TypeOK
  <2> QED BY <1>4, <2>3, <2>4, ReturnStep DEF RecordCost
<1>5. ASSUME NewDay PROVE IInv'
  <2>1. today' \in 0..MaxDay /\ unasked' \in Nat
    BY <1>5, DispatchAssumption DEF NewDay, IInv, TypeOK
  <2>2. TypeOK'
    BY <1>5, <2>1 DEF NewDay, IInv, TypeOK, calls
  <2>3. CallInv'
    BY <1>5 DEF NewDay, IInv, CallInv, CallOk, calls
  <2>4. DayInv'
    BY <1>5, DispatchAssumption DEF NewDay, IInv, DayInv, TypeOK, Totals
  <2> QED BY <2>2, <2>3, <2>4 DEF IInv
<1>6. ASSUME UNCHANGED vars PROVE IInv'
  BY <1>6 DEF vars, calls, IInv, TypeOK, CallInv, CallOk, DayInv
<1> QED BY <1>1, <1>2, <1>3, <1>4, <1>5, <1>6 DEF Next

LEMMA Invariant == Spec => []IInv
<1>1. IInv /\ [Next]_vars => IInv'
  BY NextInv
<1> QED BY <1>1, InitInv, PTL DEF Spec

\* Every variable keeps its type: whatever the staff and the tasks, routing names
\* employees and estimates are numbers.
THEOREM TypeCorrect == Spec => []TypeOK
<1>1. IInv => TypeOK
  BY DEF IInv
<1> QED BY <1>1, Invariant, PTL

\* By the time dispatchAsync answers for an executed task the callback has been told once,
\* and what is answered, whether or not it threw; of a task not executed it was told
\* nothing.  So for any number of tasks under way.
THEOREM CallbackToldOnce == Spec => []ToldOnce
<1>1. IInv => ToldOnce
  BY DEF IInv, CallInv, CallOk, ToldOnce, Ends
<1> QED BY <1>1, Invariant, PTL

\* A failure that the node wrote on a line of its own is never answered as a success:
\* taskStatus is set by the first such line and never set back.
THEOREM FailureIsKept == Spec => []FailureKept
<1>1. IInv => FailureKept
  BY DEF IInv, TypeOK, CallInv, CallOk, FailureKept
<1> QED BY <1>1, Invariant, PTL

---------------------------------------------------------------------------
\* The overshoot.  Room(P) is what tasks may cost that are not in P.
Others(P) == Cardinality(Tasks \ P)
Room(P)   == MaxCost * Others(P)

LEMMA RoomType == ASSUME NEW P PROVE Others(P) \in Nat /\ Room(P) \in Nat
<1>1. Others(P) \in Nat
  BY DispatchAssumption, FS_Difference, FS_CardinalityType DEF Others
<1>2. ASSUME NEW n \in Nat PROVE MaxCost * n \in Nat
  BY DispatchAssumption
<1> QED BY <1>1, <1>2 DEF Room

\* A task that is not paid for any more leaves room for its cost.
LEMMA RoomGrows ==
  ASSUME NEW P, NEW t \in Tasks, t \in P PROVE Room(P \ {t}) = Room(P) + MaxCost
<1>1. IsFiniteSet(Tasks \ P) /\ t \notin Tasks \ P
  BY DispatchAssumption, FS_Difference
<1>2. Tasks \ (P \ {t}) = (Tasks \ P) \cup {t}
  OBVIOUS
<1>3. Others(P \ {t}) = Others(P) + 1
  BY <1>1, <1>2, FS_AddElement DEF Others
<1>4. ASSUME NEW n \in Nat PROVE MaxCost * (n + 1) = MaxCost * n + MaxCost
  BY DispatchAssumption
<1> QED BY <1>3, <1>4, RoomType DEF Room

Bounded(used, cap, P) == used <= cap + Room(P)

LEMMA BoundedEquiv ==
  OvershootBounded <=> /\ Bounded(Reset(budget).used, CompanyDaily + unasked, PaidTasks)
                       /\ \A e \in Employees :
                            Bounded(Reset(budget).usedBy[e], EmployeeDaily + unasked, PaidFrom(e))
BY DEF OvershootBounded, Bounded, Room, Others

LEMMA ResetAgain ==
  ASSUME budget'.day = today' PROVE Reset(budget)' = budget'
BY DEF Reset

\* A task that is given out takes no room unless its payer's budget was asked just now.
LEMMA DispatchBounded ==
  ASSUME IInv, OvershootBounded, NEW t \in Tasks, Dispatch(t) PROVE OvershootBounded'
<1>1. PICK k \in Kinds : Unmatched(t, k) \/ Matched(t, k)
  BY DEF Dispatch
<1>2. phase[t] = "idle" /\ UNCHANGED <<today, unasked>> /\ unasked \in Nat
  BY DEF Dispatch, IInv, TypeOK
<1>3. t \notin PaidTasks /\ \A e : t \notin PaidFrom(e)
  BY <1>2 DEF PaidTasks, PaidFrom, IInv, CallInv, CallOk
<1>4. ASSUME NEW s \in Tasks, s # t PROVE to'[s] = to[s] /\ asked'[s] = asked[s]
  BY <1>1, <1>4 DEF Unmatched, Matched, Goes, IInv, TypeOK
<1>5. CASE Unmatched(t, k)
  <2>1. ~ Paid(t)'
    BY <1>2, <1>5 DEF Unmatched, Paid, IInv, CallInv, CallOk, NotAsked
  <2>2. PaidTasks' = PaidTasks
    BY <1>3, <1>4, <2>1 DEF PaidTasks, Paid
  <2>3. \A e \in Employees : PaidFrom(e)' = PaidFrom(e)
    BY <1>3, <1>4, <2>2 DEF PaidFrom, PaidTasks
  <2>4. Reset(budget)' = Reset(budget)
    BY <1>2, <1>5 DEF Unmatched, Reset, Zero
  <2> QED BY <1>2, <2>2, <2>3, <2>4 DEF OvershootBounded
<1>6. CASE Matched(t, k)
  <2> DEFINE p == Primary(k)
             c == Estimate(k)
             b == Reset(budget)
  <2>1. b \in Totals /\ b.day = today /\ budget' = b /\ p \in Employees /\ c \in Nat
    BY <1>6, ResetType, Routed DEF Matched, IInv
  <2>2. Reset(budget)' = b
    BY <1>2, <2>1, ResetAgain
  <2>3. Paid(t)' => Approved(b, p, c) /\ to'[t] = p
    BY <1>6 DEF Matched, Paid, IInv, TypeOK
  <2>4. b.used \in Nat /\ \A e \in Employees : b.usedBy[e] \in Nat
    BY <2>1 DEF Totals
  <2>5. Bounded(b.used, CompanyDaily + unasked, PaidTasks')
    <3>1. CASE t \in PaidTasks'
      <4>1. b.used + c <= CompanyDaily
        BY <2>3, <3>1 DEF PaidTasks, Approved
      <4> HIDE DEF b, c, p
      <4>2. b.used <= CompanyDaily
        BY <2>1, <2>4, <4>1, DispatchAssumption
      <4> QED BY <1>2, <2>4, <4>2, RoomType, DispatchAssumption DEF Bounded
    <3>2. CASE t \notin PaidTasks'
      <4>1. PaidTasks' = PaidTasks
        BY <1>3, <1>4, <3>2 DEF PaidTasks, Paid
      <4> QED BY <1>2, <4>1, BoundedEquiv DEF Bounded
    <3> QED BY <3>1, <3>2
  <2>6. ASSUME NEW e \in Employees PROVE Bounded(b.usedBy[e], EmployeeDaily + unasked, PaidFrom(e)')
    <3>1. CASE t \in PaidFrom(e)'
      <4>1. b.usedBy[e] + c <= EmployeeDaily
        BY <2>3, <3>1 DEF PaidFrom, PaidTasks, Approved
      <4> HIDE DEF b, c, p
      <4>2. b.usedBy[e] <= EmployeeDaily
        BY <2>1, <2>4, <4>1, DispatchAssumption
      <4> QED BY <1>2, <2>4, <4>2, RoomType, DispatchAssumption DEF Bounded
    <3>2. CASE t \notin PaidFrom(e)'
      <4>1. PaidFrom(e)' = PaidFrom(e)
        BY <1>3, <1>4, <3>2 DEF PaidFrom, PaidTasks, Paid
      <4> QED BY <1>2, <4>1, BoundedEquiv DEF Bounded
    <3> QED BY <3>1, <3>2
  <2> HIDE DEF b
  <2> QED BY <1>2, <2>2, <2>5, <2>6 DEF OvershootBounded, Bounded, Room, Others
<1> QED BY <1>1, <1>5, <1>6

\* A task that is over and was paid for leaves as much room as it may have cost.
LEMMA RecordBounded ==
  ASSUME IInv, OvershootBounded, NEW t \in Tasks, RecordCost(t) PROVE OvershootBounded'
<1> DEFINE b == Reset(budget)
           d == to[t]
<1>1. PICK c \in 0..MaxCost :
        /\ c \in Costs
        /\ budget' = Recorded(b, d, c)
        /\ unasked' = unasked + (IF Paid(t) THEN 0 ELSE c)
  BY DispatchAssumption DEF RecordCost
<1>2. d \in Employees /\ c \in Nat /\ c <= MaxCost /\ unasked \in Nat /\ MaxCost \in Nat
  BY DispatchAssumption DEF RecordCost, IInv, TypeOK, Payees
<1>3. b \in Totals /\ budget'.day = today /\ today' = today
  BY <1>1, <1>2, ResetType, RecordedType DEF IInv, RecordCost, Return
<1>4. Reset(budget)' = budget'
  BY <1>3, ResetAgain
<1>5. /\ budget'.used = b.used + c
      /\ \A e \in Employees : budget'.usedBy[e] = b.usedBy[e] + (IF e = d THEN c ELSE 0)
  <2> HIDE DEF b, d
  <2> QED BY <1>1, <1>2, <1>3 DEF Recorded, Totals
<1>6. b.used \in Nat /\ \A e \in Employees : b.usedBy[e] \in Nat
  BY <1>3 DEF Totals
<1>7. \A s \in Tasks : s # t => (to'[s] = to[s] /\ asked'[s] = asked[s])
  BY DEF RecordCost, Return, IInv, TypeOK
<1>8. to'[t] = NoOne
  BY DEF RecordCost, Return, IInv, TypeOK
<1>9. PaidTasks' = PaidTasks \ {t} /\ \A e \in Employees : PaidFrom(e)' = PaidFrom(e) \ {t}
  <2>1. PaidTasks' = PaidTasks \ {t}
    BY <1>7, <1>8 DEF PaidTasks, Paid
  <2> QED BY <2>1, <1>7, <1>8 DEF PaidFrom, PaidTasks
<1>10. t \in PaidTasks <=> Paid(t)
  BY <1>2, StaffTypes DEF PaidTasks
<1>11. ASSUME NEW P \in SUBSET Tasks, NEW used \in Nat, NEW cap \in Nat, NEW more \in {0, c},
              Bounded(used, cap + unasked, P),
              (more = c /\ Paid(t)) => t \in P
       PROVE  Bounded(used + more, cap + unasked', P \ {t})
  <2>1. Room(P) \in Nat
    BY RoomType
  <2>2. CASE t \in P
    <3>1. Room(P \ {t}) = Room(P) + MaxCost
      BY <2>2, RoomGrows
    <3>2. unasked' \in Nat /\ unasked' >= unasked
      BY <1>1, <1>2
    <3> QED BY <1>2, <1>11, <2>1, <3>1, <3>2 DEF Bounded
  <2>3. CASE t \notin P /\ Paid(t)
    <3>1. more = 0 /\ unasked' = unasked /\ P \ {t} = P
      BY <1>1, <1>2, <1>11, <2>3
    <3> QED BY <1>11, <3>1 DEF Bounded
  <2>4. CASE t \notin P /\ ~ Paid(t)
    <3>1. unasked' = unasked + c /\ P \ {t} = P
      BY <1>1, <2>4
    <3> QED BY <1>2, <1>11, <2>1, <3>1 DEF Bounded
  <2> QED BY <2>2, <2>3, <2>4
<1>12. CompanyDaily \in Nat /\ EmployeeDaily \in Nat
  BY DispatchAssumption
<1>13. Bounded(budget'.used, CompanyDaily + unasked', PaidTasks')
  <2>1. Bounded(b.used, CompanyDaily + unasked, PaidTasks) /\ PaidTasks \in SUBSET Tasks
    BY BoundedEquiv DEF PaidTasks
  <2> HIDE DEF b, d
  <2>2. Bounded(b.used + c, CompanyDaily + unasked', PaidTasks \ {t})
    BY <1>6, <1>10, <1>11, <1>12, <2>1
  <2> QED BY <1>5, <1>9, <2>2
<1>14. ASSUME NEW e \in Employees
       PROVE  Bounded(budget'.usedBy[e], EmployeeDaily + unasked', PaidFrom(e)')
  <2>1. Bounded(b.usedBy[e], EmployeeDaily + unasked, PaidFrom(e)) /\ PaidFrom(e) \in SUBSET Tasks
    BY BoundedEquiv DEF PaidFrom, PaidTasks
  <2>2. e = d /\ Paid(t) => t \in PaidFrom(e)
    BY <1>10 DEF PaidFrom
  <2> HIDE DEF b, d
  <2>3. CASE e = d
    <3>1. Bounded(b.usedBy[e] + c, EmployeeDaily + unasked', PaidFrom(e) \ {t})
      BY <1>6, <1>11, <1>12, <2>1, <2>2, <2>3
    <3> QED BY <1>5, <1>9, <2>3, <3>1
  <2>4. CASE e # d
    <3>1. Bounded(b.usedBy[e], EmployeeDaily + unasked', PaidFrom(e) \ {t})
      <4>1. t \notin PaidFrom(e)
        BY <2>4 DEF PaidFrom, d
      <4>2. PaidFrom(e) \ {t} = PaidFrom(e)
        BY <4>1
      <4>3. unasked' \in Nat /\ unasked' >= unasked
        BY <1>1, <1>2
      <4>4. b.usedBy[e] \in Nat /\ Room(PaidFrom(e)) \in Nat
        BY <1>6, RoomType
      <4>5. b.usedBy[e] <= (EmployeeDaily + unasked) + Room(PaidFrom(e))
        BY <2>1 DEF Bounded
      <4>6. b.usedBy[e] <= (EmployeeDaily + unasked') + Room(PaidFrom(e))
        BY <1>2, <1>12, <4>3, <4>4, <4>5
      <4> QED BY <4>2, <4>6 DEF Bounded
    <3>2. budget'.usedBy[e] = b.usedBy[e]
      BY <1>5, <1>6, <2>4
    <3> QED BY <1>9, <3>1, <3>2
  <2> QED BY <2>3, <2>4
<1> HIDE DEF b, d
<1> QED BY <1>4, <1>13, <1>14 DEF OvershootBounded, Bounded, Room, Others

LEMMA OthersBounded ==
  ASSUME IInv, OvershootBounded, UNCHANGED <<to, asked>>,
         Reset(budget)' = Reset(budget), unasked' = unasked
  PROVE  OvershootBounded'
<1>1. PaidTasks' = PaidTasks /\ \A e \in Employees : PaidFrom(e)' = PaidFrom(e)
  BY DEF PaidTasks, PaidFrom, Paid
<1> QED BY <1>1 DEF OvershootBounded

LEMMA OvershootNext == ASSUME IInv, OvershootBounded, [Next]_vars PROVE OvershootBounded'
<1>1. ASSUME NEW t \in Tasks, Dispatch(t) PROVE OvershootBounded'
  BY <1>1, DispatchBounded
<1>2. ASSUME NEW t \in Tasks, Execute(t) PROVE OvershootBounded'
  <2>1. UNCHANGED <<today, budget, to, asked, unasked>>
    BY <1>2 DEF Execute, Fetch, Refuse, Break, Expire, Abort, Read, StreamEnd, Notify, Answer, money
  <2>2. Reset(budget)' = Reset(budget)
    BY <2>1 DEF Reset, Zero
  <2> QED BY <2>1, <2>2, OthersBounded
<1>3. ASSUME NEW t \in Tasks, Dismiss(t) PROVE OvershootBounded'
  <2>1. UNCHANGED <<today, budget, unasked>> /\ to[t] = NoOne /\ to'[t] = NoOne
    BY <1>3 DEF Dismiss, Return, IInv, TypeOK
  <2>2. \A s \in Tasks : s # t => (to'[s] = to[s] /\ asked'[s] = asked[s])
    BY <1>3 DEF Dismiss, Return, IInv, TypeOK
  <2>3. PaidTasks' = PaidTasks
    BY <2>1, <2>2 DEF PaidTasks, Paid
  <2>4. \A e \in Employees : PaidFrom(e)' = PaidFrom(e)
    BY <2>1, <2>2, <2>3 DEF PaidFrom, PaidTasks
  <2>5. Reset(budget)' = Reset(budget)
    BY <2>1 DEF Reset, Zero
  <2> QED BY <2>1, <2>3, <2>4, <2>5 DEF OvershootBounded
<1>4. ASSUME NEW t \in Tasks, RecordCost(t) PROVE OvershootBounded'
  BY <1>4, RecordBounded
<1>5. ASSUME NewDay PROVE OvershootBounded'
  <2>1. Reset(budget)'.used = 0 /\ \A e \in Employees : Reset(budget)'.usedBy[e] = 0
    BY <1>5, DispatchAssumption DEF NewDay, Reset, Zero, IInv, DayInv, TypeOK, Totals
  <2>2. unasked' = 0
    BY <1>5 DEF NewDay
  <2>3. Room(PaidTasks') \in Nat /\ \A e \in Employees : Room(PaidFrom(e)') \in Nat
    BY RoomType
  <2>4. CompanyDaily \in Nat /\ EmployeeDaily \in Nat
    BY DispatchAssumption
  <2>5. /\ Bounded(Reset(budget)'.used, CompanyDaily + unasked', PaidTasks')
        /\ \A e \in Employees :
             Bounded(Reset(budget)'.usedBy[e], EmployeeDaily + unasked', PaidFrom(e)')
    BY <2>1, <2>2, <2>3, <2>4 DEF Bounded
  <2> QED BY <2>5 DEF OvershootBounded, Bounded, Room, Others
<1>6. ASSUME UNCHANGED vars PROVE OvershootBounded'
  <2>1. UNCHANGED <<today, budget, to, asked, unasked>>
    BY <1>6 DEF vars, calls
  <2>2. Reset(budget)' = Reset(budget)
    BY <2>1 DEF Reset, Zero
  <2> QED BY <2>1, <2>2, OthersBounded
<1> QED BY <1>1, <1>2, <1>3, <1>4, <1>5, <1>6 DEF Next

\* The company and each employee overshoot the day's cap by no more than the tasks that
\* are under way together may cost, and what was spent that no budget was asked for: for
\* any staff, caps and number of tasks (checkBudget before, recordCost after a task).
THEOREM OvershootIsBounded == Spec => []OvershootBounded
<1>1. Init => OvershootBounded
  <2> SUFFICES ASSUME Init PROVE OvershootBounded
    OBVIOUS
  <2>1. Reset(budget).used = 0 /\ \A e \in Employees : Reset(budget).usedBy[e] = 0
    BY DEF Init, Reset, Zero
  <2>2. unasked = 0 /\ CompanyDaily \in Nat /\ EmployeeDaily \in Nat
    BY DispatchAssumption DEF Init
  <2>3. Room(PaidTasks) \in Nat /\ \A e \in Employees : Room(PaidFrom(e)) \in Nat
    BY RoomType
  <2>4. /\ Bounded(Reset(budget).used, CompanyDaily + unasked, PaidTasks)
        /\ \A e \in Employees :
             Bounded(Reset(budget).usedBy[e], EmployeeDaily + unasked, PaidFrom(e))
    BY <2>1, <2>2, <2>3 DEF Bounded
  <2> QED BY <2>4, BoundedEquiv
<1>2. IInv /\ OvershootBounded /\ [Next]_vars => OvershootBounded'
  BY OvershootNext
<1> QED BY <1>1, <1>2, Invariant, PTL DEF Spec

---------------------------------------------------------------------------
\* The totals of the day.
LEMMA DailyInit == Init => Daily!Init
BY DEF Init, Daily!Init, Reset, Zero, NotAsked, Daily!NotAsked, NoOne

\* Every step is a step of the budget whose totals begin anew at midnight, or none of its.
LEMMA DailyStep ==
  ASSUME IInv, [Next]_vars PROVE [Daily!Next]_(Daily!vars)
<1> DEFINE b == Reset(budget)
<1>1. b \in Totals /\ b.day = today
  BY ResetType DEF IInv
<1>2. ASSUME NEW t \in Tasks, NEW k \in Kinds, Matched(t, k), today' = today PROVE Daily!Ask(t)
  <2>1. Primary(k) \in Employees
    BY <1>2, Routed DEF Matched
  <2>2. Reset(budget)' = b
    BY <1>1, <1>2, ResetAgain DEF Matched
  <2>3. Approved(b, Primary(k), Estimate(k)) <=> Daily!Fits(Primary(k), Estimate(k))
    BY <2>1 DEF Approved, Daily!Fits
  <2> QED BY <1>2, <2>1, <2>2, <2>3 DEF Matched, Daily!Ask
<1>3. ASSUME NEW t \in Tasks, Dispatch(t) PROVE Daily!Ask(t) \/ UNCHANGED Daily!vars
  <2>1. PICK k \in Kinds : Unmatched(t, k) \/ Matched(t, k)
    BY <1>3 DEF Dispatch
  <2>2. today' = today
    BY <1>3 DEF Dispatch
  <2>3. CASE Unmatched(t, k)
    BY <2>2, <2>3 DEF Unmatched, Daily!vars, Reset, Zero
  <2> QED BY <1>2, <2>1, <2>2, <2>3
<1>4. ASSUME NEW t \in Tasks, Execute(t) PROVE UNCHANGED Daily!vars
  BY <1>4 DEF Execute, Fetch, Refuse, Break, Expire, Abort, Read, StreamEnd, Notify, Answer, money,
              Daily!vars, Reset, Zero
<1>5. ASSUME NEW t \in Tasks, Dismiss(t) PROVE Daily!Forget(t)
  BY <1>5 DEF Dismiss, Return, Daily!Forget, Reset, Zero, NotAsked, Daily!NotAsked, NoOne
<1>6. ASSUME NEW t \in Tasks, RecordCost(t)
      PROVE  \E e \in Employees, c \in 0..MaxCost : Daily!Spend(t, e, c)
  <2>1. PICK c \in Costs : budget' = Recorded(b, to[t], c)
    BY <1>6 DEF RecordCost
  <2>2. to[t] \in Employees
    BY <1>6 DEF RecordCost, IInv, TypeOK, Payees
  <2>3. budget'.day = today /\ today' = today
    BY <1>6, <2>1, <2>2, RecordedType DEF RecordCost, Return
  <2>4. Reset(budget)' = Recorded(b, to[t], c)
    BY <2>1, <2>3, ResetAgain
  <2>5. asked' = [asked EXCEPT ![t] = Daily!NotAsked]
    BY <1>6 DEF RecordCost, Return, NotAsked, Daily!NotAsked, NoOne
  <2>6. /\ Recorded(b, to[t], c).used = b.used + c
        /\ Recorded(b, to[t], c).usedBy = [b.usedBy EXCEPT ![to[t]] = @ + c]
    <3> HIDE DEF b
    <3> QED BY <1>1, <2>2 DEF Recorded, Totals
  <2>7. c \in 0..MaxCost
    BY DispatchAssumption
  <2> QED BY <2>2, <2>3, <2>4, <2>5, <2>6, <2>7 DEF Daily!Spend
<1>7. ASSUME NewDay PROVE Daily!NewDay
  BY <1>7, DispatchAssumption
  DEF NewDay, Daily!NewDay, calls, Reset, Zero, IInv, DayInv, TypeOK, Totals
<1>8. ASSUME UNCHANGED vars PROVE UNCHANGED Daily!vars
  BY <1>8 DEF vars, calls, Daily!vars, Reset, Zero
<1> QED BY <1>3, <1>4, <1>5, <1>6, <1>7, <1>8 DEF Next, Daily!Next

\* The totals that the first check or record of a day sets back grant and refuse what
\* totals set back at midnight would.
THEOREM LazyResetIsExact == Spec => DaysAreKept
<1>1. IInv /\ [Next]_vars => [Daily!Next]_(Daily!vars)
  BY DailyStep
<1> QED BY <1>1, DailyInit, Invariant, PTL DEF Spec, DaysAreKept, Daily!Spec
=============================================================================
