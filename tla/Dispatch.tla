------------------------------ MODULE Dispatch ------------------------------
(***************************************************************************)
(* Employee dispatch in TriMC: a task is routed to an employee             *)
(* (src/orchestration/capability-router.ts), checked against three budgets *)
(* (cost-controller.ts), assigned (dispatch-proxy.ts, employee-            *)
(* scheduler.ts) and executed on a node over HTTP (trilc-executor.ts).     *)
(*                                                                         *)
(* dispatch() is one turn of the event loop; the execution after it is     *)
(* not, so several tasks are under way together.  The cost of a task is    *)
(* recorded by the caller of dispatchAsync when the task is over, perhaps  *)
(* on a later day.  The totals of a day are set back by the first check or *)
(* record of another day.                                                  *)
(***************************************************************************)
EXTENDS Naturals, Sequences, FiniteSets

CONSTANTS
  Tasks,          \* calls of dispatchAsync under way together
  Kinds,          \* tasks by what they need: [outputs, decision]
  Staff,          \* employees in the order of the registry
  Turn,           \* TIERS: the most a task of a tier may use, in thousands of tokens
  Price,          \* PRICING of a tier's default model, in dollars per million tokens
  CompanyDaily,   \* DEFAULT_COMPANY_DAILY, in thousandths of a dollar as all costs here
  EmployeeDaily,  \* DEFAULT_EMPLOYEE_DAILY
  Costs,          \* what a task turns out to cost
  MaxCost,        \* bound: the most a task costs
  MaxDay,         \* bound: days that pass
  MaxUnasked      \* bound: what tasks may cost that no budget was asked for

Tiers     == DOMAIN Turn
Employees == DOMAIN Staff
NoOne     == 0

\* An employee: what its contract puts out, decides and may not decide, its load and
\* room, and the first of its reporting chain that is in the registry.
Contracts ==
  [active : BOOLEAN, outputs : SUBSET UNION {k.outputs : k \in Kinds},
   rights : SUBSET {k.decision : k \in Kinds}, forbidden : SUBSET {k.decision : k \in Kinds},
   load : Nat, room : Nat, tier : Tiers, cap : Nat, boss : Employees \cup {NoOne}]

ASSUME DispatchAssumption ==
  /\ \A k \in Kinds : IsFiniteSet(k.outputs)
  /\ Staff \in Seq(Contracts)
  /\ Turn \in [Tiers -> Nat] /\ Price \in [Tiers -> Nat]
  /\ CompanyDaily \in Nat /\ EmployeeDaily \in Nat
  /\ MaxCost \in Nat /\ Costs \subseteq 0..MaxCost /\ MaxDay \in Nat /\ MaxUnasked \in Nat
  /\ IsFiniteSet(Tasks)

VARIABLES
  today,    \* the clock
  budget,   \* _budget: totals, and the day they are of
  phase,    \* where each call is
  to,       \* who the task went to: assignedTo, or else escalationTo
  asked,    \* what the budget check was asked and said, as in the trace
  verdict,  \* taskStatus: what the stream has said so far
  tail,     \* what is in the buffer behind the last newline
  failed,   \* history: the node wrote a whole line that says it failed
  expired,  \* signal: the timeout has passed, and the execution still waits
  told,     \* what taskResultCallback was told, in order
  outcome,  \* what execute returns
  result,   \* what dispatchAsync answered
  unasked   \* history: recorded today for tasks whose payer's budget was not asked

calls == <<phase, to, asked, verdict, tail, failed, expired, told, outcome, result>>
vars  == <<today, budget, calls, unasked>>

\* What an execution leaves alone, and what it has read of its stream.
money == <<today, budget, to, asked, unasked>>
heard == <<verdict, tail, failed>>

---------------------------------------------------------------------------
\* Routing: who puts out at least 80% of what is wanted, best score first and, among
\* equals, first in the registry.  Scores are ten times the code's.
Coverage(k, i) ==
  LET wanted == Cardinality(k.outputs)
      there  == Cardinality(k.outputs \cap Staff[i].outputs)
  IN IF wanted = 0 THEN 100 ELSE (200 * there + wanted) \div (2 * wanted)

Authorised(k, i) ==
  \/ k.decision = "none"
  \/ k.decision \in Staff[i].rights
  \/ k.decision \notin Staff[i].forbidden

Score(k, i) ==
  Coverage(k, i) * 6
  + (IF Authorised(k, i) THEN 250 ELSE 0)
  + (IF Staff[i].load < Staff[i].room THEN 150 ELSE 0)

Active        == {i \in Employees : Staff[i].active}
Acceptable(k) == {i \in Active : Coverage(k, i) >= 80 /\ Score(k, i) >= 600}
Before(k, i, j) == Score(k, i) > Score(k, j) \/ (Score(k, i) = Score(k, j) /\ i < j)
Best(k, S)    == CHOOSE i \in S : \A j \in S \ {i} : Before(k, i, j)
FirstOf(S)    == CHOOSE i \in S : \A j \in S : i <= j

Primary(k) == Best(k, Acceptable(k))

\* The first of the escalation path of a routing decision.
Escalation(k) ==
  IF Acceptable(k) # {} THEN Staff[Primary(k)].boss
  ELSE IF Active # {} THEN Staff[FirstOf(Active)].boss ELSE NoOne

\* Who can take the task: the primary, or else the best alternative with room.
\* assign() is given no running tasks, so there is room wherever there is any.
Assignable(k) == {i \in Acceptable(k) : Staff[i].room > 0}
Assignee(k)   == IF Primary(k) \in Assignable(k) THEN Primary(k) ELSE Best(k, Assignable(k))

\* The estimate is made before the routing, by the tier of the first active employee.
\* Whole thousands of tokens at whole dollars per million are whole thousandths of a
\* dollar: the rounding of a cost to thousandths drops nothing.
Least(a, b) == IF a < b THEN a ELSE b
Estimate(k) ==
  LET tokens == IF k.outputs = {} THEN 10 ELSE 20 * Cardinality(k.outputs)
      tier   == Staff[FirstOf(Active)].tier
  IN Least(tokens, Turn[tier]) * Price[tier]

---------------------------------------------------------------------------
\* Budgets.  The totals of the month are kept in the same way and never asked for.
Zero     == [e \in Employees |-> 0]
NotAsked == [of |-> NoOne, estimate |-> 0, answer |-> "none"]

ResetTotal(b) ==  \* mutant: the employees' totals of the day are not cleared
  IF b.day = today THEN b ELSE [b EXCEPT !.day = today, !.used = 0]
Reset(b) ==
  IF b.day = today THEN b ELSE [day |-> today, used |-> 0, usedBy |-> Zero]

ApprovedByCompany(b, e, c) ==  \* mutant: no layer of the employee
  b.used + c <= CompanyDaily /\ c <= Staff[e].cap
Approved(b, e, c) ==
  b.used + c <= CompanyDaily /\ b.usedBy[e] + c <= EmployeeDaily /\ c <= Staff[e].cap

Recorded(b, e, c) ==
  [day |-> b.day, used |-> b.used + c, usedBy |-> [b.usedBy EXCEPT ![e] = @ + c]]

\* The budget that was asked for a task is the one it is charged to.
Paid(t) == asked[t].answer = "granted" /\ asked[t].of = to[t]

Init ==
  /\ today = 0
  /\ budget = [day |-> 0, used |-> 0, usedBy |-> Zero]
  /\ phase = [t \in Tasks |-> "idle"]
  /\ to = [t \in Tasks |-> NoOne]
  /\ asked = [t \in Tasks |-> NotAsked]
  /\ verdict = [t \in Tasks |-> "success"]
  /\ tail = [t \in Tasks |-> "content"]
  /\ failed = [t \in Tasks |-> FALSE]
  /\ expired = [t \in Tasks |-> FALSE]
  /\ told = [t \in Tasks |-> << >>]
  /\ outcome = [t \in Tasks |-> "none"]
  /\ result = [t \in Tasks |-> "none"]
  /\ unasked = 0

---------------------------------------------------------------------------
\* dispatch(): one turn.  A task nobody matches, and one the budget refuses, goes up the
\* reporting chain and is a success all the same: dispatchAsync executes it too.
Goes(t, e) ==
  /\ to' = [to EXCEPT ![t] = e]
  /\ phase' = [phase EXCEPT ![t] = IF e = NoOne THEN "answered" ELSE "submit"]
  /\ result' = [result EXCEPT ![t] = IF e = NoOne THEN "rejected" ELSE "none"]

Unmatched(t, k) ==
  /\ Acceptable(k) = {}
  /\ Goes(t, Escalation(k))
  /\ UNCHANGED <<budget, asked>>

Matched(t, k) ==
  LET e  == Primary(k)
      c  == Estimate(k)
      ok == Approved(Reset(budget), e, c)
  IN /\ Acceptable(k) # {}
     /\ budget' = Reset(budget)
     /\ asked' = [asked EXCEPT ![t] =
          [of |-> e, estimate |-> c, answer |-> IF ok THEN "granted" ELSE "refused"]]
     /\ Goes(t, IF ~ok THEN Escalation(k) ELSE IF Assignable(k) # {} THEN Assignee(k) ELSE NoOne)

Dispatch(t) ==
  /\ phase[t] = "idle"
  /\ unasked < MaxUnasked
  /\ \E k \in Kinds : Unmatched(t, k) \/ Matched(t, k)
  /\ UNCHANGED <<today, heard, expired, told, outcome, unasked>>

---------------------------------------------------------------------------
\* TriLCDispatchExecutor.execute.  It waits for the answer to its submission, for the
\* stream it then asks for, and for each piece of it; what it does between two of these
\* waits is one turn, here steps of their own that nothing can prevent.
Executing(t) == phase[t] \in {"submit", "connect", "stream"}

\* The waits that the signal of the timeout can end: both requests are given it, and it
\* holds for what is read of their answers too.
SignalledSubmit == {"submit"}  \* mutant: the request for the stream is not given the signal
Signalled == {"submit", "connect", "stream"}

\* The execution is over: it ends as the stream says, was refused or ran into the catch.
\* The signal has nothing left to end.
Over(t, how) ==
  /\ Executing(t)
  /\ phase' = [phase EXCEPT ![t] = how]
  /\ expired' = [expired EXCEPT ![t] = FALSE]

\* The node takes the task and names its stream; then it opens the stream.
Fetch(t) ==
  /\ \/ phase[t] = "submit" /\ phase' = [phase EXCEPT ![t] = "connect"]
     \/ phase[t] = "connect" /\ phase' = [phase EXCEPT ![t] = "stream"]
  /\ UNCHANGED <<money, heard, expired, told, outcome, result>>

\* The node answers with an error, names no stream or gives no body.
Refuse(t) ==
  /\ phase[t] \in {"submit", "connect"}
  /\ Over(t, "refused")
  /\ UNCHANGED <<money, heard, told, outcome, result>>

\* The network fails, or an answer is not JSON: the wait throws.
Break(t) ==
  /\ Over(t, "caught")
  /\ UNCHANGED <<money, heard, told, outcome, result>>

\* The timeout passes.  A wait for a request that was given the signal throws.
Expire(t) ==
  /\ Executing(t) /\ ~expired[t]
  /\ expired' = [expired EXCEPT ![t] = TRUE]
  /\ UNCHANGED <<money, phase, heard, told, outcome, result>>

Abort(t) ==
  /\ expired[t] /\ phase[t] \in Signalled
  /\ Over(t, "caught")
  /\ UNCHANGED <<money, heard, told, outcome, result>>

\* A newline arrives: the line before it is read, and the next one begins.
VerdictOfLast(old, line) == IF line = "failed" THEN "failed" ELSE "success"  \* mutant: the last line decides
Verdict(old, line) == IF line = "failed" THEN "failed" ELSE old

Read(t) ==
  /\ phase[t] = "stream"
  /\ verdict' = [verdict EXCEPT ![t] = Verdict(@, tail[t])]
  /\ failed' = [failed EXCEPT ![t] = @ \/ tail[t] = "failed"]
  /\ \E line \in {"content", "failed"} : tail' = [tail EXCEPT ![t] = line]
  /\ UNCHANGED <<money, phase, expired, told, outcome, result>>

\* The stream ends.  What is left in the buffer counts as content, whatever it says.
StreamEnd(t) ==
  /\ phase[t] = "stream"
  /\ Over(t, "ended")
  /\ UNCHANGED <<money, heard, told, outcome, result>>

\* The callback is told how it ended, and execute returns the same.  The calls for a
\* stream that ended or a node that refused are in the try whose catch calls it too: a
\* callback that throws must not get there.
Status(t) == IF phase[t] = "ended" THEN verdict[t] ELSE "failed"

Rethrow(t) ==  \* mutant: notifyResult lets what the callback throws pass
  phase' = [phase EXCEPT ![t] = IF @ = "caught" THEN "returned" ELSE "caught"]
Swallow(t) == phase' = [phase EXCEPT ![t] = "returned"]

Notify(t) ==
  /\ phase[t] \in {"ended", "refused", "caught"}
  /\ told' = [told EXCEPT ![t] = Append(@, Status(t))]
  /\ outcome' = [outcome EXCEPT ![t] = Status(t)]
  /\ \E throws \in BOOLEAN :
       IF throws THEN Swallow(t) ELSE phase' = [phase EXCEPT ![t] = "returned"]
  /\ UNCHANGED <<money, heard, expired, result>>

\* dispatchAsync goes on and answers its caller.
Answer(t) ==
  /\ phase[t] = "returned"
  /\ phase' = [phase EXCEPT ![t] = "answered"]
  /\ result' = [result EXCEPT ![t] = outcome[t]]
  /\ UNCHANGED <<money, heard, expired, told, outcome>>

---------------------------------------------------------------------------
\* The caller is done with the task; it records the cost of one that was executed.
Return(t) ==
  /\ phase' = [phase EXCEPT ![t] = "idle"]
  /\ to' = [to EXCEPT ![t] = NoOne]
  /\ asked' = [asked EXCEPT ![t] = NotAsked]
  /\ verdict' = [verdict EXCEPT ![t] = "success"]
  /\ tail' = [tail EXCEPT ![t] = "content"]
  /\ failed' = [failed EXCEPT ![t] = FALSE]
  /\ expired' = [expired EXCEPT ![t] = FALSE]
  /\ told' = [told EXCEPT ![t] = << >>]
  /\ outcome' = [outcome EXCEPT ![t] = "none"]
  /\ result' = [result EXCEPT ![t] = "none"]
  /\ UNCHANGED today

Dismiss(t) ==
  /\ phase[t] = "answered" /\ to[t] = NoOne
  /\ Return(t)
  /\ UNCHANGED <<budget, unasked>>

RecordCost(t) ==
  /\ phase[t] = "answered" /\ to[t] # NoOne
  /\ \E c \in Costs :
       /\ budget' = Recorded(Reset(budget), to[t], c)
       /\ unasked' = unasked + (IF Paid(t) THEN 0 ELSE c)
  /\ Return(t)

NewDay ==
  /\ today < MaxDay
  /\ today' = today + 1
  /\ unasked' = 0
  /\ UNCHANGED <<budget, calls>>

Execute(t) ==
  \/ Fetch(t) \/ Refuse(t) \/ Break(t) \/ Expire(t) \/ Abort(t)
  \/ Read(t) \/ StreamEnd(t) \/ Notify(t) \/ Answer(t)
Next ==
  \/ \E t \in Tasks : Dispatch(t) \/ Execute(t) \/ Dismiss(t) \/ RecordCost(t)
  \/ NewDay

Spec == Init /\ [][Next]_vars

\* The timer fires and ends what waits with it, and a turn that began is run to its end.
\* Nothing is assumed of the node, of the network or of the callers.
FairSpec ==
  /\ Spec
  /\ \A t \in Tasks :
       WF_vars(Expire(t)) /\ WF_vars(Abort(t)) /\ WF_vars(Notify(t)) /\ WF_vars(Answer(t))

---------------------------------------------------------------------------
Totals == [day : 0..MaxDay, used : Nat, usedBy : [Employees -> Nat]]
Payees == Employees \cup {NoOne}
Phases == {"idle", "submit", "connect", "stream", "ended", "refused", "caught",
           "returned", "answered"}
Asked  == [of : Payees, estimate : Nat, answer : {"none", "granted", "refused"}]

TypeOK ==
  /\ today \in 0..MaxDay /\ budget \in Totals /\ unasked \in Nat
  /\ phase \in [Tasks -> Phases]
  /\ to \in [Tasks -> Payees] /\ asked \in [Tasks -> Asked]
  /\ verdict \in [Tasks -> {"success", "failed"}]
  /\ tail \in [Tasks -> {"content", "failed"}] /\ failed \in [Tasks -> BOOLEAN]
  /\ result \in [Tasks -> {"none", "rejected", "success", "failed"}]
  /\ expired \in [Tasks -> BOOLEAN]
  /\ told \in [Tasks -> Seq({"success", "failed"})]
  /\ outcome \in [Tasks -> {"none", "success", "failed"}]

\* Tasks under way that were granted by the budget they will be charged to.
PaidTasks   == {t \in Tasks : to[t] # NoOne /\ Paid(t)}
PaidFrom(e) == {t \in PaidTasks : to[t] = e}

\* The check before a task and the record after it (checkBudget, recordCost) let the
\* company and each employee overshoot the day's cap, but by no more than the tasks that
\* were under way together may cost, and what was recorded for tasks that were executed
\* though their payer's budget was not asked or refused them.
OvershootBounded ==
  LET now == Reset(budget)
  IN /\ now.used <= CompanyDaily + unasked + MaxCost * Cardinality(Tasks \ PaidTasks)
     /\ \A e \in Employees :
          now.usedBy[e] <= EmployeeDaily + unasked + MaxCost * Cardinality(Tasks \ PaidFrom(e))

\* When dispatchAsync answers for an executed task, the callback has been told once, and
\* the same: also when it threw, which must not end in the catch around that call and in
\* a second telling (execute, notifyResult).  Of a task that was not executed it was told
\* nothing.
ToldOnce ==
  \A t \in Tasks : phase[t] = "answered" =>
    told[t] = IF result[t] = "rejected" THEN << >> ELSE <<result[t]>>

\* A task whose node wrote, on a line of its own, that it failed is never answered as a
\* success, whatever the stream says afterwards and however it ends (execute).
FailureKept == \A t \in Tasks : failed[t] => result[t] # "success"

\* The totals that are set back by the first check or record of a day grant and refuse
\* what totals set back at midnight would (ensureDailyReset in checkBudget, recordCost).
Daily == INSTANCE DailyBudget WITH
  day <- today, spent <- Reset(budget).used, spentBy <- Reset(budget).usedBy,
  TaskCap <- [e \in Employees |-> Staff[e].cap],
  Estimates <- {Estimate(k) : k \in Kinds}
DaysAreKept == Daily!Spec

\* Every task handed to the executor is answered in the end, though the node may take it
\* and say nothing, open no stream or never end it, and the callback may throw: the one
\* signal of the timeout must reach every wait (execute).
Answered == \A t \in Tasks : Executing(t) ~> phase[t] = "answered"
=============================================================================
