---------------------------- MODULE DailyBudget ----------------------------
(***************************************************************************)
(* What the cost controller of TriMC (src/orchestration/cost-controller.ts)*)
(* promises: the totals of the day begin anew the moment the day does, and *)
(* a task is granted exactly when its estimate fits what is left of it.    *)
(***************************************************************************)
EXTENDS Naturals

CONSTANTS
  Tasks,          \* tasks under way together
  Employees,
  CompanyDaily,   \* what the company may spend on a day
  EmployeeDaily,  \* what one employee may
  TaskCap,        \* what one task of each employee may
  Estimates,      \* what tasks are estimated at
  MaxCost         \* the most a task may come to

VARIABLES
  day,      \* today
  spent,    \* spent today
  spentBy,  \* spent today by each employee
  asked     \* whose budget each task was checked against, at which estimate, and the answer

vars == <<day, spent, spentBy, asked>>

NotAsked == [of |-> 0, estimate |-> 0, answer |-> "none"]

Init ==
  /\ day = 0 /\ spent = 0
  /\ spentBy = [e \in Employees |-> 0]
  /\ asked = [t \in Tasks |-> NotAsked]

NewDay ==
  /\ day' = day + 1
  /\ spent' = 0
  /\ spentBy' = [e \in Employees |-> 0]
  /\ UNCHANGED asked

Fits(e, c) ==
  /\ spent + c <= CompanyDaily
  /\ spentBy[e] + c <= EmployeeDaily
  /\ c <= TaskCap[e]

Ask(t) ==
  /\ \E e \in Employees, c \in Estimates :
       asked' = [asked EXCEPT ![t] =
         [of |-> e, estimate |-> c, answer |-> IF Fits(e, c) THEN "granted" ELSE "refused"]]
  /\ UNCHANGED <<day, spent, spentBy>>

\* A task that was executed is over, and has cost c.
Spend(t, e, c) ==
  /\ spent' = spent + c
  /\ spentBy' = [spentBy EXCEPT ![e] = @ + c]
  /\ asked' = [asked EXCEPT ![t] = NotAsked]
  /\ UNCHANGED day

\* A task that was not executed is over.
Forget(t) ==
  /\ asked' = [asked EXCEPT ![t] = NotAsked]
  /\ UNCHANGED <<day, spent, spentBy>>

Next ==
  \/ NewDay
  \/ \E t \in Tasks : Ask(t) \/ Forget(t)
  \/ \E t \in Tasks, e \in Employees, c \in 0..MaxCost : Spend(t, e, c)

Spec == Init /\ [][Next]_vars
=============================================================================
