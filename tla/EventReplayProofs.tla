------------------------- MODULE EventReplayProofs -------------------------
(***************************************************************************)
(* Proofs about EventReplay, for any nodes, tasks, keys and logs, however  *)
(* many batches and answers are under way, lost or late, and however often *)
(* the server restarts.                                                    *)
(***************************************************************************)
EXTENDS EventReplay, TLAPS

\* An event has a verdict only once it has happened.
HeardInv == \A n \in Nodes : \A i \in Seqs : verdict[n][i] # "none" => i \in DOMAIN log[n]

\* A tool call that was accepted is known as executed, and was accepted once.
ToolInv == \A k \in Keys : ran[k] \in 0..1 /\ (ran[k] = 1 => k \in executed)

\* Everything before a batch, before the round of the batch in hand, up to an answer and
\* up to what a node dropped was judged.
JudgedInv ==
  /\ \A m \in requests : 1..(m.first - 1) \subseteq judged[m.node]
  /\ batch # NoBatch => 1..(at - 1) \subseteq judged[batch.node]
  /\ \A a \in answers : 1..a.last \subseteq judged[a.node]
  /\ \A n \in Nodes : 1..acked[n] \subseteq judged[n]

IInv == TypeOK /\ HeardInv /\ ToolInv /\ OneOwner /\ JudgedInv

-----------------------------------------------------------------------------
LEMMA BatchInHand ==
  ASSUME TypeOK, batch # NoBatch, at <= batch.last
  PROVE  /\ batch \in Batches /\ batch.node \in Nodes
         /\ at \in Seqs /\ at \in DOMAIN log[batch.node] /\ at + 1 \in 1..(MaxEvents + 1)
         /\ log[batch.node][at] \in Events
BY ReplayAssumption DEF TypeOK, Batches, NoBatch, Seqs

LEMMA JudgeType == ASSUME NEW n, NEW e PROVE Judge(n, e) \in Verdicts
BY DEF Judge, JudgeAssign, JudgeComplete, Verdicts

LEMMA EventKinds ==
  ASSUME NEW e \in Events
  PROVE  /\ e.type \in {"task_assign", "task_complete"} => e.id \in Tasks
         /\ e.type = "tool_call" => e.id \in Keys
         /\ e.type \in {"task_assign", "task_complete", "tool_call", "other"}
BY DEF Events

-----------------------------------------------------------------------------
LEMMA TypeInit == Init => TypeOK
BY ReplayAssumption DEF Init, TypeOK, NoBatch, Batches, Answers, Unheard, Seqs, Verdicts, Events

LEMMA TypeStep == TypeOK /\ [Next]_vars => TypeOK'
<1> SUFFICES ASSUME TypeOK, [Next]_vars PROVE TypeOK'
    OBVIOUS
<1> USE ReplayAssumption
<1>1. ASSUME NEW n \in Nodes, NEW e \in Events, Happen(n, e) PROVE TypeOK'
  <2>1. log' \in [Nodes -> Seq(Events)] /\ \A m \in Nodes : Len(log'[m]) <= MaxEvents
        BY <1>1 DEF TypeOK, Happen
  <2>2. \A m \in Nodes : Len(log'[m]) >= Len(log[m])
        BY <1>1 DEF TypeOK, Happen
  <2>3. \A m \in requests \cup ({batch} \ {NoBatch}) : m.last <= Len(log'[m.node])
        BY <2>1, <2>2 DEF TypeOK, Batches, Seqs
  <2> QED BY <1>1, <2>1, <2>3 DEF TypeOK, Happen, tables, turn, history
<1>2. ASSUME NEW n \in Nodes, Send(n) PROVE TypeOK'
  <2>1. [node |-> n, first |-> acked[n] + 1, last |-> Len(log[n])] \in Batches
        BY <1>2 DEF TypeOK, Send, Batches, Seqs
  <2> QED BY <1>2, <2>1 DEF TypeOK, Send, tables, turn, history
<1>3. ASSUME NEW n \in Nodes, Receive(n) PROVE TypeOK'
      BY <1>3 DEF TypeOK, Receive, tables, turn, history, Answers
<1>4. ASSUME NEW n \in Nodes, Deliver(n) PROVE TypeOK'
      BY <1>4 DEF TypeOK, Deliver, tables, history, Batches, Seqs
<1>5. CASE Lose
      BY <1>5 DEF TypeOK, Lose, tables, turn, history
<1>6. CASE Arbitrate
  <2> DEFINE n == batch.node  e == log[n][at]
  <2>1. n \in Nodes /\ at \in Seqs /\ e \in Events /\ at + 1 \in 1..(MaxEvents + 1)
        BY <1>6, BatchInHand DEF Arbitrate
  <2>2. assigned' \in [Tasks -> Nodes \cup {"none"}] /\ executed' \subseteq Keys
        BY <1>6, <2>1, EventKinds DEF TypeOK, Arbitrate, KeepAssigned, KeepExecuted, tables
  <2>3. verdict' \in [Nodes -> [Seqs -> Verdicts]]
        BY <1>6, <2>1, JudgeType DEF TypeOK, Arbitrate
  <2>4. ran' \in [Keys -> 0..2] /\ judged' \in [Nodes -> SUBSET Seqs]
        BY <1>6, <2>1, EventKinds DEF TypeOK, Arbitrate
  <2> QED BY <1>6, <2>1, <2>2, <2>3, <2>4 DEF TypeOK, Arbitrate, network
<1>7. CASE Reply
      BY <1>7 DEF TypeOK, Reply, tables, history, Batches, NoBatch, Answers, Seqs
<1>8. CASE Restart
      BY <1>8 DEF TypeOK, Restart, network, NoBatch, Unheard, Verdicts
<1>9. ASSUME NEW t \in Tasks, NEW n \in Nodes, TrackTaskAssignment(t, n) PROVE TypeOK'
      BY <1>9 DEF TypeOK, TrackTaskAssignment, network, turn, Verdicts
<1>10. ASSUME NEW k \in Keys, TrackToolExecution(k) PROVE TypeOK'
      BY <1>10 DEF TypeOK, TrackToolExecution, network, turn, history
<1>11. CASE UNCHANGED vars
      BY <1>11 DEF TypeOK, vars, network, tables, turn, history
<1> QED BY <1>1, <1>2, <1>3, <1>4, <1>5, <1>6, <1>7, <1>8, <1>9, <1>10, <1>11 DEF Next

\* Every variable keeps its type (the maps of arbitration.ts and the network around them).
THEOREM TypeCorrect == Spec => []TypeOK
BY TypeInit, TypeStep, PTL DEF Spec

-----------------------------------------------------------------------------
LEMMA Accepted ==
  ASSUME TypeOK, NEW n \in Nodes, NEW e \in Events, Judge(n, e) = "accepted"
  PROVE  /\ e.type = "task_assign" => assigned[e.id] \in {"none", n}
         /\ e.type = "task_complete" => assigned[e.id] = n
         /\ e.type = "tool_call" => e.id \notin executed
<1>1. CASE e.type = "task_assign"
      BY <1>1 DEF Judge, JudgeAssign
<1>2. CASE e.type = "task_complete"
      BY <1>2 DEF Judge, JudgeComplete
<1>3. CASE e.type = "tool_call"
      BY <1>3 DEF Judge
<1> QED BY <1>1, <1>2, <1>3

LEMMA OwnersAgain ==
  ASSUME TypeOK, NEW n \in Nodes, NEW e \in Events,
         e.type \in {"task_assign", "task_complete"}, assigned[e.id] = n
  PROVE  Judge(n, e) = "accepted"
<1>1. n # "none"
      BY ReplayAssumption
<1>2. CASE e.type = "task_assign"
      BY <1>2 DEF Judge, JudgeAssign
<1>3. CASE e.type = "task_complete"
      BY <1>1, <1>3 DEF Judge, JudgeComplete
<1> QED BY <1>2, <1>3

-----------------------------------------------------------------------------
LEMMA InitInv == Init => IInv
<1> SUFFICES ASSUME Init PROVE IInv
    OBVIOUS
<1>1. TypeOK
      BY TypeInit
<1>2. HeardInv /\ OneOwner
      BY DEF Init, HeardInv, OneOwner, Unheard, Seqs
<1>3. ToolInv
      BY DEF Init, ToolInv
<1>4. JudgedInv
      BY DEF Init, JudgedInv
<1> QED BY <1>1, <1>2, <1>3, <1>4 DEF IInv

LEMMA HeardStep == TypeOK /\ HeardInv /\ [Next]_vars => HeardInv'
<1> SUFFICES ASSUME TypeOK, HeardInv, [Next]_vars PROVE HeardInv'
    OBVIOUS
<1>1. ASSUME NEW n \in Nodes, NEW e \in Events, Happen(n, e) PROVE HeardInv'
  <2>1. \A m \in Nodes : DOMAIN log[m] \subseteq DOMAIN log'[m]
        BY <1>1 DEF TypeOK, Happen
  <2> QED BY <1>1, <2>1 DEF HeardInv, Happen, history
<1>2. CASE Arbitrate
  <2>1. at \in DOMAIN log[batch.node]
        BY <1>2, BatchInHand DEF Arbitrate
  <2> QED BY <1>2, <2>1 DEF TypeOK, HeardInv, Arbitrate, network
<1>3. CASE Restart
      BY <1>3 DEF HeardInv, Restart, Unheard
<1>4. ASSUME NEW t \in Tasks, NEW n \in Nodes, TrackTaskAssignment(t, n) PROVE HeardInv'
      BY <1>4 DEF HeardInv, TrackTaskAssignment, network
<1>5. CASE UNCHANGED <<log, verdict>>
      BY <1>5 DEF HeardInv
<1> QED BY <1>1, <1>2, <1>3, <1>4, <1>5
        DEF Next, vars, network, history, Send, Receive, Deliver, Lose, Reply, TrackToolExecution

LEMMA ToolStep == TypeOK /\ ToolInv /\ [Next]_vars => ToolInv'
<1> SUFFICES ASSUME TypeOK, ToolInv, [Next]_vars PROVE ToolInv'
    OBVIOUS
<1>1. CASE Arbitrate
  <2> DEFINE n == batch.node  e == log[n][at]
  <2>1. n \in Nodes /\ e \in Events
        BY <1>1, BatchInHand DEF Arbitrate
  <2>2. CASE Judge(n, e) = "accepted" /\ e.type = "tool_call"
    <3>1. e.id \in Keys /\ e.id \notin executed
          BY <2>1, <2>2, EventKinds, Accepted
    <3>2. ran[e.id] = 0
          BY <3>1 DEF ToolInv
    <3>3. ran' = [ran EXCEPT ![e.id] = 1] /\ executed' = executed \cup {e.id}
          BY <1>1, <2>2, <3>1, <3>2 DEF Arbitrate, KeepExecuted, TypeOK
    <3> QED BY <3>1, <3>3 DEF ToolInv, TypeOK
  <2>3. CASE ~(Judge(n, e) = "accepted" /\ e.type = "tool_call")
        BY <1>1, <2>3 DEF Arbitrate, ToolInv, KeepExecuted, tables
  <2> QED BY <2>2, <2>3
<1>2. CASE Restart
      BY <1>2 DEF ToolInv, Restart
<1>3. ASSUME NEW k \in Keys, TrackToolExecution(k) PROVE ToolInv'
      BY <1>3 DEF ToolInv, TrackToolExecution, history
<1>4. CASE UNCHANGED <<executed, ran>>
      BY <1>4 DEF ToolInv
<1> QED BY <1>1, <1>2, <1>3, <1>4
        DEF Next, vars, tables, history, Happen, Send, Receive, Deliver, Lose, Reply,
            TrackTaskAssignment

LEMMA OwnerStep == TypeOK /\ HeardInv /\ OneOwner /\ [Next]_vars => OneOwner'
<1> SUFFICES ASSUME TypeOK, HeardInv, OneOwner, [Next]_vars,
                    NEW m \in Nodes, NEW i \in DOMAIN log'[m], NEW u \in Tasks,
                    OfTask(log'[m][i], u), verdict'[m][i] = "accepted"
             PROVE  assigned'[u] = m
    BY DEF OneOwner
<1>0. i \in Seqs /\ i <= Len(log'[m])
  <2>1. TypeOK'
        BY TypeStep
  <2>2. log'[m] \in Seq(Events) /\ Len(log'[m]) <= MaxEvents
        BY <2>1 DEF TypeOK
  <2> QED BY <2>2, ReplayAssumption DEF Seqs
<1>1. ASSUME NEW n \in Nodes, NEW e \in Events, Happen(n, e) PROVE assigned'[u] = m
  <2>1. i \in DOMAIN log[m]
        BY <1>0, <1>1 DEF HeardInv, Happen, history
  <2>2. log'[m][i] = log[m][i]
        BY <1>1, <2>1 DEF TypeOK, Happen
  <2> QED BY <1>1, <2>1, <2>2 DEF OneOwner, Happen, tables, history
<1>2. CASE Arbitrate
  <2> DEFINE n == batch.node  e == log[n][at]
  <2>1. n \in Nodes /\ at \in Seqs /\ e \in Events
        BY <1>2, BatchInHand DEF Arbitrate
  <2>2. log' = log
        BY <1>2 DEF Arbitrate, network
  <2>3. CASE m = n /\ i = at
    <3>1. Judge(n, e) = "accepted"
          BY <1>2, <2>1, <2>3 DEF Arbitrate, TypeOK
    <3>2. e.type \in {"task_assign", "task_complete"} /\ e.id = u
          BY <2>2, <2>3 DEF OfTask
    <3>3. CASE e.type = "task_assign"
          BY <1>2, <2>3, <3>1, <3>2, <3>3 DEF Arbitrate, KeepAssigned, TypeOK
    <3>4. CASE e.type = "task_complete"
          BY <1>2, <2>1, <2>3, <3>1, <3>2, <3>4, Accepted DEF Arbitrate, KeepAssigned
    <3> QED BY <3>2, <3>3, <3>4
  <2>4. CASE ~(m = n /\ i = at)
    <3>1. verdict'[m][i] = verdict[m][i]
          BY <1>2, <2>1, <2>4 DEF Arbitrate, TypeOK
    <3>2. assigned[u] = m
          BY <2>2, <3>1 DEF OneOwner
    <3>3. CASE Judge(n, e) = "accepted" /\ e.type = "task_assign" /\ e.id = u
      <4>1. assigned[u] \in {"none", n}
            BY <2>1, <3>3, Accepted
      <4>2. n = m
            BY <3>2, <4>1, ReplayAssumption
      <4> QED BY <1>2, <3>3, <4>2 DEF Arbitrate, KeepAssigned, TypeOK
    <3>4. CASE ~(Judge(n, e) = "accepted" /\ e.type = "task_assign" /\ e.id = u)
          BY <1>2, <3>2, <3>4 DEF Arbitrate, KeepAssigned, TypeOK, tables
    <3> QED BY <3>3, <3>4
  <2> QED BY <2>3, <2>4
<1>3. CASE Restart
      BY <1>0, <1>3 DEF Restart, Unheard
<1>4. ASSUME NEW t \in Tasks, NEW n \in Nodes, TrackTaskAssignment(t, n)
      PROVE  assigned'[u] = m
  <2>1. log' = log /\ i \in Seqs /\ i <= Len(log[m])
        BY <1>0, <1>4 DEF TrackTaskAssignment, network
  <2>2. verdict'[m][i] = IF OfTask(log[m][i], t) THEN "none" ELSE verdict[m][i]
        BY <1>4, <2>1 DEF TrackTaskAssignment
  <2>3. u # t /\ verdict[m][i] = "accepted"
        BY <2>1, <2>2
  <2> QED BY <1>4, <2>1, <2>3 DEF OneOwner, TrackTaskAssignment, TypeOK
<1>5. CASE UNCHANGED <<log, verdict, assigned>>
      BY <1>5 DEF OneOwner
<1> QED BY <1>1, <1>2, <1>3, <1>4, <1>5
        DEF Next, vars, network, tables, history, Send, Receive, Deliver, Lose, Reply,
            TrackToolExecution

LEMMA JudgedStep == TypeOK /\ JudgedInv /\ [Next]_vars => JudgedInv'
<1> SUFFICES ASSUME TypeOK, JudgedInv, [Next]_vars PROVE JudgedInv'
    OBVIOUS
<1>1. ASSUME NEW n \in Nodes, Send(n) PROVE JudgedInv'
  <2>1. acked[n] \in Nat /\ (acked[n] + 1) - 1 = acked[n]
        BY <1>1, ReplayAssumption DEF TypeOK
  <2>2. \A m \in requests' : 1..(m.first - 1) \subseteq judged[m.node]
        BY <1>1, <2>1 DEF JudgedInv, Send
  <2> QED BY <1>1, <2>2 DEF JudgedInv, Send, turn, history
<1>2. ASSUME NEW n \in Nodes, Receive(n) PROVE JudgedInv'
      BY <1>2 DEF TypeOK, JudgedInv, Receive, turn, history
<1>3. ASSUME NEW n \in Nodes, Deliver(n) PROVE JudgedInv'
      BY <1>3 DEF JudgedInv, Deliver, history
<1>4. CASE Lose
      BY <1>4 DEF JudgedInv, Lose, turn, history
<1>5. CASE Arbitrate
  <2>1. batch.node \in Nodes /\ at \in Seqs
        BY <1>5, BatchInHand DEF Arbitrate
  <2>2. judged' = [judged EXCEPT ![batch.node] = @ \cup {at}] /\ at' = at + 1
        BY <1>5 DEF Arbitrate
  <2>3. \A m \in Nodes : judged[m] \subseteq judged'[m]
        BY <2>1, <2>2 DEF TypeOK
  <2>4. 1..(at' - 1) \subseteq judged'[batch.node]
    <3>1. 1..(at - 1) \subseteq judged[batch.node]
          BY <1>5 DEF Arbitrate, JudgedInv
    <3>2. 1..(at' - 1) \subseteq 1..(at - 1) \cup {at}
          BY <2>1, <2>2, ReplayAssumption DEF Seqs
    <3>3. judged'[batch.node] = judged[batch.node] \cup {at}
          BY <2>1, <2>2 DEF TypeOK
    <3> QED BY <3>1, <3>2, <3>3
  <2>5. /\ \A m \in requests : m.node \in Nodes
        /\ \A a \in answers : a.node \in Nodes
        BY DEF TypeOK, Batches, Answers
  <2>6. UNCHANGED <<requests, answers, acked, batch>>
        BY <1>5 DEF Arbitrate, network
  <2>7. \A m \in requests' : 1..(m.first - 1) \subseteq judged'[m.node]
        BY <2>3, <2>5, <2>6 DEF JudgedInv
  <2>8. \A a \in answers' : 1..a.last \subseteq judged'[a.node]
        BY <2>3, <2>5, <2>6 DEF JudgedInv
  <2>9. \A m \in Nodes : 1..acked'[m] \subseteq judged'[m]
        BY <2>3, <2>6 DEF JudgedInv
  <2> QED BY <2>4, <2>6, <2>7, <2>8, <2>9 DEF JudgedInv
<1>6. CASE Reply
  <2>1. batch \in Batches /\ batch.last \in Seqs /\ at \in Nat
        BY <1>6, ReplayAssumption DEF Reply, TypeOK, Batches
  <2>2. 1..batch.last \subseteq 1..(at - 1)
        BY <1>6, <2>1 DEF Reply, Seqs
  <2>3. 1..batch.last \subseteq judged[batch.node]
        BY <1>6, <2>2 DEF Reply, JudgedInv
  <2>4. \A a \in answers' : 1..a.last \subseteq judged[a.node]
        BY <1>6, <2>3 DEF Reply, JudgedInv
  <2> QED BY <1>6, <2>4 DEF Reply, JudgedInv, history
<1>7. CASE UNCHANGED <<requests, answers, acked, judged>> /\ (batch' = NoBatch \/ UNCHANGED turn)
      BY <1>7 DEF JudgedInv, turn
<1> QED BY <1>1, <1>2, <1>3, <1>4, <1>5, <1>6, <1>7
        DEF Next, vars, network, turn, history, Happen, Restart, TrackTaskAssignment,
            TrackToolExecution

LEMMA InvStep == IInv /\ [Next]_vars => IInv'
BY TypeStep, HeardStep, ToolStep, OwnerStep, JudgedStep DEF IInv

LEMMA Invariance == Spec => []IInv
BY InitInv, InvStep, PTL DEF Spec

-----------------------------------------------------------------------------
\* One process accepts a tool call at most once (executedToolCalls).
THEOREM ToolCallsOnce == Spec => []ToolOnce
<1>1. IInv => ToolOnce
      BY DEF IInv, ToolInv, ToolOnce
<1> QED BY <1>1, Invariance, PTL

\* What one process accepted of a task came from its owner (taskAssignments).
THEOREM OneOwnerEach == Spec => []OneOwner
<1>1. IInv => OneOwner
      BY DEF IInv
<1> QED BY <1>1, Invariance, PTL

\* No event a node drops was passed over (lastSeqNo).
THEOREM NoneSkipped == Spec => []NothingSkipped
<1>1. IInv => NothingSkipped
      BY DEF IInv, JudgedInv, NothingSkipped
<1> QED BY <1>1, Invariance, PTL

\* A batch sent again is told the same of its tasks (detectConflict).
THEOREM ResendsAgree == Spec => ResendAgrees
<1>1. ASSUME IInv, [Next]_vars PROVE SameVerdict
  <2> DEFINE n == batch.node  e == log[n][at]
  <2> SUFFICES ASSUME Arbitrate, verdict[n][at] = "accepted", e.type # "tool_call"
               PROVE  verdict'[n][at] = "accepted"
      BY DEF SameVerdict
  <2>1. n \in Nodes /\ at \in Seqs /\ at \in DOMAIN log[n] /\ e \in Events
        BY <1>1, BatchInHand DEF Arbitrate, IInv
  <2>2. verdict'[n][at] = Judge(n, e)
        BY <1>1, <2>1 DEF Arbitrate, IInv, TypeOK
  <2>3. CASE e.type \in {"task_assign", "task_complete"}
    <3>1. e.id \in Tasks
          BY <2>1, <2>3, EventKinds
    <3>2. assigned[e.id] = n
          BY <1>1, <2>1, <2>3, <3>1 DEF IInv, OneOwner, OfTask
    <3> QED BY <1>1, <2>1, <2>2, <2>3, <3>2, OwnersAgain DEF IInv
  <2>4. CASE e.type = "other"
        BY <2>2, <2>4 DEF Judge
  <2> QED BY <2>1, <2>3, <2>4, EventKinds
<1>2. IInv /\ [Next]_vars => [SameVerdict]_vars
      BY <1>1
<1> QED BY <1>2, Invariance, PTL DEF Spec, ResendAgrees
=============================================================================
