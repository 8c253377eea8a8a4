---------------------------- MODULE EventReplay -----------------------------
(***************************************************************************)
(* The replay of offline events in TriMC: POST /internal/v1/events/replay  *)
(* in src/server/app.ts and the arbitration of src/comm/arbitration.ts.    *)
(*                                                                         *)
(* A TriLC node that was offline has a log of numbered events and sends    *)
(* what was not answered yet as one batch.  A batch or its answer may be   *)
(* lost or late, and is then sent again, so that the server meets an event *)
(* more than once, and the events of several nodes in any order.  What the *)
(* server knows is in memory.                                              *)
(*                                                                         *)
(* arbitrate() is one turn of the event loop: from Deliver to Reply the    *)
(* server does nothing but its rounds, unless the process ends.            *)
(***************************************************************************)
EXTENDS Naturals, Sequences, FiniteSets

CONSTANTS
  Nodes,        \* TriLC nodes
  Tasks,        \* task ids
  Keys,         \* idempotency keys of tool calls
  Histories,    \* bound: the logs a node may have
  MaxEvents,    \* bound: their length
  MaxFlight,    \* bound: batches and answers of one node under way together
  MaxRestarts   \* bound: restarts of the server

ASSUME ReplayAssumption ==
  /\ MaxEvents \in Nat /\ MaxFlight \in Nat /\ MaxRestarts \in Nat
  /\ "none" \notin Nodes \cup Tasks \cup Keys

VARIABLES
  log,       \* the events of each node, in the order of their seqNo
  acked,     \* environment: the last seqNo a node has an answer for
  requests,  \* batches under way to the server
  answers,   \* answers under way to the nodes
  assigned,  \* taskAssignments
  executed,  \* executedToolCalls
  batch,     \* the batch being arbitrated, or NoBatch
  at,        \* the seqNo arbitrated next
  verdict,   \* history: what this process last said of an event
  ran,       \* history: how often this process accepted a tool call, up to twice
  judged,    \* history: seqNos of each node that some process judged
  restarts   \* number of restarts

network == <<log, acked, requests, answers>>
tables  == <<assigned, executed>>
turn    == <<batch, at>>
history == <<verdict, ran, judged>>
vars    == <<network, tables, turn, history, restarts>>

Seqs    == 1..MaxEvents
Batches == [node : Nodes, first : Seqs, last : Seqs]
NoBatch == [node |-> "none", first |-> 1, last |-> 0]
Answers == [node : Nodes, last : 0..MaxEvents]

\* "other": agent_run, a type unknown to the server, or a payload without its id.
Events ==
  [type : {"task_assign", "task_complete"}, id : Tasks]
    \cup [type : {"tool_call"}, id : Keys]
    \cup [type : {"other"}, id : {"none"}]
OfTask(e, t) == e.type \in {"task_assign", "task_complete"} /\ e.id = t

\* "merged", which the code's type allows too, is said of no event.
Verdicts == {"none", "accepted", "rejected_duplicate", "rejected_version_behind", "already_executed"}
Unheard  == [n \in Nodes |-> [i \in Seqs |-> "none"]]

Init ==
  /\ log = [n \in Nodes |-> <<>>]
  /\ acked = [n \in Nodes |-> 0]
  /\ requests = {} /\ answers = {}
  /\ assigned = [t \in Tasks |-> "none"]
  /\ executed = {}
  /\ batch = NoBatch /\ at = 1
  /\ verdict = Unheard
  /\ ran = [k \in Keys |-> 0]
  /\ judged = [n \in Nodes |-> {}]
  /\ restarts = 0

---------------------------------------------------------------------------
\* The nodes and the network.
Happen(n, e) ==
  /\ Len(log[n]) < MaxEvents /\ Append(log[n], e) \in Histories
  /\ log' = [log EXCEPT ![n] = Append(@, e)]
  /\ UNCHANGED <<acked, requests, answers, tables, turn, history, restarts>>

InFlight(n) ==
  Cardinality({m \in requests : m.node = n}) + Cardinality({a \in answers : a.node = n})
    + (IF batch.node = n THEN 1 ELSE 0)

Send(n) ==
  /\ acked[n] < Len(log[n])
  /\ InFlight(n) < MaxFlight
  /\ requests' = requests \cup {[node |-> n, first |-> acked[n] + 1, last |-> Len(log[n])]}
  /\ UNCHANGED <<log, acked, answers, tables, turn, history, restarts>>

Lose ==
  /\ \/ \E m \in requests : requests' = requests \ {m} /\ UNCHANGED answers
     \/ \E a \in answers : answers' = answers \ {a} /\ UNCHANGED requests
  /\ UNCHANGED <<log, acked, tables, turn, history, restarts>>

Receive(n) ==
  /\ \E a \in answers :
       /\ a.node = n
       /\ answers' = answers \ {a}
       /\ acked' = [acked EXCEPT ![n] = IF a.last > @ THEN a.last ELSE @]
  /\ UNCHANGED <<log, requests, tables, turn, history, restarts>>

---------------------------------------------------------------------------
\* The route reads a batch, and arbitrate() begins.
Deliver(n) ==
  /\ batch = NoBatch
  /\ \E m \in requests :
       /\ m.node = n
       /\ requests' = requests \ {m}
       /\ batch' = m
       /\ at' = m.first
  /\ UNCHANGED <<log, acked, answers, tables, history, restarts>>

\* detectConflict: what becomes of an event of node n.
JudgeAssignLast(n, t) == "accepted"  \* mutant: the node that comes last takes the task
JudgeAssign(n, t) == IF assigned[t] \in {"none", n} THEN "accepted" ELSE "rejected_duplicate"

JudgeCompleteAny(n, t) ==  \* mutant: a completion is not compared with the owner
  IF assigned[t] = "none" THEN "rejected_version_behind" ELSE "accepted"
JudgeComplete(n, t) ==
  CASE assigned[t] = "none" -> "rejected_version_behind"
    [] assigned[t] = n      -> "accepted"
    [] OTHER                -> "rejected_duplicate"

Judge(n, e) ==
  CASE e.type = "task_assign"   -> JudgeAssign(n, e.id)
    [] e.type = "task_complete" -> JudgeComplete(n, e.id)
    [] e.type = "tool_call"     -> IF e.id \in executed THEN "already_executed" ELSE "accepted"
    [] OTHER                    -> "accepted"

\* What an accepted event leaves in the tables.
KeepAssigned(n, e) ==
  assigned' = IF e.type = "task_assign" THEN [assigned EXCEPT ![e.id] = n] ELSE assigned
KeepExecutedAtEnd(e) ==  \* mutant: only the last event of a batch is kept
  executed' = IF e.type = "tool_call" /\ at = batch.last THEN executed \cup {e.id} ELSE executed
KeepExecuted(e) ==
  executed' = IF e.type = "tool_call" THEN executed \cup {e.id} ELSE executed

\* One round of the loop over the events.
Arbitrate ==
  /\ batch # NoBatch /\ at <= batch.last
  /\ LET n == batch.node
         e == log[n][at]
         said == Judge(n, e)
     IN  /\ IF said = "accepted" THEN KeepAssigned(n, e) /\ KeepExecuted(e)
                                 ELSE UNCHANGED tables
         /\ verdict' = [verdict EXCEPT ![n][at] = said]
         /\ judged' = [judged EXCEPT ![n] = @ \cup {at}]
         /\ ran' = IF said = "accepted" /\ e.type = "tool_call"
                     THEN [ran EXCEPT ![e.id] = IF @ < 2 THEN @ + 1 ELSE @] ELSE ran
  /\ at' = at + 1
  /\ UNCHANGED <<network, batch, restarts>>

\* The answer: its lastSeqNo is that of the last event, accepted or not.
Reply ==
  /\ batch # NoBatch /\ at > batch.last
  /\ answers' = answers \cup {[node |-> batch.node, last |-> batch.last]}
  /\ batch' = NoBatch /\ at' = 1
  /\ UNCHANGED <<log, acked, requests, tables, history, restarts>>

---------------------------------------------------------------------------
\* trackTaskAssignment and trackToolExecution: the server assigns a task, or executes
\* a tool, itself.  What was said of a task's events no longer binds it.
TrackTaskAssignment(t, n) ==
  /\ batch = NoBatch
  /\ assigned' = [assigned EXCEPT ![t] = n]
  /\ verdict' = [m \in Nodes |-> [i \in Seqs |->
                   IF i <= Len(log[m]) /\ OfTask(log[m][i], t) THEN "none" ELSE verdict[m][i]]]
  /\ UNCHANGED <<network, executed, turn, ran, judged, restarts>>

TrackToolExecution(k) ==
  /\ batch = NoBatch
  /\ executed' = executed \cup {k}
  /\ UNCHANGED <<network, assigned, turn, history, restarts>>

\* The process restarts, perhaps within a batch: nothing is persisted.
Restart ==
  /\ restarts < MaxRestarts
  /\ restarts' = restarts + 1
  /\ assigned' = [t \in Tasks |-> "none"]
  /\ executed' = {}
  /\ batch' = NoBatch /\ at' = 1
  /\ verdict' = Unheard
  /\ ran' = [k \in Keys |-> 0]
  /\ UNCHANGED <<network, judged>>

Next ==
  \/ \E n \in Nodes, e \in Events : Happen(n, e)
  \/ \E n \in Nodes : Send(n) \/ Receive(n) \/ Deliver(n)
  \/ Lose \/ Arbitrate \/ Reply \/ Restart
  \/ \E t \in Tasks, n \in Nodes : TrackTaskAssignment(t, n)
  \/ \E k \in Keys : TrackToolExecution(k)

Spec == Init /\ [][Next]_vars

---------------------------------------------------------------------------
\* Every variable keeps its type, and a batch is a stretch of its node's log.
TypeOK ==
  /\ log \in [Nodes -> Seq(Events)] /\ \A n \in Nodes : Len(log[n]) <= MaxEvents
  /\ acked \in [Nodes -> 0..MaxEvents]
  /\ requests \subseteq Batches /\ answers \subseteq Answers
  /\ \A m \in requests \cup ({batch} \ {NoBatch}) : m.last <= Len(log[m.node])
  /\ assigned \in [Tasks -> Nodes \cup {"none"}]
  /\ executed \subseteq Keys
  /\ batch \in Batches \cup {NoBatch}
  /\ at \in 1..(MaxEvents + 1)
  /\ verdict \in [Nodes -> [Seqs -> Verdicts]]
  /\ ran \in [Keys -> 0..2]
  /\ judged \in [Nodes -> SUBSET Seqs]
  /\ restarts \in 0..MaxRestarts

\* A tool call is accepted at most once by one process, however many nodes or
\* batches bring it, and twice in one batch too (arbitrate: the idempotency key).
ToolOnce == \A k \in Keys : ran[k] <= 1

\* Whatever this process accepted about a task since the server last assigned it
\* itself came from the task's present owner: no two nodes are both told that they have it.
OneOwner ==
  \A n \in Nodes : \A i \in DOMAIN log[n] : \A t \in Tasks :
    (OfTask(log[n][i], t) /\ verdict[n][i] = "accepted") => assigned[t] = n

\* A batch that is sent again is told the same of its tasks: what was accepted once is
\* accepted again, whoever replayed in between.
SameVerdict ==
  (/\ Arbitrate
   /\ verdict[batch.node][at] = "accepted"
   /\ log[batch.node][at].type # "tool_call")
     => verdict'[batch.node][at] = "accepted"
ResendAgrees == [][SameVerdict]_vars

\* A node drops an event from its queue only if some process of the server judged it: a
\* conflict, a lost answer or a restart within the batch does not skip what comes after.
NothingSkipped == \A n \in Nodes : \A i \in 1..acked[n] : i \in judged[n]
=============================================================================
