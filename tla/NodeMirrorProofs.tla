-------------------------- MODULE NodeMirrorProofs --------------------------
(***************************************************************************)
(* The safety properties of NodeMirror, proved for every set of nodes and  *)
(* tasks, all thresholds and every bound.  One inductive invariant, IInv,  *)
(* carries them: the properties say nothing of a scan under way, and IInv  *)
(* adds what must hold between its steps.                                  *)
(***************************************************************************)
EXTENDS NodeMirror, TLAPS

\* The loops of a turn: what is left of a push, and of a scan.
TurnInv ==
  /\ turn = "push" => batch # <<>>
  /\ turn # "scan" => stale = {} /\ toMark = {}
  /\ \A k \in toMark : Open(k)
  /\ \A k \in Keys : (k[1] \in stale /\ Live(k)) => k \in toMark

\* The count of an unknown node started again when it was marked.
CountInv ==
  \A n \in Nodes : node[n].mark = "unknown" =>
 node[n].hbs = node[n].beats /\ node[n].hbs <= 1

IInv == TypeOK /\ TurnInv /\ CountInv /\ VersionsUnique /\ NoOutdatedLiveTask

-----------------------------------------------------------------------------
(* What the operators return.                                              *)

\* Least is the smaller of two numbers.
LEMMA LeastBound ==
  ASSUME NEW a \in Nat, NEW b \in Nat
  PROVE  Least(a, b) \in Nat /\ Least(a, b) <= a /\ Least(a, b) <= b
                             /\ Least(a, b) \in {a, b}
  BY DEF Least

\* Saturation stays above both thresholds.
LEMMA LongestIsNat == Longest \in Nat
  BY MirrorAssumption DEF Longest

\* A push is a non-empty sequence of items.
LEMMA PushesAreItems ==
  ASSUME NEW n \in Nodes, NEW items \in Pushes(n)
  PROVE  items \in Seq(Items) /\ items # <<>>
<1>1. PICK k \in 1..MaxBatch : items \in [1..k -> {i \in Items : i.key[1] = n}]
  BY DEF Pushes
<1>2. k \in Nat /\ k >= 1
  BY MirrorAssumption
<1>3. items \in Seq(Items)
  BY <1>1, <1>2
<1>4. items # <<>>
  BY <1>1, <1>2
<1>5. QED
  BY <1>3, <1>4

\* The values the handlers write into an entry are of the entry's types.
LEMMA FieldValues ==
  /\ \A m \in {"absent", "known", "unknown"} : m \in Marks
  /\ "connected" \in States
  /\ 0 \in Silences /\ 0 \in Counts /\ 1 \in Counts /\ 0 \in Beats
  /\ \A c \in Counts : Counted(c) \in Counts
  /\ \A b \in Beats : Least(b + 1, 2) \in Beats
  /\ \A t \in Silences : Least(t + 1, Longest + 1) \in Silences
<1>1. ASSUME NEW c \in Counts PROVE Counted(c) \in Counts
  BY LeastBound, MirrorAssumption DEF Counts, Counted
<1>2. ASSUME NEW b \in Beats PROVE Least(b + 1, 2) \in Beats
  BY DEF Beats, Least
<1>3. ASSUME NEW t \in Silences PROVE Least(t + 1, Longest + 1) \in Silences
  BY LeastBound, LongestIsNat DEF Silences
<1>4. QED
  BY <1>1, <1>2, <1>3, LongestIsNat, MirrorAssumption
  DEF Marks, States, Silences, Counts, Beats

\* The records of the model are records of its types.
LEMMA Absent == NoNode \in Heartbeats /\ NoTask \in Records
<1>1. NoNode \in Heartbeats
  BY FieldValues DEF NoNode, Heartbeats
<1>2. NoTask \in Records
  BY DEF NoTask, Records, Status
<1>3. QED
  BY <1>1, <1>2

\* A first or a later heartbeat leaves a well-formed entry.
LEMMA TypeStep == TypeOK /\ TurnInv /\ [Next]_vars => TypeOK'
<1> SUFFICES ASSUME TypeOK, TurnInv, [Next]_vars PROVE TypeOK'
  OBVIOUS
<1> USE DEF TypeOK, turnVars, taskVars
<1>1. ASSUME NEW n \in Nodes, NEW s \in States, FirstHeartbeat(n, s)
      PROVE  TypeOK'
  <2>1. [NoNode EXCEPT !.mark = "known", !.state = s, !.hbs = 1] \in Heartbeats
    BY FieldValues, Absent DEF Heartbeats
  <2>2. QED
    BY <1>1, <2>1 DEF FirstHeartbeat
<1>2. ASSUME NEW n \in Nodes, NEW s \in States, Heartbeat(n, s)
      PROVE  TypeOK'
  <2> DEFINE r == node[n]
             back == Recovers(r, Counted(r.hbs))
             new == [r EXCEPT !.silent = 0, !.state = s,
                              !.hbs = IF back THEN 0 ELSE Counted(r.hbs),
                              !.mark = IF back THEN "known" ELSE @,
                              !.beats = Least(r.beats + 1, 2)]
  <2>1. r \in Heartbeats
    OBVIOUS
  <2>2. r.hbs \in Counts /\ r.beats \in Beats /\ r.mark \in Marks
    BY <2>1 DEF Heartbeats
  <2>3. /\ Counted(r.hbs) \in Counts
        /\ Least(r.beats + 1, 2) \in Beats
    BY <2>2, FieldValues
  <2>4. /\ (IF back THEN 0 ELSE Counted(r.hbs)) \in Counts
        /\ (IF back THEN "known" ELSE r.mark) \in Marks
    BY <2>2, <2>3, FieldValues
  <2>5. new \in Heartbeats
    BY <2>1, <2>3, <2>4, FieldValues DEF Heartbeats
  <2>6. node' = [node EXCEPT ![n] = new]
    BY <1>2 DEF Heartbeat
  <2>7. QED
    BY <1>2, <2>5, <2>6 DEF Heartbeat
<1>3. ASSUME NEW n \in Nodes, NEW items \in Pushes(n), Push(n, items)
      PROVE  TypeOK'
  BY <1>3, PushesAreItems DEF Push
<1>4. CASE PushItem
  <2>1. batch # <<>> /\ batch \in Seq(Items)
    BY <1>4 DEF PushItem, TurnInv
  <2>2. Head(batch) \in Items /\ Tail(batch) \in Seq(Items)
    BY <2>1
  <2>3. Record(Head(batch)) \in Records
    BY <2>2, MirrorAssumption DEF Record, Records, Items, Status
  <2>4. Head(batch).key \in Keys
    BY <2>2 DEF Items
  <2>5. QED
    BY <1>4, <2>2, <2>3, <2>4 DEF PushItem
<1>5. CASE Scan
  BY <1>5 DEF Scan, StaleNodes, OpenTasksOf
<1>6. ASSUME NEW k \in Keys, MarkTask(k) PROVE TypeOK'
  <2>1. "unknown" \in Status
    BY DEF Status
  <2>2. [task[k] EXCEPT !.status = "unknown", !.version = versions + 1] \in Records
    <3>1. task[k] \in Records /\ versions + 1 \in Nat
      OBVIOUS
    <3>2. QED
      BY <2>1, <3>1 DEF Records
  <2>3. QED
    BY <1>6, <2>2 DEF MarkTask, Mark
<1>7. CASE ScanDone
  <2>1. \A n \in Nodes :
          [node[n] EXCEPT !.mark = "unknown", !.hbs = 0, !.beats = 0] \in Heartbeats
    BY FieldValues DEF Heartbeats
  <2>2. QED
    BY <1>7, <2>1 DEF ScanDone
<1>8. ASSUME NEW K \in SUBSET Keys, Cleanup(K) PROVE TypeOK'
  BY <1>8, Absent DEF Cleanup
<1>9. CASE Tick
  <2>1. ASSUME NEW n \in Nodes
        PROVE  [node[n] EXCEPT !.silent = Least(@ + 1, Longest + 1)] \in Heartbeats
    <3>1. node[n] \in Heartbeats
      OBVIOUS
    <3>2. node[n].silent \in Silences
      BY <3>1 DEF Heartbeats
    <3>3. Least(node[n].silent + 1, Longest + 1) \in Silences
      BY <3>2, FieldValues
    <3>4. QED
      BY <3>1, <3>3 DEF Heartbeats
  <2>2. QED
    BY <1>9, <2>1 DEF Tick
<1>10. ASSUME NEW n \in Nodes, Die(n) PROVE TypeOK'
  BY <1>10 DEF Die
<1>11. CASE Restart
  BY <1>11, Absent DEF Restart
<1>12. CASE UNCHANGED vars
  BY <1>12 DEF vars
<1>13. QED
  BY <1>1, <1>2, <1>3, <1>4, <1>5, <1>6, <1>7, <1>8, <1>9, <1>10, <1>11, <1>12
  DEF Next

-----------------------------------------------------------------------------
(* The turn.                                                               *)

\* What one record of the task map becomes under each action that writes it.
LEMMA PushedRecord ==
  ASSUME TypeOK, TurnInv, PushItem
  PROVE  LET item == Head(batch) IN
           /\ item \in Items /\ item.key \in Keys
           /\ \A k \in Keys \ {item.key} : task'[k] = task[k]
           /\ \/ task' = task /\ versions' = versions
              \/ /\ task'[item.key] = Record(item)
                 /\ versions' = versions + 1
<1>1. batch # <<>> /\ batch \in Seq(Items)
  BY DEF PushItem, TurnInv, TypeOK
<1>2. Head(batch) \in Items
  BY <1>1
<1>3. Head(batch).key \in Keys
  BY <1>2 DEF Items
<1>4. QED
  BY <1>2, <1>3 DEF PushItem, TypeOK

LEMMA MarkedRecord ==
  ASSUME TypeOK, NEW k \in Keys, MarkTask(k)
  PROVE  /\ task'[k].status = "unknown"
         /\ task'[k].content = task[k].content
         /\ task'[k].version = versions + 1
         /\ versions' = versions + 1
         /\ \A j \in Keys \ {k} : task'[j] = task[j]
<1>1. task[k] \in Records
  BY DEF TypeOK
<1>2. task'[k] = [task[k] EXCEPT !.status = "unknown", !.version = versions + 1]
  BY DEF MarkTask, Mark, TypeOK
<1>3. QED
  BY <1>1, <1>2 DEF Records, MarkTask, Mark, TypeOK

LEMMA TurnStep == TypeOK /\ TurnInv /\ [Next]_vars => TurnInv'
<1> SUFFICES ASSUME TypeOK, TurnInv, [Next]_vars PROVE TurnInv'
  OBVIOUS
<1> USE DEF TurnInv, turnVars, taskVars
<1>1. ASSUME NEW n \in Nodes, NEW s \in States, FirstHeartbeat(n, s)
      PROVE  TurnInv'
  BY <1>1 DEF FirstHeartbeat, Open, Held, Live
<1>2. ASSUME NEW n \in Nodes, NEW s \in States, Heartbeat(n, s)
      PROVE  TurnInv'
  BY <1>2 DEF Heartbeat, Open, Held, Live
<1>3. ASSUME NEW n \in Nodes, NEW items \in Pushes(n), Push(n, items)
      PROVE  TurnInv'
  BY <1>3, PushesAreItems DEF Push, Open, Held, Live
<1>4. CASE PushItem
  BY <1>4 DEF PushItem
<1>5. CASE Scan
  BY <1>5 DEF Scan, OpenTasksOf, Open, Held, Live, Terminal
<1>6. ASSUME NEW k \in Keys, MarkTask(k) PROVE TurnInv'
  <2>1. turn' = "scan" /\ stale' = stale /\ toMark' = toMark \ {k}
    BY <1>6 DEF MarkTask
  <2>2. \A j \in toMark' : Open(j)'
    BY <1>6, <2>1, MarkedRecord DEF Open, Held, TypeOK
  <2>3. ASSUME NEW j \in Keys, j[1] \in stale', Live(j)'
        PROVE  j \in toMark'
    BY <1>6, <2>1, <2>3, MarkedRecord DEF Live
  <2>4. QED
    BY <2>1, <2>2, <2>3
<1>7. CASE ScanDone
  BY <1>7 DEF ScanDone
<1>8. ASSUME NEW K \in SUBSET Keys, Cleanup(K) PROVE TurnInv'
  BY <1>8 DEF Cleanup
<1>9. CASE Tick
  BY <1>9 DEF Tick, Open, Held, Live
<1>10. ASSUME NEW n \in Nodes, Die(n) PROVE TurnInv'
  BY <1>10 DEF Die, Open, Held, Live
<1>11. CASE Restart
  BY <1>11 DEF Restart
<1>12. CASE UNCHANGED vars
  BY <1>12 DEF vars, Open, Held, Live
<1>13. QED
  BY <1>1, <1>2, <1>3, <1>4, <1>5, <1>6, <1>7, <1>8, <1>9, <1>10, <1>11, <1>12
  DEF Next

-----------------------------------------------------------------------------
(* Counting heartbeats.                                                    *)

\* A heartbeat of an unknown node advances both counts by one, and brings the
\* node back exactly when they reach two.
LEMMA HeartbeatCounts ==
  ASSUME TypeOK, CountInv, NEW n \in Nodes, NEW s \in States, Heartbeat(n, s),
         node[n].mark = "unknown"
  PROVE  /\ node'[n].beats = node[n].beats + 1
         /\ node'[n].mark \in {"known", "unknown"}
         /\ node'[n].mark = "known" <=> node[n].hbs + 1 >= 2
         /\ node'[n].mark = "unknown" => node'[n].hbs = node[n].hbs + 1
<1> DEFINE r == node[n]
           back == Recovers(r, Counted(r.hbs))
<1>1. r \in Heartbeats /\ r.hbs \in Counts /\ r.beats \in Beats
  BY DEF TypeOK, Heartbeats
<1>2. r.hbs = r.beats /\ r.hbs <= 1 /\ r.hbs \in Nat
  BY <1>1, MirrorAssumption DEF CountInv, Counts
<1>3. Counted(r.hbs) = r.hbs + 1 /\ Least(r.beats + 1, 2) = r.beats + 1
  BY <1>2, MirrorAssumption DEF Counted, Least
<1>4. back <=> r.hbs + 1 >= 2
  BY <1>3 DEF Recovers
<1>5. node'[n] = [r EXCEPT !.silent = 0, !.state = s,
                           !.hbs = IF back THEN 0 ELSE Counted(r.hbs),
                           !.mark = IF back THEN "known" ELSE @,
                           !.beats = Least(r.beats + 1, 2)]
  BY DEF Heartbeat, TypeOK
<1>6. /\ node'[n].mark = IF back THEN "known" ELSE "unknown"
      /\ node'[n].hbs = IF back THEN 0 ELSE Counted(r.hbs)
      /\ node'[n].beats = Least(r.beats + 1, 2)
  BY <1>1, <1>5 DEF Heartbeats
<1>7. QED
  BY <1>2, <1>3, <1>4, <1>6

LEMMA CountStep == TypeOK /\ CountInv /\ [Next]_vars => CountInv'
<1> SUFFICES ASSUME TypeOK, CountInv, [Next]_vars,
                    NEW m \in Nodes, node'[m].mark = "unknown"
             PROVE  node'[m].hbs = node'[m].beats /\ node'[m].hbs <= 1
  BY DEF CountInv
<1> USE DEF turnVars, taskVars
<1>0. node[m] \in Heartbeats
  BY DEF TypeOK
<1>1. ASSUME NEW n \in Nodes, NEW s \in States, FirstHeartbeat(n, s)
      PROVE  node'[m].hbs = node'[m].beats /\ node'[m].hbs <= 1
  <2>1. CASE m = n
    BY <1>1, <2>1 DEF FirstHeartbeat, NoNode, TypeOK
  <2>2. CASE m # n
    BY <1>1, <2>2 DEF FirstHeartbeat, TypeOK, CountInv
  <2>3. QED
    BY <2>1, <2>2
<1>2. ASSUME NEW n \in Nodes, NEW s \in States, Heartbeat(n, s)
      PROVE  node'[m].hbs = node'[m].beats /\ node'[m].hbs <= 1
  <2>1. CASE m # n
    BY <1>2, <2>1 DEF Heartbeat, TypeOK, CountInv
  <2>2. CASE m = n /\ node[m].mark = "unknown"
    <3>1. node[m].hbs \in Counts /\ node[m].hbs = node[m].beats
      BY <1>0, <2>2 DEF Heartbeats, CountInv
    <3>2. node[m].hbs \in Nat
      BY <3>1, MirrorAssumption DEF Counts
    <3>3. QED
      BY <1>2, <2>2, <3>1, <3>2, HeartbeatCounts
  <2>3. CASE m = n /\ node[m].mark # "unknown"
    <3>1. node'[m].mark \in {"known", node[m].mark}
      BY <1>0, <1>2, <2>3 DEF Heartbeat, TypeOK, Heartbeats
    <3>2. QED
      BY <2>3, <3>1
  <2>4. QED
    BY <2>1, <2>2, <2>3
<1>3. CASE ScanDone
  <2>1. CASE m \in stale
    <3>1. node'[m].hbs = 0 /\ node'[m].beats = 0
      BY <1>0, <1>3, <2>1 DEF ScanDone, Heartbeats
    <3>2. QED
      BY <3>1
  <2>2. CASE m \notin stale
    BY <1>3, <2>2 DEF ScanDone, CountInv
  <2>3. QED
    BY <2>1, <2>2
<1>4. CASE Tick
  <2>1. /\ node'[m].mark = node[m].mark /\ node'[m].hbs = node[m].hbs
        /\ node'[m].beats = node[m].beats
    BY <1>0, <1>4 DEF Tick, Heartbeats
  <2>2. QED
    BY <2>1 DEF CountInv
<1>5. CASE Restart
  BY <1>5 DEF Restart, NoNode
<1>6. CASE UNCHANGED node
  BY <1>6 DEF CountInv
<1>7. QED
  BY <1>1, <1>2, <1>3, <1>4, <1>5, <1>6
  DEF Next, vars, Push, PushItem, Scan, MarkTask, Cleanup, Die

-----------------------------------------------------------------------------
(* Versions.                                                               *)

LEMMA VersionStep == TypeOK /\ TurnInv /\ VersionsUnique /\ [Next]_vars => VersionsUnique'
<1> SUFFICES ASSUME TypeOK, TurnInv, VersionsUnique, [Next]_vars
             PROVE  VersionsUnique'
  OBVIOUS
<1> USE DEF turnVars, taskVars
<1>0. versions \in Nat
  BY DEF TypeOK
<1>1. CASE PushItem
  <2> DEFINE item == Head(batch)
  <2>1. CASE task' = task /\ versions' = versions
    BY <2>1 DEF VersionsUnique, Held
  <2>2. CASE task'[item.key] = Record(item) /\ versions' = versions + 1
    <3>1. task'[item.key].version = versions + 1
      BY <2>2 DEF Record
    <3>2. /\ item.key \in Keys
          /\ \A k \in Keys \ {item.key} : task'[k] = task[k]
      BY <1>1, PushedRecord
    <3>3. QED
      BY <1>0, <2>2, <3>1, <3>2 DEF VersionsUnique, Held
  <2>3. QED
    BY <1>1, <2>1, <2>2, PushedRecord
<1>2. ASSUME NEW k \in Keys, MarkTask(k) PROVE VersionsUnique'
  BY <1>0, <1>2, MarkedRecord DEF VersionsUnique, Held
<1>3. ASSUME NEW K \in SUBSET Keys, Cleanup(K) PROVE VersionsUnique'
  BY <1>3 DEF Cleanup, VersionsUnique, Held, NoTask
<1>4. CASE Restart
  BY <1>4 DEF Restart, VersionsUnique, Held, NoTask
<1>5. CASE UNCHANGED <<task, versions>>
  BY <1>5 DEF VersionsUnique, Held
<1>6. QED
  BY <1>1, <1>2, <1>3, <1>4, <1>5
  DEF Next, vars, FirstHeartbeat, Heartbeat, Push, Scan, ScanDone, Tick, Die

-----------------------------------------------------------------------------
(* Live tasks of unknown nodes.                                            *)

LEMMA FreshStep == TypeOK /\ TurnInv /\ NoOutdatedLiveTask /\ [Next]_vars
                     => NoOutdatedLiveTask'
<1> SUFFICES ASSUME TypeOK, TurnInv, NoOutdatedLiveTask, [Next]_vars,
                    NEW j \in Keys, node'[j[1]].mark = "unknown", Live(j)'
             PROVE  j \in fresh'
  BY DEF NoOutdatedLiveTask
<1> USE DEF turnVars, taskVars
<1>0. j[1] \in Nodes /\ node[j[1]] \in Heartbeats
  BY DEF TypeOK, Keys
<1>1. ASSUME NEW n \in Nodes, NEW s \in States, FirstHeartbeat(n, s)
      PROVE  j \in fresh'
  BY <1>0, <1>1 DEF FirstHeartbeat, NoOutdatedLiveTask, Live, TypeOK, NoNode
<1>2. ASSUME NEW n \in Nodes, NEW s \in States, Heartbeat(n, s)
      PROVE  j \in fresh'
  <2>1. ASSUME j[1] = n
        PROVE  node'[n].mark \in {"known", node[n].mark}
    BY <1>0, <1>2, <2>1 DEF Heartbeat, TypeOK, Heartbeats
  <2>2. j[1] # n => node'[j[1]] = node[j[1]]
    BY <1>0, <1>2 DEF Heartbeat, TypeOK
  <2>3. node[j[1]].mark = "unknown"
    BY <2>1, <2>2
  <2>4. QED
    BY <1>2, <2>3 DEF Heartbeat, NoOutdatedLiveTask, Live
<1>3. CASE PushItem
  <2>1. CASE j = Head(batch).key
    BY <1>3, <2>1 DEF PushItem
  <2>2. CASE j # Head(batch).key
    <3>1. Live(j) /\ node' = node /\ fresh \subseteq fresh'
      BY <1>3, <2>2, PushedRecord DEF Live, PushItem
    <3>2. QED
      BY <3>1 DEF NoOutdatedLiveTask
  <2>3. QED
    BY <2>1, <2>2
<1>4. ASSUME NEW k \in Keys, MarkTask(k) PROVE j \in fresh'
  <2>1. j # k /\ Live(j) /\ node' = node /\ fresh' = fresh
    BY <1>4, MarkedRecord DEF Live, MarkTask
  <2>2. QED
    BY <2>1 DEF NoOutdatedLiveTask
<1>5. CASE ScanDone
  <2>1. Live(j)
    BY <1>5 DEF ScanDone, Live
  <2>2. j[1] \notin stale
    BY <1>5, <2>1 DEF ScanDone, TurnInv
  <2>3. node[j[1]].mark = "unknown"
    BY <1>0, <1>5, <2>2 DEF ScanDone
  <2>4. QED
    BY <1>5, <2>1, <2>2, <2>3 DEF ScanDone, NoOutdatedLiveTask
<1>6. ASSUME NEW K \in SUBSET Keys, Cleanup(K) PROVE j \in fresh'
  <2>1. Live(j) /\ node' = node /\ fresh' = fresh
    BY <1>6 DEF Cleanup, Live, NoTask
  <2>2. QED
    BY <2>1 DEF NoOutdatedLiveTask
<1>7. CASE Tick
  <2>1. node'[j[1]].mark = node[j[1]].mark
    BY <1>0, <1>7 DEF Tick, Heartbeats
  <2>2. QED
    BY <1>7, <2>1 DEF Tick, Live, NoOutdatedLiveTask
<1>8. CASE Restart
  BY <1>0, <1>8 DEF Restart, NoNode
<1>9. CASE UNCHANGED <<node, task, fresh>>
  BY <1>9 DEF NoOutdatedLiveTask, Live
<1>10. QED
  BY <1>1, <1>2, <1>3, <1>4, <1>5, <1>6, <1>7, <1>8, <1>9
  DEF Next, vars, Push, Scan, Die

-----------------------------------------------------------------------------
(* The theorems.                                                           *)

\* The invariant is inductive and starts true.
LEMMA InvInit == Init => IInv
<1> SUFFICES ASSUME Init PROVE IInv
  OBVIOUS
<1> USE DEF Init
<1>1. TypeOK
  BY Absent DEF TypeOK
<1>2. TurnInv /\ CountInv
  BY DEF TurnInv, CountInv, NoNode
<1>3. VersionsUnique /\ NoOutdatedLiveTask
  BY DEF VersionsUnique, NoOutdatedLiveTask, Held, Live, NoTask
<1>4. QED
  BY <1>1, <1>2, <1>3 DEF IInv

LEMMA InvStep == IInv /\ [Next]_vars => IInv'
  BY TypeStep, TurnStep, CountStep, VersionStep, FreshStep DEF IInv

THEOREM Invariance == Spec => []IInv
  BY InvInit, InvStep, PTL DEF Spec

\* Every variable keeps its type, whatever the bounds are.
THEOREM TypeCorrect == Spec => []TypeOK
<1>1. IInv => TypeOK
  BY DEF IInv
<1>2. QED
  BY <1>1, Invariance, PTL

\* Versions identify tasks: no two mirrored tasks share one, none is ahead of
\* the counter (the numbering of mirror() and markNodeUnknown()).
THEOREM VersionsAreUnique == Spec => []VersionsUnique
<1>1. IInv => VersionsUnique
  BY DEF IInv
<1>2. QED
  BY <1>1, Invariance, PTL

\* A live status of an unknown node is newer than the marking.
THEOREM NoLiveTaskIsOutdated == Spec => []NoOutdatedLiveTask
<1>1. IInv => NoOutdatedLiveTask
  BY DEF IInv
<1>2. QED
  BY <1>1, Invariance, PTL

\* Whatever a reader can see change of a task comes with a new highest version.
THEOREM ChangesAreVersioned == Spec => VersionTracksChange
<1> DEFINE A(k) == (/\ task'[k].status # "none"
                    /\ \/ task'[k].status # task[k].status
                       \/ task'[k].content # task[k].content)
                   => task'[k].version > versions
<1>1. ASSUME IInv, [Next]_vars, NEW k \in Keys PROVE A(k)
  <2> USE DEF turnVars, taskVars
  <2>0. versions \in Nat /\ TypeOK /\ TurnInv
    BY <1>1 DEF IInv, TypeOK
  <2>1. CASE PushItem
    <3>1. CASE task' = task
      BY <3>1
    <3>2. CASE task'[Head(batch).key] = Record(Head(batch))
      <4>1. task'[Head(batch).key].version = versions + 1
        BY <3>2 DEF Record
      <4>2. k # Head(batch).key => task'[k] = task[k]
        BY <2>0, <2>1, PushedRecord
      <4>3. QED
        BY <2>0, <4>1, <4>2
    <3>3. QED
      BY <2>0, <2>1, <3>1, <3>2, PushedRecord
  <2>2. ASSUME NEW j \in Keys, MarkTask(j) PROVE A(k)
    BY <2>0, <2>2, MarkedRecord
  <2>3. ASSUME NEW K \in SUBSET Keys, Cleanup(K) PROVE A(k)
    BY <2>3 DEF Cleanup, NoTask
  <2>4. CASE Restart
    BY <2>4 DEF Restart, NoTask
  <2>5. CASE UNCHANGED task
    BY <2>5
  <2>6. QED
    BY <1>1, <2>1, <2>2, <2>3, <2>4, <2>5
    DEF Next, vars, FirstHeartbeat, Heartbeat, Push, Scan, ScanDone, Tick, Die
<1>2. IInv /\ [Next]_vars => [\A k \in Keys : A(k)]_vars
  BY <1>1
<1>3. QED
  BY <1>2, Invariance, PTL DEF Spec, VersionTracksChange

\* An unknown node is known again on its second heartbeat, neither earlier nor
\* later: the recovery rule of recordNodeHeartbeat().
THEOREM RecoveryTakesTwoBeats == Spec => TwoBeatsToRecover
<1> DEFINE A(n) == (node[n].mark = "unknown" /\ node'[n].mark # "absent")
                   => (node'[n].mark = "known" <=> node'[n].beats >= 2)
<1>1. ASSUME IInv, [Next]_vars, NEW n \in Nodes, node[n].mark = "unknown",
             node'[n].mark # "absent"
      PROVE  node'[n].mark = "known" <=> node'[n].beats >= 2
  <2> USE DEF turnVars, taskVars
  <2>0. /\ TypeOK /\ CountInv /\ node[n] \in Heartbeats
        /\ node[n].hbs = node[n].beats /\ node[n].beats <= 1
    BY <1>1 DEF IInv, TypeOK, CountInv
  <2>1. ASSUME NEW m \in Nodes, NEW s \in States, FirstHeartbeat(m, s)
        PROVE  node'[n] = node[n]
    BY <1>1, <2>0, <2>1 DEF FirstHeartbeat, TypeOK
  <2>2. ASSUME NEW s \in States, Heartbeat(n, s)
        PROVE  node'[n].mark = "known" <=> node'[n].beats >= 2
    BY <1>1, <2>0, <2>2, HeartbeatCounts
  <2>3. ASSUME NEW m \in Nodes \ {n}, NEW s \in States, Heartbeat(m, s)
        PROVE  node'[n] = node[n]
    BY <2>0, <2>3 DEF Heartbeat, TypeOK
  <2>4. CASE ScanDone
    <3>1. CASE n \in stale
      <4>1. node'[n].mark = "unknown" /\ node'[n].beats = 0
        BY <2>0, <2>4, <3>1 DEF ScanDone, Heartbeats
      <4>2. QED
        BY <4>1
    <3>2. CASE n \notin stale
      <4>1. node'[n] = node[n]
        BY <2>4, <3>2 DEF ScanDone
      <4>2. QED
        BY <1>1, <2>0, <4>1 DEF Heartbeats, Beats
    <3>3. QED
      BY <3>1, <3>2
  <2>5. CASE Tick
    <3>1. node'[n].mark = node[n].mark /\ node'[n].beats = node[n].beats
      BY <2>0, <2>5 DEF Tick, Heartbeats
    <3>2. QED
      BY <1>1, <2>0, <3>1 DEF Heartbeats, Beats
  <2>6. CASE Restart
    BY <1>1, <2>6 DEF Restart, NoNode
  <2>7. CASE node'[n] = node[n]
    BY <1>1, <2>0, <2>7 DEF Heartbeats, Beats
  <2>8. QED
    BY <1>1, <2>1, <2>2, <2>3, <2>4, <2>5, <2>6, <2>7
    DEF Next, vars, Push, PushItem, Scan, MarkTask, Cleanup, Die
<1>2. IInv /\ [Next]_vars => [\A n \in Nodes : A(n)]_vars
  BY <1>1
<1>3. QED
  BY <1>2, Invariance, PTL DEF Spec, TwoBeatsToRecover

\* A finished task is reopened by a push of that very task and by nothing else.
THEOREM OnlyPushesReopen == Spec => FinishedOnlyRepushed
<1> DEFINE A(k) == (/\ task[k].status \in Terminal
                    /\ task'[k].status \notin Terminal \cup {"none"})
                   => turn = "push" /\ Head(batch).key = k
<1>1. ASSUME IInv, [Next]_vars, NEW k \in Keys PROVE A(k)
  <2> USE DEF turnVars, taskVars
  <2>0. TypeOK /\ TurnInv
    BY <1>1 DEF IInv
  <2>1. CASE PushItem
    <3>1. turn = "push"
      BY <2>1 DEF PushItem
    <3>2. k # Head(batch).key => task'[k] = task[k]
      BY <2>0, <2>1, PushedRecord
    <3>3. QED
      BY <3>1, <3>2
  <2>2. ASSUME NEW j \in Keys, MarkTask(j) PROVE A(k)
    <3>1. task[j].status \notin Terminal
      BY <2>0, <2>2 DEF TurnInv, Open, MarkTask
    <3>2. k # j => task'[k] = task[k]
      BY <2>0, <2>2, MarkedRecord
    <3>3. QED
      BY <3>1, <3>2
  <2>3. ASSUME NEW K \in SUBSET Keys, Cleanup(K) PROVE A(k)
    BY <2>3 DEF Cleanup, NoTask
  <2>4. CASE Restart
    BY <2>4 DEF Restart, NoTask
  <2>5. CASE UNCHANGED task
    BY <2>5
  <2>6. QED
    BY <1>1, <2>1, <2>2, <2>3, <2>4, <2>5
    DEF Next, vars, FirstHeartbeat, Heartbeat, Push, Scan, ScanDone, Tick, Die
<1>2. IInv /\ [Next]_vars => [\A k \in Keys : A(k)]_vars
  BY <1>1
<1>3. QED
  BY <1>2, Invariance, PTL DEF Spec, FinishedOnlyRepushed
=============================================================================
