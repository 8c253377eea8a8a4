----------------------------- MODULE NodeMirror -----------------------------
(***************************************************************************)
(* The task mirror of TriMC (src/mirror/store.ts) and what drives it from  *)
(* src/server/app.ts: POST /internal/v1/heartbeat, POST                    *)
(* /internal/v1/tasks/mirror and the 10 s timer that scans for stale nodes.*)
(* TriLC nodes push snapshots of their tasks and, separately, send         *)
(* heartbeats; a node that falls silent is marked unknown together with    *)
(* its unfinished tasks, and is known again after two heartbeats.          *)
(*                                                                         *)
(* The store is in memory and JavaScript runs a handler to completion, so  *)
(* a loop over tasks is one turn of the event loop: while turn # "idle"    *)
(* only the steps of that turn are enabled.                                *)
(*                                                                         *)
(* Times are in ticks.  The code compares Date.now() - lastSeenAt with two *)
(* thresholds; silent[n] is that difference and saturates above both.      *)
(***************************************************************************)
EXTENDS Naturals, Sequences, FiniteSets

CONSTANTS
  Nodes,          \* TriLC node ids
  TaskIds,        \* task ids, local to a node
  Contents,       \* what a snapshot says besides the status: title, summary
  Reports,        \* the statuses the nodes push in this instance
  StaleAfter,     \* staleMs: silence allowed to a connected node
  DegradedAfter,  \* degradedStaleMs: silence allowed to a degraded node
  CountCap,       \* where consecutiveHbs saturates (100 in the code)
  MaxBatch,       \* bound: tasks in one push
  MaxVersion      \* bound: versions handed out

Terminal   == {"success", "failed", "cancelled"}
Reportable == {"pending", "running"} \cup Terminal
Status     == Reportable \cup {"unknown", "none"}

ASSUME MirrorAssumption ==
  /\ Reports \subseteq Reportable
  /\ StaleAfter \in Nat /\ DegradedAfter \in Nat
  /\ CountCap \in Nat /\ CountCap >= 2
  /\ MaxBatch \in Nat /\ MaxVersion \in Nat

VARIABLES
  node,      \* nodeHeartbeats, one entry per node
  task,      \* the tasks map; status "none" is an absent key
  versions,  \* versionCounter
  turn,      \* what the event loop is doing
  batch,     \* items of the running push still to apply
  stale,     \* nodes the running scan found stale
  toMark,    \* their tasks still to mark
  dead,      \* environment: nodes that never send again
  fresh      \* history: tasks pushed since their node was last marked

taskVars == <<task, versions, fresh>>
turnVars == <<turn, batch, stale, toMark>>
vars     == <<node, taskVars, turnVars, dead>>

Least(a, b) == IF a < b THEN a ELSE b
Longest     == IF StaleAfter > DegradedAfter THEN StaleAfter ELSE DegradedAfter

Keys    == Nodes \X TaskIds
States  == {"connected", "degraded"}
Marks   == {"absent", "known", "unknown"}
Counts  == 0..CountCap
Beats   == 0..2
Silences == 0..(Longest + 1)
Items   == [key : Keys, status : Reports, content : Contents]
Records == [status : Status, content : Contents \cup {"none"}, version : Nat]
NoTask  == [status |-> "none", content |-> "none", version |-> 0]

\* mark: no entry, or the unknown flag of the entry; silent: see above; beats
\* (history): heartbeats since the node was last marked, 2 standing for more.
Heartbeats ==
  [mark : Marks, silent : Silences, state : States, hbs : Counts, beats : Beats]
NoNode ==
  [mark |-> "absent", silent |-> 0, state |-> "connected", hbs |-> 0, beats |-> 0]

\* The pushes node n can send: non-empty, in any order, repeating a task or not.
Pushes(n) ==
  UNION {[1..k -> {i \in Items : i.key[1] = n}] : k \in 1..MaxBatch}

Held(k) == task[k].status # "none"
Open(k) == Held(k) /\ task[k].status \notin Terminal

\* The bound on versions leaves room to mark every task once more.
Room(k) == versions + k + Cardinality(Keys) <= MaxVersion

Init ==
  /\ node = [n \in Nodes |-> NoNode]
  /\ task = [k \in Keys |-> NoTask]
  /\ versions = 0
  /\ turn = "idle"
  /\ batch = <<>>
  /\ stale = {}
  /\ toMark = {}
  /\ dead = {}
  /\ fresh = {}

-----------------------------------------------------------------------------
(* Heartbeats.                                                             *)

Counted(c) == Least(c + 1, CountCap)

\* Mutant: one heartbeat is enough.
RecoversOnFirst(r, count) == r.mark = "unknown" /\ count >= 1
Recovers(r, count) == r.mark = "unknown" /\ count >= 2

\* recordNodeHeartbeat for a node not in the table.
FirstHeartbeat(n, s) ==
  /\ turn = "idle" /\ n \notin dead /\ node[n].mark = "absent" /\ Room(0)
  /\ node' = [node EXCEPT ![n] = [NoNode EXCEPT !.mark = "known",
                                                !.state = s, !.hbs = 1]]
  /\ UNCHANGED <<taskVars, turnVars, dead>>

\* recordNodeHeartbeat for a node in the table.
Heartbeat(n, s) ==
  /\ turn = "idle" /\ n \notin dead /\ node[n].mark # "absent" /\ Room(0)
  /\ LET r == node[n]
         count == Counted(r.hbs)
         back == Recovers(r, count)
     IN  node' = [node EXCEPT ![n] =
                    [r EXCEPT !.silent = 0, !.state = s,
                              !.hbs = IF back THEN 0 ELSE count,
                              !.mark = IF back THEN "known" ELSE @,
                              !.beats = Least(r.beats + 1, 2)]]
  /\ UNCHANGED <<taskVars, turnVars, dead>>

-----------------------------------------------------------------------------
(* Pushes.                                                                 *)

Push(n, items) ==
  /\ turn = "idle" /\ n \notin dead /\ Room(Len(items))
  /\ turn' = "push"
  /\ batch' = items
  /\ UNCHANGED <<node, taskVars, stale, toMark, dead>>

Changed(item) ==
  \/ ~Held(item.key)
  \/ task[item.key].status # item.status
  \/ task[item.key].content # item.content

\* Mutant: each task counts its own versions.
RecordOwnCount(item) ==
  [status |-> item.status, content |-> item.content,
   version |-> task[item.key].version + 1]
Record(item) ==
  [status |-> item.status, content |-> item.content, version |-> versions + 1]

\* One round of the loop in mirror(): insert, update, or only refresh.  A
\* terminal task that is pushed as running is taken back (warning only).
PushItem ==
  /\ turn = "push"
  /\ LET item == Head(batch) IN
       /\ IF Changed(item)
            THEN /\ versions' = versions + 1
                 /\ task' = [task EXCEPT ![item.key] = Record(item)]
            ELSE UNCHANGED <<versions, task>>
       /\ fresh' = fresh \cup {item.key}
  /\ batch' = Tail(batch)
  /\ turn' = IF Tail(batch) = <<>> THEN "idle" ELSE "push"
  /\ UNCHANGED <<node, stale, toMark, dead>>

-----------------------------------------------------------------------------
(* The stale scan and markNodeUnknown.                                     *)

Threshold(r) == IF r.state = "degraded" THEN DegradedAfter ELSE StaleAfter

\* Mutant: a degraded node is given all the time in the world.
StaleConnected ==
  {n \in Nodes : /\ node[n].mark = "known"
                 /\ node[n].state = "connected" /\ node[n].silent > StaleAfter}
StaleNodes ==
  {n \in Nodes : /\ node[n].mark = "known"
                 /\ node[n].silent > Threshold(node[n])}

\* Mutant: marking only the running ones.
RunningTasksOf(N) == {k \in Keys : k[1] \in N /\ task[k].status = "running"}
OpenTasksOf(N) == {k \in Keys : k[1] \in N /\ Open(k)}

Scan ==
  /\ turn = "idle" /\ StaleNodes # {}
  /\ turn' = "scan"
  /\ stale' = StaleNodes
  /\ toMark' = OpenTasksOf(StaleNodes)
  /\ UNCHANGED <<node, taskVars, batch, dead>>

Mark(k) ==
  /\ versions' = versions + 1
  /\ task' = [task EXCEPT ![k].status = "unknown", ![k].version = versions + 1]

\* One round of the loop in markNodeUnknown.
MarkTask(k) ==
  /\ turn = "scan" /\ k \in toMark
  /\ Mark(k)
  /\ toMark' = toMark \ {k}
  /\ UNCHANGED <<node, fresh, turn, batch, stale, dead>>

\* The loop is over: the nodes are flagged and their count starts again.
ScanDone ==
  /\ turn = "scan" /\ toMark = {}
  /\ node' = [n \in Nodes |->
                IF n \in stale
                  THEN [node[n] EXCEPT !.mark = "unknown", !.hbs = 0, !.beats = 0]
                  ELSE node[n]]
  /\ fresh' = {k \in fresh : k[1] \notin stale}
  /\ turn' = "idle"
  /\ stale' = {}
  /\ UNCHANGED <<task, versions, batch, toMark, dead>>

-----------------------------------------------------------------------------
(* Cleanup, time and the environment.                                      *)

\* cleanup(): drops finished tasks older than maxAgeMs.  Ages of tasks are
\* abstracted: any finished task may be old enough.  src/ never calls it.
Cleanup(K) ==
  /\ turn = "idle"
  /\ K # {} /\ \A k \in K : Held(k) /\ ~Open(k)
  /\ task' = [k \in Keys |-> IF k \in K THEN NoTask ELSE task[k]]
  /\ UNCHANGED <<node, versions, fresh, turnVars, dead>>

Tick ==
  /\ turn = "idle"
  /\ node' = [n \in Nodes |->
                IF node[n].mark # "absent"
                  THEN [node[n] EXCEPT !.silent = Least(@ + 1, Longest + 1)]
                  ELSE node[n]]
  /\ UNCHANGED <<taskVars, turnVars, dead>>

\* A node goes away for good.
Die(n) ==
  /\ turn = "idle" /\ n \notin dead
  /\ dead' = dead \cup {n}
  /\ UNCHANGED <<node, taskVars, turnVars>>

\* The process restarts, at any point of a turn: nothing is persisted.
Restart ==
  /\ node' = [n \in Nodes |-> NoNode]
  /\ task' = [k \in Keys |-> NoTask]
  /\ versions' = 0 /\ fresh' = {}
  /\ turn' = "idle" /\ batch' = <<>> /\ stale' = {} /\ toMark' = {}
  /\ UNCHANGED dead

-----------------------------------------------------------------------------
Next ==
  \/ \E n \in Nodes, s \in States : FirstHeartbeat(n, s)
  \/ \E n \in Nodes, s \in States : Heartbeat(n, s)
  \/ \E n \in Nodes : \E items \in Pushes(n) : Push(n, items)
  \/ PushItem
  \/ Scan
  \/ \E k \in Keys : MarkTask(k)
  \/ ScanDone
  \/ \E K \in SUBSET Keys : Cleanup(K)
  \/ Tick
  \/ \E n \in Nodes : Die(n)
  \/ Restart

\* A turn runs to its end, time passes, and the timer phase of the event loop
\* comes round however many requests arrive, so the interval timer is not
\* starved: strong fairness, since a push disables the scan for its turn.
Fairness ==
  /\ WF_vars(PushItem)
  /\ WF_vars(\E k \in Keys : MarkTask(k))
  /\ WF_vars(ScanDone)
  /\ SF_vars(Tick)
  /\ SF_vars(Scan)

Spec == Init /\ [][Next]_vars /\ Fairness

-----------------------------------------------------------------------------
(* Properties.                                                             *)

TypeOK ==
  /\ node \in [Nodes -> Heartbeats]
  /\ task \in [Keys -> Records]
  /\ versions \in Nat
  /\ fresh \subseteq Keys
  /\ turn \in {"idle", "push", "scan"}
  /\ batch \in Seq(Items)
  /\ stale \subseteq Nodes
  /\ toMark \subseteq Keys
  /\ dead \subseteq Nodes

\* No two mirrored tasks carry the same version, and none is ahead of the
\* counter: a reader that remembers one version can ask what came after it.
VersionsUnique ==
  \A k1, k2 \in Keys :
    Held(k1) => /\ task[k1].version \in 1..versions
                /\ (Held(k2) /\ k1 # k2) => task[k1].version # task[k2].version

\* Within one run of the process nothing a reader can see of a task changes
\* unless the task gets a version above every version handed out before.
VersionTracksChange ==
  [][\A k \in Keys :
       (/\ task'[k].status # "none"
        /\ \/ task'[k].status # task[k].status
           \/ task'[k].content # task[k].content)
       => task'[k].version > versions]_vars

\* What a task is shown as that its node is still at work on; unknown says neither.
Live(k) == task[k].status \in {"pending", "running"}

\* An unknown node shows no status older than the moment it was lost: a task of
\* such a node that is still pending or running was pushed after the marking.
NoOutdatedLiveTask ==
  \A k \in Keys :
    (node[k[1]].mark = "unknown" /\ Live(k)) => k \in fresh

\* A lost node comes back on its second heartbeat after the marking, never on
\* the first, and a stale count from before the marking does not help it.
TwoBeatsToRecover ==
  [][\A n \in Nodes :
       (node[n].mark = "unknown" /\ node'[n].mark # "absent")
         => (node'[n].mark = "known" <=> node'[n].beats >= 2)]_vars

\* A task the node finished is only ever changed by a later push of that task:
\* losing and recovering its node leaves it alone.
FinishedOnlyRepushed ==
  [][\A k \in Keys :
       (/\ task[k].status \in Terminal
        /\ task'[k].status \notin Terminal \cup {"none"})
       => turn = "push" /\ Head(batch).key = k]_vars

\* A node that is known when it dies ends with no task shown as live: the scan
\* finds it, or the process restarts and forgets both.
DeadKnownNodeSwept ==
  \A n \in Nodes :
    (n \in dead /\ node[n].mark = "known")
      ~> (\A id \in TaskIds : ~Live(<<n, id>>))

\* What the scan is for (store.ts:73 and types.ts:12): whatever node that has
\* sent heartbeats goes away for good, its tasks do not stay live for ever.
DeadNodeSwept ==
  \A n \in Nodes :
    (n \in dead /\ node[n].mark # "absent") ~> (\A id \in TaskIds : ~Live(<<n, id>>))
=============================================================================
