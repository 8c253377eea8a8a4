----------------------------- MODULE TaskServer -----------------------------
(***************************************************************************)
(* The tasks and agents of the TriMC server: the task controller           *)
(* (src/task-controller/controller.ts), the routes of src/server/app.ts    *)
(* that drive it, and the session bridge (src/orchestration/               *)
(* session-bridge.ts) that runs the claude command line for them.          *)
(*                                                                         *)
(* Tasks and the registry of sessions are in memory and end with the       *)
(* process; the sessions, and what clients remember of task ids, do not.   *)
(* A handler that throws ends the process: the server's callback is async  *)
(* and nothing catches its rejection.                                      *)
(*                                                                         *)
(* A request is at rest between two turns of the event loop: while it      *)
(* spawns a session, while it lists the sessions, with the list in hand,   *)
(* and while its message is with a session.                                *)
(***************************************************************************)
EXTENDS Naturals, Sequences, FiniteSets

CONSTANTS
  Requests,     \* requests to /internal/v1/agents in flight at the same time
  Sessions,     \* claude sessions
  MaxTasks,     \* bound: tasks of one process
  MaxCrashes    \* bound: times the process dies by itself

ASSUME TaskAssumption ==
  IsFiniteSet(Requests) /\ MaxTasks \in Nat /\ MaxCrashes \in Nat

VARIABLES
  up,        \* whether the process is there
  tasks,     \* the controller's tasks; a task's id is its place
  registry,  \* registrySnapshot: the sessions listed last
  live,      \* the sessions there are
  pc,        \* where each request is
  op,        \* what it is
  target,    \* the session it is for
  seen,      \* the list it got
  task,      \* the id of its task
  given,     \* ids that answers of this process told to clients
  old,       \* ids that answers of processes before told to clients
  steady,    \* history: whether its session was there all the time
  lost,      \* history: whether its listing failed
  crashes    \* number of times the process died by itself

request == <<pc, op, target, seen, task>>
history == <<steady, lost>>
vars == <<up, tasks, registry, live, request, given, old, history, crashes>>

Points   == {"idle", "spawning", "listing", "listed", "bridging"}
Ops      == {"none", "message", "spawn", "list"}
Status   == {"queued", "running", "completed", "failed", "cancelled"}
Terminal == {"completed", "failed", "cancelled"}
Ids      == 1..MaxTasks
\* by: who ended the task, the request that began it or a node's callback.
Tasks    == [status : Status, by : {"none", "bridge", "node"}]

Init ==
  /\ up = TRUE
  /\ tasks = <<>> /\ registry = {} /\ live = {}
  /\ pc = [r \in Requests |-> "idle"]
  /\ op = [r \in Requests |-> "none"]
  /\ target = [r \in Requests |-> "none"]
  /\ seen = [r \in Requests |-> {}]
  /\ task = [r \in Requests |-> 0]
  /\ given = {} /\ old = {}
  /\ steady = [r \in Requests |-> FALSE]
  /\ lost = [r \in Requests |-> FALSE]
  /\ crashes = 0

---------------------------------------------------------------------------
\* The controller: VALID_TRANSITIONS, and an update that throws or is made.
AllowedLoose ==  \* mutant: a task may be ended before it was started
  [s \in Status |-> CASE s = "queued"  -> {"running", "completed", "failed", "cancelled"}
                      [] s = "running" -> {"completed", "failed", "cancelled"}
                      [] OTHER         -> {}]
Allowed ==
  [s \in Status |-> CASE s = "queued"  -> {"running", "cancelled"}
                      [] s = "running" -> {"completed", "failed", "cancelled"}
                      [] OTHER         -> {}]

Updates(id, status) == id \in DOMAIN tasks /\ status \in Allowed[tasks[id].status]
Outcome(ok) == IF ok THEN "completed" ELSE "failed"
EndTask(id, ok, who) == tasks' = [tasks EXCEPT ![id] = [status |-> Outcome(ok), by |-> who]]

\* The process ends, by itself or because a handler threw.
Die ==
  /\ up' = FALSE
  /\ tasks' = <<>> /\ registry' = {}
  /\ pc' = [r \in Requests |-> "idle"]
  /\ op' = [r \in Requests |-> "none"]
  /\ target' = [r \in Requests |-> "none"]
  /\ seen' = [r \in Requests |-> {}]
  /\ task' = [r \in Requests |-> 0]
  /\ given' = {} /\ old' = old \cup given
  /\ steady' = [r \in Requests |-> FALSE]
  /\ lost' = [r \in Requests |-> FALSE]
  /\ UNCHANGED live

Crash ==
  /\ up
  /\ crashes < MaxCrashes
  /\ crashes' = crashes + 1
  /\ Die

Restart ==
  /\ ~up
  /\ up' = TRUE
  /\ UNCHANGED <<tasks, registry, live, request, given, old, history, crashes>>

---------------------------------------------------------------------------
Go(r, p) == pc' = [pc EXCEPT ![r] = p]

\* The answer of a request; nothing of it is left.
Answer(r) ==
  /\ Go(r, "idle")
  /\ op' = [op EXCEPT ![r] = "none"]
  /\ target' = [target EXCEPT ![r] = "none"]
  /\ seen' = [seen EXCEPT ![r] = {}]
  /\ task' = [task EXCEPT ![r] = 0]
  /\ steady' = [steady EXCEPT ![r] = FALSE]
  /\ lost' = [lost EXCEPT ![r] = FALSE]

Room ==
  Len(tasks) + Cardinality({r \in Requests : op[r] = "message" /\ pc[r] # "bridging"}) < MaxTasks

\* createTask and its update to running; the message goes to the session.
Begin(r) ==
  /\ tasks' = Append(tasks, [status |-> "running", by |-> "none"])
  /\ task' = [task EXCEPT ![r] = Len(tasks) + 1]
  /\ Go(r, "bridging")

Arrive(r, what, s) ==
  /\ up
  /\ pc[r] = "idle"
  /\ op' = [op EXCEPT ![r] = what]
  /\ target' = [target EXCEPT ![r] = s]
  /\ steady' = [steady EXCEPT ![r] = s \in live]
  /\ lost' = [lost EXCEPT ![r] = FALSE]

\* POST agents/{id}/message, to its first await: the session of the snapshot, or a
\* listing if it is not there.
Message(r, s) ==
  /\ Room
  /\ Arrive(r, "message", s)
  /\ IF s \in registry THEN Begin(r)
                       ELSE Go(r, "listing") /\ UNCHANGED <<tasks, task>>
  /\ UNCHANGED <<up, registry, live, seen, given, old, crashes>>

\* GET agents.
List(r) ==
  /\ Arrive(r, "list", "none")
  /\ Go(r, "listing")
  /\ UNCHANGED <<up, tasks, registry, live, seen, task, given, old, crashes>>

\* POST agents, and what becomes of the spawn: one that fails, by its timeout for one,
\* may have begun a session all the same.
Spawn(r, s) ==
  /\ s \notin live
  /\ Arrive(r, "spawn", s)
  /\ Go(r, "spawning")
  /\ UNCHANGED <<up, tasks, registry, live, seen, task, given, old, crashes>>

Spawned(r) ==
  /\ pc[r] = "spawning"
  /\ \/ /\ live' = live \cup {target[r]}
        /\ Go(r, "listing")
        /\ UNCHANGED <<op, target, seen, task, history>>
     \/ /\ live' \in {live, live \cup {target[r]}}
        /\ Answer(r)
  /\ UNCHANGED <<up, tasks, registry, given, old, crashes>>

\* The command line lists the sessions of the moment; a listing that fails or times
\* out is an empty list.
ReadSome(r) ==  \* mutant: an empty list is listed again
  /\ pc[r] = "listing"
  /\ live # {}
  /\ Go(r, "listed")
  /\ seen' = [seen EXCEPT ![r] = live]
  /\ UNCHANGED <<up, tasks, registry, live, op, target, task, given, old, history, crashes>>

Read(r) ==
  /\ pc[r] = "listing"
  /\ Go(r, "listed")
  /\ \E fails \in BOOLEAN :
       /\ seen' = [seen EXCEPT ![r] = IF fails THEN {} ELSE live]
       /\ lost' = [lost EXCEPT ![r] = fails]
  /\ UNCHANGED <<up, tasks, registry, live, op, target, task, given, old, steady, crashes>>

\* The list becomes the snapshot, whatever other requests listed since.
ListedBefore(r) ==  \* mutant: the session is looked up before the list is stored
  /\ pc[r] = "listed"
  /\ registry' = seen[r]
  /\ IF op[r] = "message" /\ target[r] \in registry
       THEN Begin(r) /\ UNCHANGED <<op, target, seen, history>>
       ELSE Answer(r) /\ UNCHANGED tasks
  /\ UNCHANGED <<up, live, given, old, crashes>>

Listed(r) ==
  /\ pc[r] = "listed"
  /\ registry' = seen[r]
  /\ IF op[r] = "message" /\ target[r] \in seen[r]
       THEN Begin(r) /\ UNCHANGED <<op, target, seen, history>>
       ELSE Answer(r) /\ UNCHANGED tasks
  /\ UNCHANGED <<up, live, given, old, crashes>>

---------------------------------------------------------------------------
\* The session's reply, an error or the timeout; the request ends its task.
BridgedUnchecked(r) ==  \* mutant: the task is ended whatever became of it
  /\ pc[r] = "bridging"
  /\ \E ok \in BOOLEAN :
       /\ EndTask(task[r], ok, "bridge")
       /\ Answer(r)
  /\ given' = given \cup {task[r]}
  /\ UNCHANGED <<up, registry, live, old, crashes>>

Bridged(r) ==
  /\ pc[r] = "bridging"
  /\ \E ok \in BOOLEAN :
       /\ ok => target[r] \in live
       /\ IF Updates(task[r], Outcome(ok))
            THEN /\ EndTask(task[r], ok, "bridge")
                 /\ Answer(r)
                 /\ given' = given \cup {task[r]}
                 /\ UNCHANGED <<up, registry, live, old>>
            ELSE Die
  /\ UNCHANGED crashes

\* POST tasks: a placeholder that nothing will run.
Placeholder ==
  /\ up
  /\ Room
  /\ tasks' = Append(tasks, [status |-> "queued", by |-> "none"])
  /\ given' = given \cup {Len(tasks) + 1}
  /\ UNCHANGED <<up, registry, live, request, old, history, crashes>>

\* POST tasks/result, with any id a client was told, now or before a restart.
Callback(id) ==
  /\ up
  /\ id \in given \cup old
  /\ \E ok \in BOOLEAN :
       IF Updates(id, Outcome(ok))
         THEN EndTask(id, ok, "node") /\ UNCHANGED <<up, registry, live, request, given, old, history>>
         ELSE Die
  /\ UNCHANGED crashes

\* A session ends by itself.
SessionEnds(s) ==
  /\ s \in live
  /\ live' = live \ {s}
  /\ steady' = [r \in Requests |-> steady[r] /\ target[r] # s]
  /\ UNCHANGED <<up, tasks, registry, request, given, old, lost, crashes>>

---------------------------------------------------------------------------
Request(r)  == List(r) \/ \E s \in Sessions : Message(r, s) \/ Spawn(r, s)
Continue(r) == Spawned(r) \/ Read(r) \/ Listed(r) \/ Bridged(r)

Next ==
  \/ \E r \in Requests : Request(r) \/ Continue(r)
  \/ \E s \in Sessions : SessionEnds(s)
  \/ \E id \in Ids : Callback(id)
  \/ Placeholder \/ Crash \/ Restart

Spec == Init /\ [][Next]_vars

\* Every command line call has a timeout (30, 90 and 120 seconds), and the process is
\* started again when it is gone.
FairSpec == Spec /\ WF_vars(Restart) /\ \A r \in Requests : WF_vars(Continue(r))

---------------------------------------------------------------------------
\* Every variable keeps its type.
TypeOK ==
  /\ up \in BOOLEAN
  /\ tasks \in Seq(Tasks) /\ Len(tasks) <= MaxTasks
  /\ registry \subseteq Sessions /\ live \subseteq Sessions
  /\ pc \in [Requests -> Points] /\ op \in [Requests -> Ops]
  /\ target \in [Requests -> Sessions \cup {"none"}]
  /\ seen \in [Requests -> SUBSET Sessions]
  /\ task \in [Requests -> 0..MaxTasks]
  /\ given \subseteq Ids /\ old \subseteq Ids
  /\ steady \in [Requests -> BOOLEAN] /\ lost \in [Requests -> BOOLEAN]
  /\ crashes \in 0..MaxCrashes

\* A running task is the task of one request, which will end it (app.ts: queued,
\* running, completed or failed): no task runs for ever, none is ended by two.
RunningIsBridged ==
  \A id \in DOMAIN tasks : tasks[id].status = "running" =>
     Cardinality({r \in Requests : pc[r] = "bridging" /\ task[r] = id}) = 1

\* A node's result ends the task of a message only if its id was given out before a
\* restart, and then to another task: ids begin at 1 in every process.
StrayOnlyAfterRestart ==
  \A id \in DOMAIN tasks : tasks[id].by = "node" => id \in old

\* A message is refused as not found only if its session was not there all the time or
\* the listing failed, though a slower request may have put an older list in the snapshot.
RefusedOnlyIfGone ==
  [][\A r \in Requests :
       (op[r] = "message" /\ pc[r] = "listed" /\ pc'[r] = "idle" /\ up') =>
          ~steady[r] \/ lost[r]]_vars

\* A task that has ended stays as it ended, whoever reports on it again.
EndedStays ==
  [][\A id \in DOMAIN tasks :
       (id \in DOMAIN tasks' /\ tasks[id].status \in Terminal) => tasks'[id] = tasks[id]]_vars

\* Every request is answered, or its process is gone.
Answered == \A r \in Requests : pc[r] # "idle" ~> pc[r] = "idle"

\* The result a node reports of a task it was given by this process is recorded
\* (app.ts: TriLC callback: task completed or failed, update TaskController).
ResultRecorded ==
  [][\A id \in given :
       (Callback(id) /\ tasks[id].status \notin Terminal) =>
          (id \in DOMAIN tasks' /\ tasks'[id].status \in Terminal)]_vars
=============================================================================
