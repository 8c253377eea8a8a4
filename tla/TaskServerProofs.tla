-------------------------- MODULE TaskServerProofs --------------------------
(***************************************************************************)
(* Proofs about TaskServer, for any finite set of requests, any sessions,  *)
(* and any bounds.                                                         *)
(***************************************************************************)
EXTENDS TaskServer, FiniteSetTheorems, TLAPS

\* Messages that have no task yet: each has its place kept for one.
Pending == {r \in Requests : op[r] = "message" /\ pc[r] # "bridging"}
PlaceInv ==
  \A r \in Requests : /\ (pc[r] = "idle") <=> (op[r] = "none")
                      /\ pc[r] = "spawning" => target[r] \in Sessions
RoomInv == Len(tasks) + Cardinality(Pending) <= MaxTasks /\ PlaceInv

\* A message that is out has a task of its own, and a running task has its message.
BridgeInv ==
  /\ \A r \in Requests : pc[r] = "bridging" => task[r] \in DOMAIN tasks
  /\ \A r1, r2 \in Requests :
       (pc[r1] = "bridging" /\ pc[r2] = "bridging" /\ task[r1] = task[r2]) => r1 = r2
  /\ \A id \in DOMAIN tasks : tasks[id].status = "running" =>
       \E r \in Requests : pc[r] = "bridging" /\ task[r] = id

\* A client of this process knows of no task that is running.
GivenInv == \A id \in given : id \in DOMAIN tasks /\ tasks[id].status # "running"

\* A session that was there all the time is there, and in a list that was got since.
SteadyInv ==
  \A r \in Requests :
    steady[r] => /\ target[r] \in live
                 /\ (op[r] = "message" /\ pc[r] = "listed") => lost[r] \/ target[r] \in seen[r]

IInv == TypeOK /\ RoomInv /\ BridgeInv /\ GivenInv /\ StrayOnlyAfterRestart /\ SteadyInv

-----------------------------------------------------------------------------
\* Only a running task can be ended, and what ends it makes it terminal.
LEMMA EndsRunning ==
  ASSUME TypeOK, NEW id, NEW ok \in BOOLEAN, Updates(id, Outcome(ok))
  PROVE  id \in DOMAIN tasks /\ tasks[id].status = "running" /\ Outcome(ok) \in {"completed", "failed"}
<1>1. id \in DOMAIN tasks /\ tasks[id] \in Tasks /\ Outcome(ok) \in Allowed[tasks[id].status]
      BY DEF TypeOK, Updates
<1>2. Outcome(ok) \in {"completed", "failed"}
      BY DEF Outcome
<1>3. tasks[id].status \in Status
      BY <1>1 DEF Tasks
<1>4. tasks[id].status = "running"
      BY <1>1, <1>2, <1>3 DEF Allowed, Status
<1> QED BY <1>1, <1>2, <1>4

LEMMA PendingFinite == IsFiniteSet(Pending) /\ Cardinality(Pending) \in Nat
BY TaskAssumption, FS_Subset, FS_CardinalityType DEF Pending

-----------------------------------------------------------------------------
LEMMA RoomInit == Init => RoomInv
<1> SUFFICES ASSUME Init PROVE RoomInv
    OBVIOUS
<1>1. Pending = {}
      BY DEF Init, Pending
<1>2. Cardinality(Pending) = 0
      BY <1>1, FS_EmptySet
<1> QED BY <1>2, TaskAssumption DEF Init, RoomInv, PlaceInv

\* A step under which no message joins those that wait, and no task is added.
LEMMA RoomKept ==
  ASSUME TypeOK, RoomInv, Pending' \subseteq Pending, Len(tasks') = Len(tasks) \/ tasks' = <<>>
  PROVE  Len(tasks') + Cardinality(Pending') <= MaxTasks
<1>1. Cardinality(Pending') <= Cardinality(Pending) /\ Cardinality(Pending') \in Nat
      BY PendingFinite, FS_Subset, FS_CardinalityType
<1>2. Len(tasks) \in Nat /\ Len(tasks') <= Len(tasks) /\ Len(tasks') \in Nat
      BY DEF TypeOK
<1> QED BY <1>1, <1>2, PendingFinite, TaskAssumption DEF RoomInv

\* The task of a message takes the place that was kept for it.
LEMMA RoomTaken ==
  ASSUME TypeOK, RoomInv, NEW r \in Pending, Pending' = Pending \ {r}
  PROVE  Len(tasks) + 1 + Cardinality(Pending') <= MaxTasks
<1>1. Cardinality(Pending') = Cardinality(Pending) - 1
      BY PendingFinite, FS_RemoveElement
<1> QED BY <1>1, PendingFinite, TaskAssumption DEF RoomInv, TypeOK

-----------------------------------------------------------------------------
\* What answering a request, ending the process and beginning a task do to the variables'
\* types, once and for all.
LEMMA AnswerTypes ==
  ASSUME TypeOK, RoomInv, NEW r \in Requests, Answer(r)
  PROVE  /\ pc' \in [Requests -> Points] /\ op' \in [Requests -> Ops]
         /\ target' \in [Requests -> Sessions \cup {"none"}]
         /\ seen' \in [Requests -> SUBSET Sessions]
         /\ task' \in [Requests -> 0..MaxTasks]
         /\ steady' \in [Requests -> BOOLEAN] /\ lost' \in [Requests -> BOOLEAN]
         /\ Pending' \subseteq Pending
         /\ PlaceInv'
BY TaskAssumption DEF TypeOK, RoomInv, PlaceInv, Answer, Go, Points, Ops, Pending

LEMMA DieStep == TypeOK /\ RoomInv /\ Die /\ crashes' \in 0..MaxCrashes => TypeOK' /\ RoomInv'
<1> SUFFICES ASSUME TypeOK, RoomInv, Die, crashes' \in 0..MaxCrashes PROVE TypeOK' /\ RoomInv'
    OBVIOUS
<1>1. TypeOK'
  <2>1. tasks' \in Seq(Tasks) /\ Len(tasks') <= MaxTasks
        BY TaskAssumption DEF Die
  <2>2. task' \in [Requests -> 0..MaxTasks]
        BY TaskAssumption DEF Die
  <2>3. given' \subseteq Ids /\ old' \subseteq Ids /\ registry' \subseteq Sessions /\ live' \subseteq Sessions
        BY DEF Die, TypeOK
  <2>4. /\ pc' \in [Requests -> Points] /\ op' \in [Requests -> Ops] /\ up' \in BOOLEAN
        /\ target' \in [Requests -> Sessions \cup {"none"}]
        /\ seen' \in [Requests -> SUBSET Sessions]
        /\ steady' \in [Requests -> BOOLEAN] /\ lost' \in [Requests -> BOOLEAN]
        BY DEF Die, Points, Ops
  <2> QED BY <2>1, <2>2, <2>3, <2>4 DEF TypeOK
<1>2. Pending' \subseteq Pending
      BY DEF Die, Pending
<1>3. Len(tasks') + Cardinality(Pending') <= MaxTasks
      BY <1>2, RoomKept DEF Die
<1> QED BY <1>1, <1>3 DEF RoomInv, PlaceInv, Die

LEMMA EndTaskTypes ==
  ASSUME TypeOK, NEW id \in DOMAIN tasks, NEW ok \in BOOLEAN, NEW who \in {"bridge", "node"},
         EndTask(id, ok, who)
  PROVE  /\ tasks' \in Seq(Tasks) /\ Len(tasks') = Len(tasks) /\ DOMAIN tasks' = DOMAIN tasks
         /\ tasks'[id] = [status |-> Outcome(ok), by |-> who]
         /\ \A i \in DOMAIN tasks : i # id => tasks'[i] = tasks[i]
<1>1. [status |-> Outcome(ok), by |-> who] \in Tasks
      BY DEF Outcome, Tasks, Status
<1> QED BY <1>1 DEF TypeOK, EndTask

LEMMA BeginTypes ==
  ASSUME TypeOK, RoomInv, NEW r \in Requests, Begin(r), Len(tasks) + 1 <= MaxTasks
  PROVE  /\ tasks' \in Seq(Tasks) /\ Len(tasks') = Len(tasks) + 1
         /\ tasks'[Len(tasks) + 1] = [status |-> "running", by |-> "none"]
         /\ \A id \in DOMAIN tasks : id \in DOMAIN tasks' /\ tasks'[id] = tasks[id]
         /\ task' \in [Requests -> 0..MaxTasks]
         /\ pc' \in [Requests -> Points]
<1>1. [status |-> "running", by |-> "none"] \in Tasks
      BY DEF Tasks, Status
<1> QED BY <1>1, TaskAssumption DEF TypeOK, Begin, Go, Points

LEMMA TypeStep == TypeOK /\ RoomInv /\ [Next]_vars => TypeOK' /\ RoomInv'
<1> SUFFICES ASSUME TypeOK, RoomInv, [Next]_vars PROVE TypeOK' /\ RoomInv'
    OBVIOUS
<1> USE TaskAssumption
<1>1. ASSUME NEW r \in Requests, NEW s \in Sessions, Message(r, s) PROVE TypeOK' /\ RoomInv'
  <2>1. Len(tasks) + Cardinality(Pending) < MaxTasks
        BY <1>1 DEF Message, Room, Pending
  <2>2. /\ op' \in [Requests -> Ops] /\ target' \in [Requests -> Sessions \cup {"none"}]
        /\ steady' \in [Requests -> BOOLEAN] /\ lost' \in [Requests -> BOOLEAN]
        BY <1>1 DEF Message, Arrive, TypeOK, Ops
  <2>3. op' = [op EXCEPT ![r] = "message"] /\ pc[r] = "idle" /\ op[r] = "none"
        BY <1>1 DEF Message, Arrive, RoomInv, PlaceInv
  <2>4. CASE s \in registry
    <3>1. Begin(r) /\ pc' = [pc EXCEPT ![r] = "bridging"]
          BY <1>1, <2>4 DEF Message, Begin, Go
    <3>2. Len(tasks) + 1 <= MaxTasks
          BY <2>1, PendingFinite DEF TypeOK
    <3>3. Pending' = Pending
          BY <2>3, <3>1 DEF Pending, TypeOK
    <3>4. TypeOK'
          BY <1>1, <2>2, <3>1, <3>2, BeginTypes DEF TypeOK, Message
    <3>5. Len(tasks') + Cardinality(Pending') <= MaxTasks
          BY <2>1, <3>1, <3>2, <3>3, PendingFinite, BeginTypes DEF TypeOK
    <3>6. PlaceInv'
          BY <1>1, <2>3, <3>1 DEF RoomInv, PlaceInv, TypeOK, Message, Arrive
    <3> QED BY <3>4, <3>5, <3>6 DEF RoomInv
  <2>5. CASE s \notin registry
    <3>1. pc' = [pc EXCEPT ![r] = "listing"] /\ UNCHANGED <<tasks, task>>
          BY <1>1, <2>5 DEF Message, Go
    <3>2. Pending' = Pending \cup {r}
          BY <2>3, <3>1 DEF Pending, TypeOK
    <3>3. Cardinality(Pending') <= Cardinality(Pending) + 1 /\ Cardinality(Pending') \in Nat
      <4>1. Cardinality(Pending \cup {r}) = IF r \in Pending THEN Cardinality(Pending)
                                                            ELSE Cardinality(Pending) + 1
            BY PendingFinite, FS_AddElement
      <4> QED BY <3>2, <4>1, PendingFinite
    <3>4. TypeOK'
          BY <1>1, <2>2, <3>1 DEF TypeOK, Message, Points
    <3>5. Len(tasks') + Cardinality(Pending') <= MaxTasks
          BY <2>1, <3>1, <3>3, PendingFinite DEF TypeOK
    <3>6. PlaceInv'
          BY <1>1, <2>3, <3>1 DEF RoomInv, PlaceInv, TypeOK, Message, Arrive
    <3> QED BY <3>4, <3>5, <3>6 DEF RoomInv
  <2> QED BY <2>4, <2>5
<1>2. ASSUME NEW r \in Requests, List(r) PROVE TypeOK' /\ RoomInv'
  <2>1. TypeOK'
        BY <1>2 DEF TypeOK, List, Arrive, Go, Ops, Points
  <2>2. Pending' \subseteq Pending
        BY <1>2 DEF List, Arrive, Go, Pending, TypeOK
  <2>3. Len(tasks') + Cardinality(Pending') <= MaxTasks
        BY <1>2, <2>2, RoomKept DEF List
  <2> QED BY <1>2, <2>1, <2>3 DEF RoomInv, PlaceInv, List, Arrive, Go, TypeOK
<1>3. ASSUME NEW r \in Requests, NEW s \in Sessions, Spawn(r, s) PROVE TypeOK' /\ RoomInv'
  <2>1. TypeOK'
        BY <1>3 DEF TypeOK, Spawn, Arrive, Go, Ops, Points
  <2>2. Pending' \subseteq Pending
        BY <1>3 DEF Spawn, Arrive, Go, Pending, TypeOK
  <2>3. Len(tasks') + Cardinality(Pending') <= MaxTasks
        BY <1>3, <2>2, RoomKept DEF Spawn
  <2> QED BY <1>3, <2>1, <2>3 DEF RoomInv, PlaceInv, Spawn, Arrive, Go, TypeOK
<1>4. ASSUME NEW r \in Requests, Spawned(r) PROVE TypeOK' /\ RoomInv'
  <2>1. target[r] \in Sessions
        BY <1>4 DEF Spawned, RoomInv, PlaceInv
  <2>2. CASE Go(r, "listing") /\ UNCHANGED <<op, target, seen, task, history>>
             /\ live' = live \cup {target[r]}
    <3>1. Pending' \subseteq Pending
          BY <1>4, <2>2 DEF Spawned, Go, Pending, TypeOK
    <3>2. Len(tasks') + Cardinality(Pending') <= MaxTasks
          BY <1>4, <3>1, RoomKept DEF Spawned
    <3> QED BY <1>4, <2>1, <2>2, <3>2 DEF TypeOK, RoomInv, PlaceInv, Spawned, Go, Points, history
  <2>3. CASE Answer(r) /\ live' \in {live, live \cup {target[r]}}
    <3>1. Len(tasks') + Cardinality(Pending') <= MaxTasks
          BY <1>4, <2>3, AnswerTypes, RoomKept DEF Spawned
    <3> QED BY <1>4, <2>1, <2>3, <3>1, AnswerTypes DEF TypeOK, RoomInv, Spawned
  <2> QED BY <1>4, <2>2, <2>3 DEF Spawned
<1>5. ASSUME NEW r \in Requests, Read(r) PROVE TypeOK' /\ RoomInv'
  <2>1. TypeOK'
        BY <1>5 DEF TypeOK, Read, Go, Points
  <2>2. Pending' \subseteq Pending
        BY <1>5 DEF Read, Go, Pending, TypeOK
  <2>3. Len(tasks') + Cardinality(Pending') <= MaxTasks
        BY <1>5, <2>2, RoomKept DEF Read
  <2> QED BY <1>5, <2>1, <2>3 DEF RoomInv, PlaceInv, Read, Go, TypeOK
<1>6. ASSUME NEW r \in Requests, Listed(r) PROVE TypeOK' /\ RoomInv'
  <2>1. CASE op[r] = "message" /\ target[r] \in seen[r]
    <3>1. Begin(r) /\ UNCHANGED <<op, target, seen, history>> /\ pc[r] = "listed"
          BY <1>6, <2>1 DEF Listed
    <3>2. r \in Pending /\ Pending' = Pending \ {r}
          BY <2>1, <3>1 DEF Pending, Begin, Go, TypeOK
    <3>3. Len(tasks) + 1 + Cardinality(Pending') <= MaxTasks
          BY <3>2, RoomTaken
    <3>4. Cardinality(Pending') \in Nat
      <4>1. IsFiniteSet(Pending \ {r})
            BY PendingFinite, FS_RemoveElement
      <4> QED BY <3>2, <4>1, FS_CardinalityType
    <3>8. Len(tasks) + 1 <= MaxTasks
          BY <3>3, <3>4 DEF TypeOK
    <3>5. TypeOK'
          BY <1>6, <3>1, <3>8, BeginTypes DEF TypeOK, Listed, history
    <3>6. Len(tasks') + Cardinality(Pending') <= MaxTasks
          BY <3>1, <3>3, <3>4, <3>8, BeginTypes
    <3>7. PlaceInv'
          BY <2>1, <3>1 DEF RoomInv, PlaceInv, TypeOK, Begin, Go
    <3> QED BY <3>5, <3>6, <3>7 DEF RoomInv
  <2>2. CASE ~(op[r] = "message" /\ target[r] \in seen[r])
    <3>1. Answer(r) /\ UNCHANGED tasks
          BY <1>6, <2>2 DEF Listed
    <3>2. Len(tasks') + Cardinality(Pending') <= MaxTasks
          BY <3>1, AnswerTypes, RoomKept
    <3> QED BY <1>6, <3>1, <3>2, AnswerTypes DEF TypeOK, RoomInv, Listed
  <2> QED BY <2>1, <2>2
<1>7. ASSUME NEW r \in Requests, Bridged(r) PROVE TypeOK' /\ RoomInv'
  <2> PICK ok \in BOOLEAN :
        IF Updates(task[r], Outcome(ok))
          THEN EndTask(task[r], ok, "bridge") /\ Answer(r) /\ given' = given \cup {task[r]}
               /\ UNCHANGED <<up, registry, live, old>>
          ELSE Die
      BY <1>7 DEF Bridged
  <2>1. crashes' = crashes
        BY <1>7 DEF Bridged
  <2>2. CASE Updates(task[r], Outcome(ok))
    <3>1. task[r] \in DOMAIN tasks
          BY <2>2 DEF Updates
    <3>2. task[r] \in Ids
          BY <3>1 DEF TypeOK, Ids
    <3>3. Len(tasks') + Cardinality(Pending') <= MaxTasks
          BY <2>2, <3>1, EndTaskTypes, AnswerTypes, RoomKept
    <3> QED BY <2>1, <2>2, <3>1, <3>2, <3>3, EndTaskTypes, AnswerTypes DEF TypeOK, RoomInv
  <2>3. CASE ~Updates(task[r], Outcome(ok))
        BY <2>1, <2>3, DieStep DEF TypeOK
  <2> QED BY <2>2, <2>3
<1>8. CASE Placeholder
  <2>1. Len(tasks) + Cardinality(Pending) < MaxTasks
        BY <1>8 DEF Placeholder, Room, Pending
  <2>2. [status |-> "queued", by |-> "none"] \in Tasks
        BY DEF Tasks, Status
  <2>3. Len(tasks) + 1 <= MaxTasks /\ Len(tasks) + 1 \in Ids
        BY <2>1, PendingFinite DEF TypeOK, Ids
  <2>4. TypeOK'
        BY <1>8, <2>2, <2>3 DEF TypeOK, Placeholder, request, history
  <2>5. Pending' = Pending /\ Len(tasks') = Len(tasks) + 1
        BY <1>8 DEF Placeholder, Pending, request, TypeOK
  <2>6. Len(tasks') + Cardinality(Pending') <= MaxTasks
        BY <2>1, <2>5, PendingFinite DEF TypeOK
  <2> QED BY <1>8, <2>4, <2>6 DEF RoomInv, PlaceInv, Placeholder, request
<1>9. ASSUME NEW id \in Ids, Callback(id) PROVE TypeOK' /\ RoomInv'
  <2> PICK ok \in BOOLEAN :
        IF Updates(id, Outcome(ok))
          THEN EndTask(id, ok, "node")
               /\ UNCHANGED <<up, registry, live, request, given, old, history>>
          ELSE Die
      BY <1>9 DEF Callback
  <2>1. crashes' = crashes
        BY <1>9 DEF Callback
  <2>2. CASE Updates(id, Outcome(ok))
    <3>1. id \in DOMAIN tasks
          BY <2>2 DEF Updates
    <3>2. Pending' = Pending
          BY <2>2 DEF Pending, request
    <3>3. Len(tasks') + Cardinality(Pending') <= MaxTasks
          BY <2>2, <3>1, <3>2, EndTaskTypes, RoomKept
    <3> QED BY <2>1, <2>2, <3>1, <3>3, EndTaskTypes DEF TypeOK, RoomInv, PlaceInv, request, history
  <2>3. CASE ~Updates(id, Outcome(ok))
        BY <2>1, <2>3, DieStep DEF TypeOK
  <2> QED BY <2>2, <2>3
<1>10. CASE Crash
      BY <1>10, DieStep DEF Crash, TypeOK
<1>11. CASE Restart \/ (\E s \in Sessions : SessionEnds(s)) \/ UNCHANGED vars
  <2>1. UNCHANGED <<tasks, request, given, old, registry>> /\ crashes' = crashes
        BY <1>11 DEF Restart, SessionEnds, vars
  <2>2. /\ up' \in BOOLEAN /\ live' \subseteq Sessions
        /\ steady' \in [Requests -> BOOLEAN] /\ lost' \in [Requests -> BOOLEAN]
        BY <1>11 DEF Restart, SessionEnds, vars, history, TypeOK
  <2>3. Pending' = Pending
        BY <2>1 DEF Pending, request
  <2>4. Len(tasks') + Cardinality(Pending') <= MaxTasks
        BY <2>1, <2>3 DEF RoomInv
  <2> QED BY <2>1, <2>2, <2>4 DEF TypeOK, RoomInv, PlaceInv, request
<1> QED BY <1>1, <1>2, <1>3, <1>4, <1>5, <1>6, <1>7, <1>8, <1>9, <1>10, <1>11
        DEF Next, Request, Continue

-----------------------------------------------------------------------------
LEMMA InitInv == Init => IInv
<1> SUFFICES ASSUME Init PROVE IInv
    OBVIOUS
<1>1. TypeOK
  <2>1. tasks \in Seq(Tasks) /\ Len(tasks) <= MaxTasks
        BY TaskAssumption DEF Init
  <2>2. task \in [Requests -> 0..MaxTasks] /\ crashes \in 0..MaxCrashes
        BY TaskAssumption DEF Init
  <2> QED BY <2>1, <2>2 DEF Init, TypeOK, Points, Ops
<1>2. BridgeInv /\ GivenInv /\ StrayOnlyAfterRestart /\ SteadyInv
      BY DEF Init, BridgeInv, GivenInv, StrayOnlyAfterRestart, SteadyInv
<1> QED BY <1>1, <1>2, RoomInit DEF IInv

-----------------------------------------------------------------------------
\* A request that begins a task: the task is new, and the request's own.
LEMMA BeginStep ==
  ASSUME TypeOK, RoomInv, BridgeInv, GivenInv, StrayOnlyAfterRestart,
         NEW r \in Requests, Begin(r), Len(tasks) + 1 <= MaxTasks, pc[r] # "bridging",
         given' = given, old' = old
  PROVE  BridgeInv' /\ GivenInv' /\ StrayOnlyAfterRestart'
<1>1. /\ tasks' \in Seq(Tasks) /\ Len(tasks') = Len(tasks) + 1
      /\ tasks'[Len(tasks) + 1] = [status |-> "running", by |-> "none"]
      /\ \A id \in DOMAIN tasks : id \in DOMAIN tasks' /\ tasks'[id] = tasks[id]
      BY BeginTypes
<1>2. DOMAIN tasks' = DOMAIN tasks \cup {Len(tasks) + 1} /\ Len(tasks) + 1 \notin DOMAIN tasks
      BY <1>1 DEF TypeOK
<1>3. /\ pc'[r] = "bridging" /\ task'[r] = Len(tasks) + 1
      /\ \A q \in Requests : q # r => pc'[q] = pc[q] /\ task'[q] = task[q]
      BY DEF Begin, Go, TypeOK
<1>4. BridgeInv'
  <2>1. \A q \in Requests : pc'[q] = "bridging" => task'[q] \in DOMAIN tasks'
        BY <1>2, <1>3 DEF BridgeInv
  <2>2. ASSUME NEW r1 \in Requests, NEW r2 \in Requests,
               pc'[r1] = "bridging", pc'[r2] = "bridging", task'[r1] = task'[r2]
        PROVE  r1 = r2
        BY <1>2, <1>3, <2>2 DEF BridgeInv
  <2>3. ASSUME NEW id \in DOMAIN tasks', tasks'[id].status = "running"
        PROVE  \E q \in Requests : pc'[q] = "bridging" /\ task'[q] = id
    <3>1. CASE id = Len(tasks) + 1
          BY <1>3, <3>1
    <3>2. CASE id \in DOMAIN tasks
      <4>1. PICK q \in Requests : pc[q] = "bridging" /\ task[q] = id
            BY <1>1, <2>3, <3>2 DEF BridgeInv
      <4> QED BY <1>3, <4>1
    <3> QED BY <1>2, <3>1, <3>2
  <2> QED BY <2>1, <2>2, <2>3 DEF BridgeInv
<1>5. GivenInv'
      BY <1>1 DEF GivenInv
<1>6. StrayOnlyAfterRestart'
  <2> SUFFICES ASSUME NEW id \in DOMAIN tasks', tasks'[id].by = "node" PROVE id \in old
      BY DEF StrayOnlyAfterRestart
  <2>1. id \in DOMAIN tasks
        BY <1>1, <1>2
  <2> QED BY <1>1, <2>1 DEF StrayOnlyAfterRestart
<1> QED BY <1>4, <1>5, <1>6

\* A step that adds no task, and takes no request from or to its message.
LEMMA StillStep ==
  ASSUME BridgeInv, GivenInv, StrayOnlyAfterRestart, tasks' = tasks, given' = given, old' = old,
         \A q \in Requests : /\ (pc'[q] = "bridging") <=> (pc[q] = "bridging")
                             /\ pc[q] = "bridging" => task'[q] = task[q]
  PROVE  BridgeInv' /\ GivenInv' /\ StrayOnlyAfterRestart'
<1>1. BridgeInv'
  <2>1. ASSUME NEW id \in DOMAIN tasks', tasks'[id].status = "running"
        PROVE  \E q \in Requests : pc'[q] = "bridging" /\ task'[q] = id
    <3>1. PICK q \in Requests : pc[q] = "bridging" /\ task[q] = id
          BY <2>1 DEF BridgeInv
    <3> QED BY <3>1
  <2> QED BY <2>1 DEF BridgeInv
<1> QED BY <1>1 DEF GivenInv, StrayOnlyAfterRestart

LEMMA DieKeeps == Die => BridgeInv' /\ GivenInv' /\ StrayOnlyAfterRestart' /\ SteadyInv'
BY DEF Die, BridgeInv, GivenInv, StrayOnlyAfterRestart, SteadyInv

\* What an answer does to the request, and that it does it to no other.
LEMMA AnswerStep ==
  ASSUME TypeOK, NEW r \in Requests, Answer(r)
  PROVE  /\ pc'[r] = "idle" /\ ~steady'[r]
         /\ \A q \in Requests : q # r =>
              /\ pc'[q] = pc[q] /\ op'[q] = op[q] /\ target'[q] = target[q]
              /\ seen'[q] = seen[q] /\ task'[q] = task[q]
              /\ steady'[q] = steady[q] /\ lost'[q] = lost[q]
BY DEF TypeOK, Answer, Go

LEMMA TasksStep ==
  TypeOK /\ RoomInv /\ BridgeInv /\ GivenInv /\ StrayOnlyAfterRestart /\ [Next]_vars
    => BridgeInv' /\ GivenInv' /\ StrayOnlyAfterRestart'
<1> DEFINE Kept == BridgeInv' /\ GivenInv' /\ StrayOnlyAfterRestart'
<1> SUFFICES ASSUME TypeOK, RoomInv, BridgeInv, GivenInv, StrayOnlyAfterRestart, [Next]_vars
             PROVE  Kept
    OBVIOUS
<1> HIDE DEF Kept
<1>1. ASSUME NEW r \in Requests, NEW s \in Sessions, Message(r, s) PROVE Kept
  <2>1. pc[r] = "idle" /\ given' = given /\ old' = old
        BY <1>1 DEF Message, Arrive
  <2>2. CASE s \in registry
    <3>1. Begin(r)
          BY <1>1, <2>2 DEF Message
    <3>2. Len(tasks) + Cardinality(Pending) < MaxTasks
          BY <1>1 DEF Message, Room, Pending
    <3>3. Len(tasks) + 1 <= MaxTasks
          BY <3>2, PendingFinite, TaskAssumption DEF TypeOK
    <3> QED BY <2>1, <3>1, <3>3, BeginStep DEF Kept
  <2>3. CASE s \notin registry
        BY <1>1, <2>1, <2>3, StillStep DEF Kept, Message, Go, TypeOK
  <2> QED BY <2>2, <2>3
<1>2. ASSUME NEW r \in Requests, List(r) PROVE Kept
      BY <1>2, StillStep DEF Kept, List, Arrive, Go, TypeOK
<1>3. ASSUME NEW r \in Requests, NEW s \in Sessions, Spawn(r, s) PROVE Kept
      BY <1>3, StillStep DEF Kept, Spawn, Arrive, Go, TypeOK
<1>4. ASSUME NEW r \in Requests, Spawned(r) PROVE Kept
  <2>1. pc[r] = "spawning" /\ UNCHANGED <<tasks, given, old>>
        BY <1>4 DEF Spawned
  <2>2. CASE Go(r, "listing") /\ UNCHANGED task
        BY <2>1, <2>2, StillStep DEF Kept, Go, TypeOK
  <2>3. CASE Answer(r)
        BY <2>1, <2>3, StillStep, AnswerStep DEF Kept
  <2> QED BY <1>4, <2>2, <2>3 DEF Spawned
<1>5. ASSUME NEW r \in Requests, Read(r) PROVE Kept
      BY <1>5, StillStep DEF Kept, Read, Go, TypeOK
<1>6. ASSUME NEW r \in Requests, Listed(r) PROVE Kept
  <2>1. pc[r] = "listed" /\ given' = given /\ old' = old
        BY <1>6 DEF Listed
  <2>2. CASE op[r] = "message" /\ target[r] \in seen[r]
    <3>1. Begin(r) /\ op' = op
          BY <1>6, <2>2 DEF Listed
    <3>2. r \in Pending /\ Pending' = Pending \ {r}
          BY <2>1, <2>2, <3>1 DEF Pending, Begin, Go, TypeOK
    <3>3. Len(tasks) + 1 + Cardinality(Pending') <= MaxTasks
          BY <3>2, RoomTaken
    <3>4. Cardinality(Pending') \in Nat
      <4>1. IsFiniteSet(Pending \ {r})
            BY PendingFinite, FS_RemoveElement
      <4> QED BY <3>2, <4>1, FS_CardinalityType
    <3>5. Len(tasks) + 1 <= MaxTasks
          BY <3>3, <3>4, TaskAssumption DEF TypeOK
    <3> QED BY <2>1, <3>1, <3>5, BeginStep DEF Kept
  <2>3. CASE ~(op[r] = "message" /\ target[r] \in seen[r])
    <3>1. Answer(r) /\ tasks' = tasks
          BY <1>6, <2>3 DEF Listed
    <3> QED BY <2>1, <3>1, StillStep, AnswerStep DEF Kept
  <2> QED BY <2>2, <2>3
<1>7. ASSUME NEW r \in Requests, Bridged(r) PROVE Kept
  <2> PICK ok \in BOOLEAN :
        IF Updates(task[r], Outcome(ok))
          THEN EndTask(task[r], ok, "bridge") /\ Answer(r) /\ given' = given \cup {task[r]}
               /\ UNCHANGED <<up, registry, live, old>>
          ELSE Die
      BY <1>7 DEF Bridged
  <2>1. CASE Updates(task[r], Outcome(ok))
    <3> DEFINE t == task[r]
    <3>1. pc[r] = "bridging" /\ t \in DOMAIN tasks /\ Outcome(ok) \in {"completed", "failed"}
          BY <1>7, <2>1, EndsRunning DEF Bridged
    <3>2. /\ DOMAIN tasks' = DOMAIN tasks
          /\ tasks'[t] = [status |-> Outcome(ok), by |-> "bridge"]
          /\ \A i \in DOMAIN tasks : i # t => tasks'[i] = tasks[i]
          BY <2>1, <3>1, EndTaskTypes
    <3>3. /\ pc'[r] = "idle"
          /\ \A q \in Requests : q # r => pc'[q] = pc[q] /\ task'[q] = task[q]
          BY <2>1, AnswerStep
    <3>4. given' = given \cup {t} /\ old' = old
          BY <2>1
    <3> HIDE DEF t
    <3>5. ASSUME NEW id \in DOMAIN tasks', tasks'[id].status = "running"
          PROVE  \E q \in Requests : pc'[q] = "bridging" /\ task'[q] = id
      <4>1. id # t
            BY <3>1, <3>2, <3>5
      <4>2. PICK q \in Requests : pc[q] = "bridging" /\ task[q] = id
            BY <3>2, <3>5, <4>1 DEF BridgeInv
      <4> QED BY <3>3, <4>1, <4>2 DEF t
    <3>6. BridgeInv'
          BY <3>2, <3>3, <3>5 DEF BridgeInv
    <3>7. GivenInv'
          BY <3>1, <3>2, <3>4 DEF GivenInv
    <3>8. StrayOnlyAfterRestart'
          BY <3>2, <3>4 DEF StrayOnlyAfterRestart
    <3> QED BY <3>6, <3>7, <3>8 DEF Kept
  <2>2. CASE ~Updates(task[r], Outcome(ok))
        BY <2>2, DieKeeps DEF Kept
  <2> QED BY <2>1, <2>2
<1>8. CASE Placeholder
  <2>1. /\ DOMAIN tasks' = DOMAIN tasks \cup {Len(tasks) + 1}
        /\ tasks'[Len(tasks) + 1] = [status |-> "queued", by |-> "none"]
        /\ \A i \in DOMAIN tasks : i # Len(tasks) + 1 /\ tasks'[i] = tasks[i]
        BY <1>8 DEF Placeholder, TypeOK
  <2>2. given' = given \cup {Len(tasks) + 1} /\ old' = old /\ UNCHANGED <<pc, task>>
        BY <1>8 DEF Placeholder, request
  <2>3. BridgeInv'
        BY <2>1, <2>2 DEF BridgeInv
  <2>4. GivenInv'
        BY <2>1, <2>2 DEF GivenInv
  <2>5. StrayOnlyAfterRestart'
        BY <2>1, <2>2 DEF StrayOnlyAfterRestart
  <2> QED BY <2>3, <2>4, <2>5 DEF Kept
<1>9. ASSUME NEW id \in Ids, Callback(id) PROVE Kept
  <2> PICK ok \in BOOLEAN :
        IF Updates(id, Outcome(ok))
          THEN EndTask(id, ok, "node")
               /\ UNCHANGED <<up, registry, live, request, given, old, history>>
          ELSE Die
      BY <1>9 DEF Callback
  <2>1. CASE Updates(id, Outcome(ok))
    <3>1. /\ id \in DOMAIN tasks /\ tasks[id].status = "running"
          /\ Outcome(ok) \in {"completed", "failed"}
          BY <2>1, EndsRunning
    <3>2. id \in old
          BY <1>9, <3>1 DEF Callback, GivenInv
    <3>3. /\ DOMAIN tasks' = DOMAIN tasks
          /\ tasks'[id] = [status |-> Outcome(ok), by |-> "node"]
          /\ \A i \in DOMAIN tasks : i # id => tasks'[i] = tasks[i]
          BY <2>1, <3>1, EndTaskTypes
    <3>4. UNCHANGED <<pc, task, given, old>>
          BY <2>1 DEF request
    <3>5. ASSUME NEW i \in DOMAIN tasks', tasks'[i].status = "running"
          PROVE  tasks[i].status = "running"
          BY <3>1, <3>3, <3>5
    <3>6. BridgeInv'
          BY <3>3, <3>4, <3>5 DEF BridgeInv
    <3>7. GivenInv'
          BY <3>3, <3>4, <3>5 DEF GivenInv
    <3>8. StrayOnlyAfterRestart'
          BY <3>2, <3>3, <3>4 DEF StrayOnlyAfterRestart
    <3> QED BY <3>6, <3>7, <3>8 DEF Kept
  <2>2. CASE ~Updates(id, Outcome(ok))
        BY <2>2, DieKeeps DEF Kept
  <2> QED BY <2>1, <2>2
<1>10. CASE Crash
      BY <1>10, DieKeeps DEF Crash, Kept
<1>11. CASE Restart \/ (\E s \in Sessions : SessionEnds(s)) \/ UNCHANGED vars
  <2>1. UNCHANGED <<tasks, pc, task, given, old>>
        BY <1>11 DEF Restart, SessionEnds, vars, request
  <2> QED BY <2>1, StillStep DEF Kept
<1> QED BY <1>1, <1>2, <1>3, <1>4, <1>5, <1>6, <1>7, <1>8, <1>9, <1>10, <1>11
        DEF Next, Request, Continue

-----------------------------------------------------------------------------
\* A request whose own variables a step leaves alone, as sessions only come.
LEMMA SteadyOthers ==
  ASSUME SteadyInv, live \subseteq live', NEW r \in Requests,
         \A q \in Requests : q # r =>
           /\ pc'[q] = pc[q] /\ op'[q] = op[q] /\ target'[q] = target[q]
           /\ seen'[q] = seen[q] /\ steady'[q] = steady[q] /\ lost'[q] = lost[q],
         steady'[r] => /\ target'[r] \in live'
                       /\ (op'[r] = "message" /\ pc'[r] = "listed") => lost'[r] \/ target'[r] \in seen'[r]
  PROVE  SteadyInv'
BY DEF SteadyInv

LEMMA SteadyStep == TypeOK /\ SteadyInv /\ [Next]_vars => SteadyInv'
<1> SUFFICES ASSUME TypeOK, SteadyInv, [Next]_vars PROVE SteadyInv'
    OBVIOUS
<1>1. ASSUME NEW r \in Requests, NEW s, NEW what, Arrive(r, what, s), pc'[r] # "listed",
             \E p : Go(r, p), UNCHANGED <<live, seen>>
      PROVE  SteadyInv'
  <2>1. \A q \in Requests : q # r =>
           /\ pc'[q] = pc[q] /\ op'[q] = op[q] /\ target'[q] = target[q]
           /\ seen'[q] = seen[q] /\ steady'[q] = steady[q] /\ lost'[q] = lost[q]
        BY <1>1 DEF Arrive, Go, TypeOK
  <2>2. steady'[r] => target'[r] \in live'
        BY <1>1 DEF Arrive, TypeOK
  <2> QED BY <1>1, <2>1, <2>2, SteadyOthers
<1>2. ASSUME NEW r \in Requests, NEW s \in Sessions, Message(r, s) PROVE SteadyInv'
  <2>1. (\E p : Go(r, p)) /\ pc'[r] # "listed"
        BY <1>2 DEF Message, Begin, Go, TypeOK
  <2> QED BY <1>1, <1>2, <2>1 DEF Message
<1>3. ASSUME NEW r \in Requests, List(r) PROVE SteadyInv'
  <2>1. (\E p : Go(r, p)) /\ pc'[r] # "listed"
        BY <1>3 DEF List, Go, TypeOK
  <2> QED BY <1>1, <1>3, <2>1 DEF List
<1>4. ASSUME NEW r \in Requests, NEW s \in Sessions, Spawn(r, s) PROVE SteadyInv'
  <2>1. (\E p : Go(r, p)) /\ pc'[r] # "listed"
        BY <1>4 DEF Spawn, Go, TypeOK
  <2> QED BY <1>1, <1>4, <2>1 DEF Spawn
<1>5. ASSUME NEW r \in Requests, Spawned(r) PROVE SteadyInv'
  <2>1. CASE /\ live' = live \cup {target[r]} /\ Go(r, "listing")
             /\ UNCHANGED <<op, target, seen, task, history>>
        BY <2>1 DEF SteadyInv, Go, history, TypeOK
  <2>2. CASE live' \in {live, live \cup {target[r]}} /\ Answer(r)
        BY <2>2, AnswerStep, SteadyOthers
  <2> QED BY <1>5, <2>1, <2>2 DEF Spawned
<1>6. ASSUME NEW r \in Requests, Read(r) PROVE SteadyInv'
  <2> PICK fails \in BOOLEAN :
        /\ seen' = [seen EXCEPT ![r] = IF fails THEN {} ELSE live]
        /\ lost' = [lost EXCEPT ![r] = fails]
      BY <1>6 DEF Read
  <2>1. lost'[r] = fails /\ (~fails => seen'[r] = live)
        BY DEF TypeOK
  <2>2. UNCHANGED <<live, op, target, steady>> /\ pc' = [pc EXCEPT ![r] = "listed"]
        BY <1>6 DEF Read, Go
  <2>3. steady'[r] => target'[r] \in live' /\ (lost'[r] \/ target'[r] \in seen'[r])
        BY <2>1, <2>2 DEF SteadyInv
  <2>4. \A q \in Requests : q # r =>
           /\ pc'[q] = pc[q] /\ op'[q] = op[q] /\ target'[q] = target[q]
           /\ seen'[q] = seen[q] /\ steady'[q] = steady[q] /\ lost'[q] = lost[q]
        BY <2>2 DEF TypeOK
  <2> QED BY <2>2, <2>3, <2>4, SteadyOthers
<1>7. ASSUME NEW r \in Requests, Listed(r) PROVE SteadyInv'
  <2>1. CASE op[r] = "message" /\ target[r] \in seen[r]
        BY <1>7, <2>1 DEF Listed, Begin, Go, history, SteadyInv, TypeOK
  <2>2. CASE ~(op[r] = "message" /\ target[r] \in seen[r])
    <3>1. Answer(r) /\ live' = live
          BY <1>7, <2>2 DEF Listed
    <3> QED BY <3>1, AnswerStep, SteadyOthers
  <2> QED BY <2>1, <2>2
<1>8. ASSUME NEW r \in Requests, Bridged(r) PROVE SteadyInv'
  <2>1. (Answer(r) /\ live' = live) \/ Die
        BY <1>8 DEF Bridged
  <2>2. CASE Answer(r) /\ live' = live
        BY <2>2, AnswerStep, SteadyOthers
  <2> QED BY <2>1, <2>2, DieKeeps
<1>9. ASSUME NEW s \in Sessions, SessionEnds(s) PROVE SteadyInv'
  <2>1. /\ live' = live \ {s}
        /\ steady' = [r \in Requests |-> steady[r] /\ target[r] # s]
        /\ UNCHANGED <<pc, op, target, seen, lost>>
        BY <1>9 DEF SessionEnds, request
  <2> QED BY <2>1 DEF SteadyInv
<1>10. ASSUME NEW id \in Ids, Callback(id) PROVE SteadyInv'
  <2>1. UNCHANGED <<live, request, history>> \/ Die
        BY <1>10 DEF Callback
  <2>2. CASE UNCHANGED <<live, request, history>>
        BY <2>2 DEF SteadyInv, request, history
  <2> QED BY <2>1, <2>2, DieKeeps
<1>11. CASE Crash
      BY <1>11, DieKeeps DEF Crash
<1>12. CASE Placeholder \/ Restart \/ UNCHANGED vars
      BY <1>12 DEF Placeholder, Restart, vars, SteadyInv, request, history
<1> QED BY <1>2, <1>3, <1>4, <1>5, <1>6, <1>7, <1>8, <1>9, <1>10, <1>11, <1>12
        DEF Next, Request, Continue

LEMMA InvStep == IInv /\ [Next]_vars => IInv'
BY TypeStep, TasksStep, SteadyStep DEF IInv

LEMMA Invariance == Spec => []IInv
BY InitInv, InvStep, PTL DEF Spec

-----------------------------------------------------------------------------
\* Every variable keeps its type, and the tasks stay within their bound.
THEOREM TypeCorrect == Spec => []TypeOK
<1>1. IInv => TypeOK
      BY DEF IInv
<1> QED BY <1>1, Invariance, PTL

\* A running task is exactly one request's to end (app.ts: POST agents/{id}/message).
THEOREM RunningTasksAreBridged == Spec => []RunningIsBridged
<1>1. ASSUME IInv PROVE RunningIsBridged
  <2> SUFFICES ASSUME NEW id \in DOMAIN tasks, tasks[id].status = "running"
               PROVE  Cardinality({r \in Requests : pc[r] = "bridging" /\ task[r] = id}) = 1
      BY DEF RunningIsBridged
  <2>1. PICK r \in Requests : pc[r] = "bridging" /\ task[r] = id
        BY <1>1 DEF IInv, BridgeInv
  <2>2. {q \in Requests : pc[q] = "bridging" /\ task[q] = id} = {r}
        BY <1>1, <2>1 DEF IInv, BridgeInv
  <2>3. Cardinality({r}) = 1
        BY FS_Singleton
  <2> QED BY <2>2, <2>3
<1> QED BY <1>1, Invariance, PTL

\* A node ends the task of a message only by an id that was given out before a restart.
THEOREM StraysFollowRestarts == Spec => []StrayOnlyAfterRestart
<1>1. IInv => StrayOnlyAfterRestart
      BY DEF IInv
<1> QED BY <1>1, Invariance, PTL

EndedStaysStep ==
  \A id \in DOMAIN tasks :
    (id \in DOMAIN tasks' /\ tasks[id].status \in Terminal) => tasks'[id] = tasks[id]

\* A task that has ended stays as it ended (controller.ts: VALID_TRANSITIONS).
THEOREM EndedTasksStay == Spec => EndedStays
<1>1. ASSUME IInv, [Next]_vars PROVE EndedStaysStep
  <2> SUFFICES ASSUME NEW id \in DOMAIN tasks, id \in DOMAIN tasks', tasks[id].status \in Terminal
               PROVE  tasks'[id] = tasks[id]
      BY DEF EndedStaysStep
  <2>1. tasks[id].status # "running" /\ TypeOK
        BY <1>1 DEF Terminal, IInv
  <2>2. ASSUME NEW r \in Requests, Begin(r) PROVE tasks'[id] = tasks[id]
        BY <2>1, <2>2 DEF Begin, TypeOK
  <2>3. ASSUME NEW i, NEW ok \in BOOLEAN, NEW who, Updates(i, Outcome(ok)), EndTask(i, ok, who)
        PROVE  tasks'[id] = tasks[id]
    <3>1. i # id
          BY <2>1, <2>3, EndsRunning
    <3> QED BY <2>1, <2>3, <3>1 DEF EndTask, TypeOK
  <2>4. CASE Die
        BY <2>4 DEF Die
  <2>5. CASE Placeholder
        BY <2>1, <2>5 DEF Placeholder, TypeOK
  <2>6. CASE tasks' = tasks
        BY <2>6
  <2>7. ASSUME NEW r \in Requests, Bridged(r) PROVE tasks'[id] = tasks[id]
        BY <2>3, <2>4, <2>7 DEF Bridged
  <2>8. ASSUME NEW i \in Ids, Callback(i) PROVE tasks'[id] = tasks[id]
        BY <2>3, <2>4, <2>8 DEF Callback
  <2>9. ASSUME NEW r \in Requests, Listed(r) PROVE tasks'[id] = tasks[id]
        BY <2>2, <2>6, <2>9 DEF Listed
  <2>10. ASSUME NEW r \in Requests, NEW s \in Sessions, Message(r, s) PROVE tasks'[id] = tasks[id]
        BY <2>2, <2>6, <2>10 DEF Message
  <2> QED BY <1>1, <2>4, <2>5, <2>6, <2>7, <2>8, <2>9, <2>10
          DEF Next, Request, Continue, List, Spawn, Spawned, Read, SessionEnds, Crash, Restart, vars
<1>2. IInv /\ [Next]_vars => [EndedStaysStep]_vars
      BY <1>1
<1> QED BY <1>2, Invariance, PTL DEF Spec, EndedStays, EndedStaysStep

RefusedStep ==
  \A r \in Requests :
    (op[r] = "message" /\ pc[r] = "listed" /\ pc'[r] = "idle" /\ up') => ~steady[r] \/ lost[r]

\* A message is refused only if its session was not there all the time, or its listing
\* failed (app.ts: the registry snapshot).
THEOREM RefusalsAreRight == Spec => RefusedOnlyIfGone
<1>1. ASSUME IInv, [Next]_vars PROVE RefusedStep
  <2> SUFFICES ASSUME NEW r \in Requests, op[r] = "message", pc[r] = "listed",
                      pc'[r] = "idle", up', steady[r]
               PROVE  lost[r]
      BY <1>1 DEF RefusedStep, IInv, TypeOK
  <2> USE DEF IInv
  <2>1. ~Die
        BY DEF Die
  <2>2. ASSUME NEW q \in Requests, NEW p, Go(q, p), pc[q] # "listed" PROVE FALSE
        BY <1>1, <2>2 DEF Go, TypeOK
  <2>3. ASSUME NEW q \in Requests, Answer(q), pc[q] # "listed" PROVE FALSE
        BY <1>1, <2>3, AnswerStep
  <2>4. pc' # pc
        OBVIOUS
  <2>5. ASSUME NEW q \in Requests, Listed(q) PROVE lost[r]
    <3>1. CASE op[q] = "message" /\ target[q] \in seen[q]
          BY <1>1, <2>5, <3>1 DEF Listed, Begin, Go, TypeOK
    <3>2. CASE ~(op[q] = "message" /\ target[q] \in seen[q])
      <4>1. q = r
            BY <1>1, <2>5, <3>2, AnswerStep DEF Listed
      <4> QED BY <1>1, <3>2, <4>1 DEF SteadyInv
    <3> QED BY <3>1, <3>2
  <2>6. ASSUME NEW q \in Requests, NEW s \in Sessions, Message(q, s) PROVE FALSE
        BY <2>2, <2>6 DEF Message, Arrive, Begin
  <2>7. ASSUME NEW q \in Requests, List(q) PROVE FALSE
        BY <2>2, <2>7 DEF List, Arrive
  <2>8. ASSUME NEW q \in Requests, NEW s \in Sessions, Spawn(q, s) PROVE FALSE
        BY <2>2, <2>8 DEF Spawn, Arrive
  <2>9. ASSUME NEW q \in Requests, Spawned(q) PROVE FALSE
        BY <2>2, <2>3, <2>9 DEF Spawned
  <2>10. ASSUME NEW q \in Requests, Read(q) PROVE FALSE
        BY <2>2, <2>10 DEF Read
  <2>11. ASSUME NEW q \in Requests, Bridged(q) PROVE FALSE
        BY <2>1, <2>3, <2>11 DEF Bridged
  <2>12. ASSUME NEW id \in Ids, Callback(id) PROVE FALSE
        BY <2>1, <2>4, <2>12 DEF Callback, request
  <2>13. ~Crash /\ ~Placeholder /\ ~Restart /\ ~UNCHANGED vars /\ \A s \in Sessions : ~SessionEnds(s)
        BY <2>1, <2>4 DEF Crash, Placeholder, Restart, SessionEnds, vars, request
  <2> QED BY <1>1, <2>5, <2>6, <2>7, <2>8, <2>9, <2>10, <2>11, <2>12, <2>13
          DEF Next, Request, Continue
<1>2. IInv /\ [Next]_vars => [RefusedStep]_vars
      BY <1>1
<1> QED BY <1>2, Invariance, PTL DEF Spec, RefusedOnlyIfGone, RefusedStep
=============================================================================
