------------------------- MODULE CronServiceProofs -------------------------
(***************************************************************************)
(* Proofs about CronService, for any number of requests, jobs and crashes. *)
(*                                                                         *)
(*   TypeCorrect        every variable keeps its type                      *)
(*   RemovedJobsStay    a removed job never comes back                     *)
(*   EnabledOnlyUpdated only an update changes whether a job is enabled    *)
(*   OneRunAtATime      no two runs of a job, in a process that served no  *)
(*                      request before its start() was done                *)
(*   MarksTellTheRuns   in such a process a job is marked while it runs    *)
(*   AnswersAreKept     what was answered is in the file                   *)
(***************************************************************************)
EXTENDS CronService, FiniteSetTheorems, TLAPS

\* A call under way has a job; a run is of op "run"; only a save ends a removal.
CallInv ==
  \A c \in Actors : pc[c] # "idle" =>
     /\ on[c] \in used
     /\ Running(c) => op[c] = "run"
TypeInv == TypeOK /\ CallInv

\* Every id in the store, in the file or removed was given out; a removed job is
\* in neither, and one whose removal is being saved is not in the store.  Nothing is
\* under way in a dead process.
RemovalInv ==
  /\ up = "down" => \A c \in Actors : pc[c] = "idle"
  /\ \A j \in Jobs : (mem[j].enabled # "none" \/ disk[j].enabled # "none") => j \in used
  /\ \A j \in gone : j \in used /\ mem[j].enabled = "none" /\ disk[j].enabled = "none"
  /\ \A c \in Actors : (pc[c] = "save" /\ op[c] = "remove") => mem[on[c]].enabled = "none"

\* In a process no request of which came early: nothing is under way before start() is done, and the
\* mark of a job tells its one run.
Asleep == up \in {"down", "listening", "recovering"}
QuietInv == (Asleep /\ ~hasty) => \A c \in Actors : pc[c] = "idle"
AloneInv == ~hasty => \A c, d \in Actors : (Running(c) /\ Running(d) /\ on[c] = on[d]) => c = d
MarkInv ==
  (up \notin {"down", "listening"} /\ ~hasty) =>
    \A j \in Jobs : mem[j].enabled # "none" =>
      (mem[j].mark = "running" <=> \E c \in Actors : Running(c) /\ on[c] = j)
RunInv == QuietInv /\ AloneInv /\ MarkInv

---------------------------------------------------------------------------
\* What the shared part of the calls does to the type invariant.
LEMMA TurnType ==
  ASSUME TypeInv, NEW c \in Actors, NEW what \in Ops, NEW j \in Jobs, NEW job \in Records,
         NEW next \in {"save", "mark"}, next = "mark" => what = "run",
         Turn(c, what, j, job, next), used' \in SUBSET Jobs, used \subseteq used', j \in used'
  PROVE  TypeInv'
<1> USE DEF TypeInv, TypeOK, Turn, Stores
<1>1. TypeOK'
  BY DEF Points
<1>2. CallInv'
  <2> SUFFICES ASSUME NEW d \in Actors, (pc[d] # "idle")'
               PROVE (on[d] \in used /\ (Running(d) => op[d] = "run"))'
    BY DEF CallInv
  <2>1. CASE d = c
    BY <2>1 DEF Running
  <2>2. CASE d # c
    BY <2>2 DEF Running, CallInv
  <2> QED BY <2>1, <2>2
<1> QED BY <1>1, <1>2

\* The end of a run leaves a job record.
LEMMA EndedType ==
  ASSUME NEW job \in Records, NEW ok \in BOOLEAN
  PROVE  /\ Ended(job, ok) \in Records
         /\ Ended(job, ok).enabled = job.enabled
         /\ Ended(job, ok).mark = "idle"
<1>1. job.errors + 1 \in Nat /\ Threshold \in Nat
  BY CronAssumption DEF Records, Counts
<1>2. Least(job.errors + 1, Threshold) \in Counts /\ 0 \in Counts
  BY <1>1 DEF Least, Counts
<1>3. (IF ok THEN 0 ELSE Least(job.errors + 1, Threshold)) \in Counts
  BY <1>2
<1> HIDE DEF Counts
<1> QED BY <1>3 DEF Ended, Records, Marks

LEMMA NoJobType == NoJob \in Records
BY CronAssumption DEF NoJob, Records, Enabled, Marks, Counts

\* Every step keeps the types.
LEMMA TypeNext ==
  ASSUME TypeInv, RemovalInv, [Next]_vars PROVE TypeInv'
<1> USE DEF TypeInv
<1>0. CASE UNCHANGED vars
  BY <1>0 DEF TypeOK, CallInv, Running, vars, calls
<1>1. ASSUME NEW c \in Requests, Request(c) PROVE TypeInv'
  <2> PICK j \in Jobs : AddJob(c, j) \/ UpdateJob(c, j) \/ RemoveJob(c, j) \/ RunJob(c, j)
    BY <1>1 DEF Request
  <2>0. c \in Actors /\ mem[j] \in Records /\ used \subseteq Jobs
    BY DEF Actors, TypeOK, Stores
  <2>1. CASE AddJob(c, j)
    <3> PICK e \in {"on", "off"} : Turn(c, "add", j, [NoJob EXCEPT !.enabled = e], "save")
      BY <2>1 DEF AddJob
    <3>1. [NoJob EXCEPT !.enabled = e] \in Records
      BY NoJobType DEF Records, Enabled
    <3>2. used' = used \cup {j}
      BY <2>1 DEF AddJob
    <3> QED BY <2>0, <3>1, <3>2, TurnType DEF Ops
  <2>2. CASE UpdateJob(c, j)
    <3> PICK e \in {"on", "off"} : Turn(c, "update", j, [mem[j] EXCEPT !.enabled = e], "save")
      BY <2>2 DEF UpdateJob
    <3>1. [mem[j] EXCEPT !.enabled = e] \in Records
      BY <2>0 DEF Records, Enabled
    <3>2. used' = used /\ j \in used
      BY <2>2 DEF UpdateJob, Here, RemovalInv
    <3> QED BY <2>0, <3>1, <3>2, TurnType DEF Ops
  <2>3. CASE RemoveJob(c, j)
    <3>1. used' = used /\ j \in used /\ Turn(c, "remove", j, NoJob, "save")
      BY <2>3 DEF RemoveJob, Here, RemovalInv
    <3> QED BY <2>0, <3>1, NoJobType, TurnType DEF Ops
  <2>4. CASE RunJob(c, j)
    <3>1. used' = used /\ j \in used /\ Turn(c, "run", j, [mem[j] EXCEPT !.mark = "running"], "mark")
      BY <2>4 DEF RunJob, Here, RemovalInv
    <3>2. [mem[j] EXCEPT !.mark = "running"] \in Records
      BY <2>0 DEF Records, Marks
    <3> QED BY <2>0, <3>1, <3>2, TurnType DEF Ops
  <2> QED BY <2>1, <2>2, <2>3, <2>4
<1>2. ASSUME NEW j \in Jobs, Tick(j) PROVE TypeInv'
  <2>0. "executor" \in Actors /\ mem[j] \in Records /\ used \subseteq Jobs
    BY DEF Actors, TypeOK, Stores
  <2>1. used' = used /\ j \in used
        /\ Turn("executor", "run", j, [mem[j] EXCEPT !.mark = "running"], "mark")
    BY <1>2 DEF Tick, RemovalInv
  <2>2. [mem[j] EXCEPT !.mark = "running"] \in Records
    BY <2>0 DEF Records, Marks
  <2> QED BY <2>0, <2>1, <2>2, TurnType DEF Ops
<1>3. ASSUME NEW c \in Actors, Save(c) PROVE TypeInv'
  <2>1. TypeOK'
    <3>1. gone' \subseteq Jobs
      BY <1>3 DEF Save, TypeOK, CallInv
    <3> QED BY <1>3, <3>1 DEF Save, Return, TypeOK, Points, Ops
  <2>2. CallInv'
    BY <1>3 DEF Save, Return, CallInv, TypeOK, Running
  <2> QED BY <2>1, <2>2
<1>4. ASSUME NEW c \in Actors, Start(c) PROVE TypeInv'
  BY <1>4 DEF Start, TypeOK, Points, CallInv, Running
<1>5. ASSUME NEW c \in Actors, Finish(c) PROVE TypeInv'
  <2>1. CASE Here(on[c])
    <3>1. on[c] \in Jobs /\ mem[on[c]] \in Records
      BY <1>5 DEF Finish, CallInv, TypeOK, Stores
    <3>2. PICK ok \in BOOLEAN : mem' = [mem EXCEPT ![on[c]] = Ended(mem[on[c]], ok)]
      BY <1>5, <2>1 DEF Finish
    <3>3. mem' \in Stores
      BY <3>1, <3>2, EndedType DEF TypeOK, Stores
    <3>4. pc' = [pc EXCEPT ![c] = "save"] /\ UNCHANGED <<op, on, disk, up, used, gone, hasty, crashes>>
      BY <1>5, <2>1 DEF Finish
    <3>5. TypeOK'
      BY <3>3, <3>4 DEF TypeOK, Points
    <3>6. CallInv'
      BY <1>5, <3>4 DEF Finish, TypeOK, CallInv, Running
    <3> QED BY <3>5, <3>6
  <2>2. CASE ~Here(on[c])
    BY <1>5, <2>2 DEF Finish, Return, TypeOK, Points, Ops, CallInv, Running
  <2> QED BY <2>1, <2>2
<1>6. CASE Boot
  BY <1>6 DEF Boot, calls, TypeOK, Phases, CallInv, Running
<1>7. CASE Recover
  <2>1. mem' \in Stores
    BY <1>7 DEF Recover, TypeOK, Stores, Records, Marks
  <2> QED BY <1>7, <2>1 DEF Recover, calls, TypeOK, Phases, CallInv, Running
<1>8. CASE Recovered
  BY <1>8 DEF Recovered, calls, TypeOK, Phases, CallInv, Running
<1>9. CASE Stop
  BY <1>9 DEF Stop, calls, TypeOK, Phases, CallInv, Running
<1>10. CASE Exit
  BY <1>10 DEF Exit, End, TypeOK, Phases, Points, Ops, CallInv, Running
<1>11. CASE Crash
  <2>1. crashes' \in 0..MaxCrashes
    BY <1>11, CronAssumption DEF Crash, TypeOK
  <2> QED BY <1>11, <2>1 DEF Crash, End, TypeOK, Phases, Points, Ops, CallInv, Running
<1> QED BY <1>0, <1>1, <1>2, <1>3, <1>4, <1>5, <1>6, <1>7, <1>8, <1>9, <1>10, <1>11
        DEF Next, Begin, Continue, Startup

---------------------------------------------------------------------------
\* Every step keeps removed jobs removed: only addJob makes a job, with a new id.
LEMMA RemovalNext ==
  ASSUME TypeInv, RemovalInv, [Next]_vars PROVE RemovalInv'
<1> USE DEF RemovalInv
<1>t. /\ mem \in [Jobs -> Records] /\ disk \in [Jobs -> Records]
      /\ pc \in [Actors -> Points] /\ op \in [Actors -> Ops] /\ on \in [Actors -> Jobs \cup {"none"}]
      /\ used \subseteq Jobs /\ gone \subseteq Jobs
      /\ \A c \in Actors : pc[c] # "idle" => on[c] \in used
      /\ \A j \in Jobs : mem[j].enabled \in Enabled
  BY DEF TypeInv, TypeOK, Stores, CallInv, Records
<1>0. CASE UNCHANGED vars
  BY <1>0 DEF vars, calls
<1>1. ASSUME NEW c \in Requests, Request(c) PROVE RemovalInv'
  <2> PICK j \in Jobs : AddJob(c, j) \/ UpdateJob(c, j) \/ RemoveJob(c, j) \/ RunJob(c, j)
    BY <1>1 DEF Request
  <2>0. c \in Actors
    BY DEF Actors
  <2>1. CASE AddJob(c, j)
    <3>1. /\ j \notin used /\ used' = used \cup {j} /\ up # "down" /\ UNCHANGED <<disk, gone, up>>
          /\ \A i \in Jobs : i # j => mem'[i] = mem[i]
          /\ \A d \in Actors : d # c => pc'[d] = pc[d] /\ op'[d] = op[d] /\ on'[d] = on[d]
          /\ op'[c] = "add"
      BY <2>0, <2>1, <1>t DEF AddJob, Turn, Serving
    <3> QED BY <3>1, <1>t, <2>0
  <2>2. CASE UpdateJob(c, j)
    <3>1. /\ mem[j].enabled # "none" /\ up # "down" /\ UNCHANGED <<disk, gone, used, up>>
          /\ \A i \in Jobs : i # j => mem'[i] = mem[i]
          /\ \A d \in Actors : d # c => pc'[d] = pc[d] /\ op'[d] = op[d] /\ on'[d] = on[d]
          /\ op'[c] = "update"
      BY <2>0, <2>2, <1>t DEF UpdateJob, Turn, Serving, Here
    <3> QED BY <3>1, <1>t, <2>0
  <2>3. CASE RemoveJob(c, j)
    <3>1. /\ mem[j].enabled # "none" /\ up # "down" /\ UNCHANGED <<disk, gone, used, up>>
          /\ mem'[j].enabled = "none"
          /\ \A i \in Jobs : i # j => mem'[i] = mem[i]
          /\ \A d \in Actors : d # c => pc'[d] = pc[d] /\ op'[d] = op[d] /\ on'[d] = on[d]
          /\ on'[c] = j
      BY <2>0, <2>3, <1>t DEF RemoveJob, Turn, Serving, Here, NoJob
    <3> QED BY <3>1, <1>t, <2>0
  <2>4. CASE RunJob(c, j)
    <3>1. /\ mem[j].enabled # "none" /\ up # "down" /\ UNCHANGED <<disk, gone, used, up>>
          /\ \A i \in Jobs : i # j => mem'[i] = mem[i]
          /\ \A d \in Actors : d # c => pc'[d] = pc[d] /\ op'[d] = op[d] /\ on'[d] = on[d]
          /\ op'[c] = "run"
      BY <2>0, <2>4, <1>t DEF RunJob, Turn, Serving, Here
    <3> QED BY <3>1, <1>t, <2>0
  <2> QED BY <2>1, <2>2, <2>3, <2>4
<1>2. ASSUME NEW j \in Jobs, Tick(j) PROVE RemovalInv'
  <2>0. "executor" \in Actors
    BY DEF Actors
  <2>1. /\ mem[j].enabled # "none" /\ up # "down" /\ UNCHANGED <<disk, gone, used, up>>
        /\ \A i \in Jobs : i # j => mem'[i] = mem[i]
        /\ \A d \in Actors : d # "executor" => pc'[d] = pc[d] /\ op'[d] = op[d] /\ on'[d] = on[d]
        /\ op'["executor"] = "run"
    BY <2>0, <1>2, <1>t DEF Tick, Turn
  <2> QED BY <2>1, <1>t, <2>0
<1>3. ASSUME NEW c \in Actors, Save(c) PROVE RemovalInv'
  <2>1. /\ pc[c] = "save" /\ disk' = mem /\ UNCHANGED <<mem, used, up>>
        /\ pc'[c] = "idle"
        /\ \A d \in Actors : d # c => pc'[d] = pc[d] /\ op'[d] = op[d] /\ on'[d] = on[d]
    BY <1>3, <1>t DEF Save, Return
  <2>2. \A j \in gone' : j \in gone \/ (op[c] = "remove" /\ j = on[c])
    BY <1>3 DEF Save
  <2>3. on[c] \in used
    BY <1>t, <2>1
  <2> QED BY <2>1, <2>2, <2>3, <1>t
<1>4. ASSUME NEW c \in Actors, Start(c) PROVE RemovalInv'
  BY <1>4, <1>t DEF Start
<1>5. ASSUME NEW c \in Actors, Finish(c) PROVE RemovalInv'
  <2>1. CASE Here(on[c])
    <3>1. on[c] \in Jobs /\ mem[on[c]] \in Records
      BY <1>5, <1>t DEF Finish
    <3>2. PICK ok \in BOOLEAN : mem' = [mem EXCEPT ![on[c]] = Ended(mem[on[c]], ok)]
      BY <1>5, <2>1 DEF Finish
    <3>3. \A i \in Jobs : mem'[i].enabled = mem[i].enabled
      BY <3>1, <3>2, <1>t, EndedType
    <3>4. pc' = [pc EXCEPT ![c] = "save"] /\ UNCHANGED <<op, on, disk, used, gone, up>>
      BY <1>5, <2>1 DEF Finish
    <3>5. op[c] = "run" /\ pc[c] # "idle"
      BY <1>5 DEF Finish, TypeInv, CallInv, Running
    <3> QED BY <3>3, <3>4, <3>5, <1>t
  <2>2. CASE ~Here(on[c])
    BY <1>5, <2>2, <1>t DEF Finish, Return
  <2> QED BY <2>1, <2>2
<1>6. CASE Boot
  BY <1>6, <1>t DEF Boot, calls
<1>7. CASE Recover
  <2>1. \A i \in Jobs : mem'[i].enabled = mem[i].enabled
    BY <1>7, <1>t DEF Recover, Records
  <2> QED BY <1>7, <2>1, <1>t DEF Recover, calls
<1>8. CASE Recovered
  BY <1>8, <1>t DEF Recovered, calls
<1>9. CASE Stop
  BY <1>9 DEF Stop, calls
<1>10. CASE Exit \/ Crash
  BY <1>10, <1>t DEF Exit, Crash, End
<1> QED BY <1>0, <1>1, <1>2, <1>3, <1>4, <1>5, <1>6, <1>7, <1>8, <1>9, <1>10
        DEF Next, Begin, Continue, Startup
---------------------------------------------------------------------------
\* What the run invariant needs of a step that begins a call by c: on a job j that
\* c alone may run, and that is marked if it does.
LEMMA TurnRuns ==
  ASSUME TypeInv, RunInv, up = "started", ~hasty, NEW c \in Actors, NEW j \in Jobs, NEW what, NEW job \in Records,
         NEW next \in {"save", "mark"}, Turn(c, what, j, job, next),
         next = "mark" => /\ \A d \in Actors : Running(d) => on[d] # j
                          /\ job.mark = "running",
         next = "save" => \/ job.enabled = "none"
                          \/ job.mark = mem[j].mark /\ mem[j].enabled # "none"
                          \/ job.mark = "idle" /\ \A d \in Actors : Running(d) => on[d] # j
  PROVE  RunInv'
<1>1. /\ pc[c] = "idle" /\ pc' = [pc EXCEPT ![c] = next] /\ on' = [on EXCEPT ![c] = j]
      /\ mem' = [mem EXCEPT ![j] = job] /\ up' = up /\ ~hasty'
  BY DEF Turn
<1>2. /\ mem \in [Jobs -> Records] /\ pc \in [Actors -> Points]
      /\ on \in [Actors -> Jobs \cup {"none"}]
  BY DEF TypeInv, TypeOK, Stores
<1>3. /\ pc'[c] = next /\ on'[c] = j
      /\ \A d \in Actors : d # c => pc'[d] = pc[d] /\ on'[d] = on[d]
      /\ mem'[j] = job
      /\ \A i \in Jobs : i # j => mem'[i] = mem[i]
  BY <1>1, <1>2
<1>4. QuietInv'
  BY <1>1 DEF QuietInv, Asleep
<1>5. AloneInv'
  BY <1>1, <1>3 DEF RunInv, AloneInv, Running
<1>6. MarkInv'
  <2> SUFFICES ASSUME NEW i \in Jobs, mem'[i].enabled # "none"
               PROVE  mem'[i].mark = "running" <=> \E d \in Actors : Running(d)' /\ on'[d] = i
    BY DEF MarkInv
  <2>0. mem[i].enabled # "none" =>
          (mem[i].mark = "running" <=> \E d \in Actors : Running(d) /\ on[d] = i)
    BY DEF RunInv, MarkInv, Asleep
  <2>1. CASE i # j
    BY <1>1, <1>3, <2>0, <2>1 DEF Running
  <2>2. CASE i = j /\ next = "mark"
    BY <1>3, <2>2 DEF Running
  <2>3. CASE i = j /\ next = "save"
    BY <1>1, <1>3, <2>0, <2>3 DEF Running
  <2> QED BY <2>1, <2>2, <2>3
<1> QED BY <1>4, <1>5, <1>6 DEF RunInv

\* Every step keeps at most one run per job, told by its mark.
LEMMA RunNext ==
  ASSUME TypeInv, RemovalInv, RunInv, [Next]_vars PROVE RunInv'
<1> SUFFICES ASSUME ~hasty' PROVE RunInv'
  BY DEF RunInv, QuietInv, AloneInv, MarkInv
<1>h. ~hasty'
  OBVIOUS
<1>t. /\ mem \in [Jobs -> Records]
      /\ pc \in [Actors -> Points] /\ on \in [Actors -> Jobs \cup {"none"}]
      /\ used \subseteq Jobs
      /\ \A c \in Actors : pc[c] # "idle" => on[c] \in used
  BY DEF TypeInv, TypeOK, Stores, CallInv
<1>m. (~Asleep /\ ~hasty) => \A j \in Jobs : mem[j].enabled # "none" =>
        (mem[j].mark = "running" <=> \E c \in Actors : Running(c) /\ on[c] = j)
  BY DEF RunInv, MarkInv, Asleep
<1>0. CASE UNCHANGED vars
  BY <1>0 DEF vars, calls, RunInv, QuietInv, Asleep, AloneInv, MarkInv, Running
<1>1. ASSUME NEW c \in Requests, Request(c) PROVE RunInv'
  <2> PICK j \in Jobs : AddJob(c, j) \/ UpdateJob(c, j) \/ RemoveJob(c, j) \/ RunJob(c, j)
    BY <1>1 DEF Request
  <2>0. c \in Actors /\ mem[j] \in Records
    BY <1>t DEF Actors
  <2>a. up = "started" /\ ~hasty /\ ~Asleep
    BY <1>h DEF AddJob, UpdateJob, RemoveJob, RunJob, Turn, Asleep
  <2>1. CASE AddJob(c, j)
    <3> PICK e \in {"on", "off"} : Turn(c, "add", j, [NoJob EXCEPT !.enabled = e], "save")
      BY <2>1 DEF AddJob
    <3>1. [NoJob EXCEPT !.enabled = e] \in Records /\ [NoJob EXCEPT !.enabled = e].mark = "idle"
      BY NoJobType DEF Records, Enabled, NoJob
    <3>2. \A d \in Actors : Running(d) => on[d] # j
      BY <2>1, <1>t DEF AddJob, Running
    <3> QED BY <2>0, <2>a, <3>1, <3>2, TurnRuns
  <2>2. CASE UpdateJob(c, j)
    <3> PICK e \in {"on", "off"} : Turn(c, "update", j, [mem[j] EXCEPT !.enabled = e], "save")
      BY <2>2 DEF UpdateJob
    <3>1. [mem[j] EXCEPT !.enabled = e] \in Records /\ [mem[j] EXCEPT !.enabled = e].mark = mem[j].mark
      BY <2>0 DEF Records, Enabled
    <3>2. mem[j].enabled # "none"
      BY <2>2 DEF UpdateJob, Here
    <3> QED BY <2>0, <2>a, <3>1, <3>2, TurnRuns
  <2>3. CASE RemoveJob(c, j)
    <3>1. Turn(c, "remove", j, NoJob, "save") /\ NoJob.enabled = "none"
      BY <2>3 DEF RemoveJob, NoJob
    <3> QED BY <2>0, <2>a, <3>1, NoJobType, TurnRuns
  <2>4. CASE RunJob(c, j)
    <3>1. Turn(c, "run", j, [mem[j] EXCEPT !.mark = "running"], "mark")
      BY <2>4 DEF RunJob
    <3>2. /\ [mem[j] EXCEPT !.mark = "running"] \in Records
          /\ [mem[j] EXCEPT !.mark = "running"].mark = "running"
      BY <2>0 DEF Records, Marks
    <3>3. \A d \in Actors : Running(d) => on[d] # j
      BY <2>4, <2>a, <1>m DEF RunJob, Here
    <3> QED BY <2>0, <2>a, <3>1, <3>2, <3>3, TurnRuns
  <2> QED BY <2>1, <2>2, <2>3, <2>4
<1>2. ASSUME NEW j \in Jobs, Tick(j) PROVE RunInv'
  <2>0. "executor" \in Actors /\ mem[j] \in Records
    BY <1>t DEF Actors
  <2>1. /\ up = "started" /\ ~hasty /\ ~Asleep
        /\ Turn("executor", "run", j, [mem[j] EXCEPT !.mark = "running"], "mark")
    BY <1>h, <1>2 DEF Tick, Turn, Asleep
  <2>2. /\ [mem[j] EXCEPT !.mark = "running"] \in Records
        /\ [mem[j] EXCEPT !.mark = "running"].mark = "running"
    BY <2>0 DEF Records, Marks
  <2>3. \A d \in Actors : Running(d) => on[d] # j
    BY <1>2, <2>1, <1>m DEF Tick
  <2> QED BY <2>0, <2>1, <2>2, <2>3, TurnRuns
<1>3. ASSUME NEW c \in Actors, Save(c) PROVE RunInv'
  BY <1>3, <1>h, <1>t DEF Save, Return, RunInv, QuietInv, Asleep, AloneInv, MarkInv, Running
<1>4. ASSUME NEW c \in Actors, Start(c) PROVE RunInv'
  <2>1. \A d \in Actors : Running(d)' <=> Running(d)
    BY <1>4, <1>t DEF Start, Running
  <2>2. ~Asleep /\ ~hasty
    BY <1>4, <1>h DEF Start, RunInv, QuietInv
  <2>3. UNCHANGED <<mem, up, on>>
    BY <1>4 DEF Start
  <2> QED BY <2>1, <2>2, <2>3 DEF RunInv, QuietInv, Asleep, AloneInv, MarkInv
<1>5. ASSUME NEW c \in Actors, Finish(c) PROVE RunInv'
  <2>1. pc[c] = "handler" /\ Running(c) /\ ~Asleep /\ ~hasty /\ up' = up /\ on[c] \in Jobs
    BY <1>5, <1>h, <1>t DEF Finish, Running, RunInv, QuietInv
  <2>2. \A d \in Actors : Running(d)' => Running(d) /\ d # c /\ on'[d] = on[d]
    BY <1>5, <1>t DEF Finish, Return, Running
  <2>3. \A d \in Actors : (Running(d) /\ d # c) => Running(d)' /\ on'[d] = on[d]
    BY <1>5, <1>t DEF Finish, Return, Running
  <2>4. QuietInv' /\ AloneInv'
    BY <2>1, <2>2 DEF RunInv, QuietInv, Asleep, AloneInv
  <2>5. \A d \in Actors : (Running(d) /\ d # c) => on[d] # on[c]
    BY <2>1 DEF RunInv, AloneInv
  <2>6. \A i \in Jobs : i # on[c] => mem'[i] = mem[i]
    BY <1>5, <1>t DEF Finish
  <2>7. mem'[on[c]].enabled # "none" => mem'[on[c]].mark = "idle"
    <3>1. CASE Here(on[c])
      <4>1. PICK ok \in BOOLEAN : mem' = [mem EXCEPT ![on[c]] = Ended(mem[on[c]], ok)]
        BY <1>5, <3>1 DEF Finish
      <4> QED BY <4>1, <2>1, <1>t, EndedType
    <3>2. CASE ~Here(on[c])
      BY <1>5, <3>2 DEF Finish, Here
    <3> QED BY <3>1, <3>2
  <2>8. MarkInv'
    <3> SUFFICES ASSUME NEW i \in Jobs, mem'[i].enabled # "none"
                 PROVE  mem'[i].mark = "running" <=> \E d \in Actors : Running(d)' /\ on'[d] = i
      BY DEF MarkInv
    <3>1. CASE i = on[c]
      BY <3>1, <2>2, <2>5, <2>7
    <3>2. CASE i # on[c]
      BY <3>2, <2>1, <2>2, <2>3, <2>6, <1>m
    <3> QED BY <3>1, <3>2
  <2> QED BY <2>4, <2>8 DEF RunInv
<1>6. CASE Boot
  BY <1>6 DEF Boot, calls, RunInv, QuietInv, Asleep, AloneInv, MarkInv, Running
<1>7. CASE Recover
  <2>1. \A i \in Jobs : mem'[i].mark = "idle"
    BY <1>7, <1>t DEF Recover, Records
  <2>2. \A c \in Actors : pc'[c] = "idle"
    BY <1>7 DEF Recover, calls, RunInv, QuietInv, Asleep
  <2> QED BY <2>1, <2>2 DEF RunInv, QuietInv, AloneInv, MarkInv, Running
<1>8. CASE Recovered
  BY <1>8 DEF Recovered, calls, RunInv, QuietInv, Asleep, AloneInv, MarkInv, Running
<1>9. CASE Stop
  BY <1>9 DEF Stop, calls, RunInv, QuietInv, Asleep, AloneInv, MarkInv, Running
<1>10. CASE Exit \/ Crash
  BY <1>10 DEF Exit, Crash, End, RunInv, QuietInv, Asleep, AloneInv, MarkInv, Running
<1> QED BY <1>0, <1>1, <1>2, <1>3, <1>4, <1>5, <1>6, <1>7, <1>8, <1>9, <1>10
        DEF Next, Begin, Continue, Startup
---------------------------------------------------------------------------
LEMMA InitInv == Init => TypeInv /\ RemovalInv /\ RunInv
<1> SUFFICES ASSUME Init PROVE TypeInv /\ RemovalInv /\ RunInv
  OBVIOUS
<1>1. mem \in Stores /\ disk \in Stores /\ \A j \in Jobs : mem[j].enabled = "none" /\ disk[j].enabled = "none"
  <2>1. \A j \in Jobs : mem[j] = NoJob /\ disk[j] = NoJob
    BY DEF Init
  <2> QED BY <2>1, NoJobType DEF Init, Stores, NoJob
<1>2. TypeInv
  <2>1. crashes \in 0..MaxCrashes
    BY CronAssumption DEF Init
  <2>2. /\ pc \in [Actors -> Points] /\ op \in [Actors -> Ops] /\ on \in [Actors -> Jobs \cup {"none"}]
        /\ used \in SUBSET Jobs /\ gone \in SUBSET used /\ up \in Phases
    BY DEF Init, Phases, Points, Ops
  <2>3. hasty \in BOOLEAN
    BY DEF Init
  <2>4. CallInv
    BY DEF Init, CallInv
  <2> QED BY <1>1, <2>1, <2>2, <2>3, <2>4 DEF TypeInv, TypeOK
<1>3. RemovalInv
  BY <1>1 DEF Init, RemovalInv
<1>4. RunInv
  BY DEF Init, RunInv, QuietInv, AloneInv, MarkInv, Running
<1> QED BY <1>2, <1>3, <1>4

LEMMA Invariant == Spec => [](TypeInv /\ RemovalInv)
<1>1. Init => TypeInv /\ RemovalInv
  BY InitInv
<1>2. TypeInv /\ RemovalInv /\ [Next]_vars => (TypeInv /\ RemovalInv)'
  BY TypeNext, RemovalNext
<1> QED BY <1>1, <1>2, PTL DEF Spec

LEMMA RunInvariant == Spec => []RunInv
<1>1. Init => RunInv
  BY InitInv
<1>2. TypeInv /\ RemovalInv /\ RunInv /\ [Next]_vars => RunInv'
  BY RunNext
<1> QED BY <1>1, <1>2, Invariant, PTL DEF Spec

\* Every variable keeps its type, whenever requests come.
THEOREM TypeCorrect == Spec => []TypeOK
<1>1. TypeInv => TypeOK
  BY DEF TypeInv
<1> QED BY <1>1, Invariant, PTL

\* A job whose removal was answered is in neither the store nor the file, whatever
\* run, save or restart was under way: removeJob and the fresh load at the end of a run.
THEOREM RemovedJobsStay == Spec => []RemovedStays
<1>1. TypeInv /\ RemovalInv => RemovedStays
  BY DEF RemovalInv, RemovedStays, Here, TypeInv, TypeOK
<1> QED BY <1>1, Invariant, PTL

\* The end of a run keeps whether its job is enabled, whatever was updated while it
\* ran: the fresh load in runJob.
LEMMA KeptStep ==
  ASSUME TypeInv, RemovalInv, [Next]_vars PROVE Kept \/ UNCHANGED vars
<1> SUFFICES ASSUME Next, NEW i \in Jobs, mem[i].enabled # "none", mem'[i].enabled # "none",
                    mem[i].enabled # mem'[i].enabled, up # "down"
             PROVE  \E c \in Requests : UpdateJob(c, i)
  BY DEF Kept, Here
<1>t. mem \in [Jobs -> Records] /\ i \in used
      /\ \A c \in Actors : pc[c] # "idle" => on[c] \in Jobs
  BY DEF TypeInv, TypeOK, Stores, CallInv, RemovalInv
<1>1. ASSUME NEW c \in Requests, Request(c) PROVE UpdateJob(c, i)
  <2> PICK j \in Jobs : AddJob(c, j) \/ UpdateJob(c, j) \/ RemoveJob(c, j) \/ RunJob(c, j)
    BY <1>1 DEF Request
  <2>1. CASE AddJob(c, j)
    BY <2>1, <1>t DEF AddJob, Turn
  <2>2. CASE UpdateJob(c, j)
    <3>1. i = j
      BY <2>2, <1>t DEF UpdateJob, Turn
    <3> QED BY <3>1, <2>2
  <2>3. CASE RemoveJob(c, j)
    BY <2>3, <1>t DEF RemoveJob, Turn, NoJob
  <2>4. CASE RunJob(c, j)
    BY <2>4, <1>t DEF RunJob, Turn, Records
  <2> QED BY <2>1, <2>2, <2>3, <2>4
<1>2. ASSUME NEW j \in Jobs, Tick(j) PROVE FALSE
  BY <1>2, <1>t DEF Tick, Turn, Records
<1>3. ASSUME NEW c \in Actors, Finish(c) PROVE FALSE
  <2>1. on[c] \in Jobs /\ mem[on[c]] \in Records
    BY <1>3, <1>t DEF Finish
  <2>2. CASE Here(on[c])
    <3>1. PICK ok \in BOOLEAN : mem' = [mem EXCEPT ![on[c]] = Ended(mem[on[c]], ok)]
      BY <1>3, <2>2 DEF Finish
    <3> QED BY <3>1, <2>1, <1>t, EndedType
  <2>3. CASE ~Here(on[c])
    BY <1>3, <2>3 DEF Finish
  <2> QED BY <2>2, <2>3
<1>4. CASE Recover
  BY <1>4, <1>t DEF Recover, Records
<1>5. CASE \/ Boot \/ Recovered \/ Stop \/ Exit \/ Crash \/ \E c \in Actors : Save(c) \/ Start(c)
  BY <1>5 DEF Boot, Recovered, Stop, Exit, Crash, End, Save, Start
<1> QED BY <1>1, <1>2, <1>3, <1>4, <1>5 DEF Next, Begin, Continue, Startup

THEOREM EnabledOnlyUpdated == Spec => EnabledKept
<1>1. TypeInv /\ RemovalInv /\ [Next]_vars => [Kept]_vars
  BY KeptStep
<1> QED BY <1>1, Invariant, PTL DEF Spec, EnabledKept

\* Never two runs of a job at a time, in a process that served no request before its
\* start() was done: the guard on runningAtMs in runJob and the recovery in start.
THEOREM OneRunAtATime == Spec => []SingleInstance
<1>1. RunInv => SingleInstance
  <2> SUFFICES ASSUME RunInv, ~hasty, NEW j \in Jobs PROVE Cardinality(RunsOf(j)) <= 1
    BY DEF SingleInstance
  <2>1. CASE RunsOf(j) = {}
    BY <2>1, FS_EmptySet
  <2>2. CASE RunsOf(j) # {}
    <3> PICK c \in RunsOf(j) : TRUE
      BY <2>2
    <3>1. RunsOf(j) = {c}
      BY DEF RunsOf, RunInv, AloneInv
    <3>2. Cardinality({c}) = 1
      BY FS_Singleton
    <3> QED BY <3>1, <3>2
  <2> QED BY <2>1, <2>2
<1> QED BY <1>1, RunInvariant, PTL

\* In such a process a job is marked running exactly while it runs, once start() is done.
THEOREM MarksTellTheRuns == Spec => []MarkedIffRunning
<1>1. RunInv => MarkedIffRunning
  BY DEF RunInv, MarkInv, MarkedIffRunning, Marked, Here, RunsOf
<1> QED BY <1>1, RunInvariant, PTL

---------------------------------------------------------------------------
(* What was answered *)

\* A job that is not there is not marked, in the store and in the file.
Unmarked(store) == \A j \in Jobs : store[j].enabled = "none" => store[j].mark = "idle"
StoreInv == Unmarked(mem) /\ Unmarked(disk) /\ AnsweredKept

\* To clear the mark of a job that has none changes nothing.
LEMMA ClearedAlready ==
  ASSUME NEW job \in Records, job.mark = "idle"
  PROVE  [job EXCEPT !.mark = "idle"] = job
<1>1. PICK e \in Enabled, m \in Marks, n \in Counts : job = [enabled |-> e, mark |-> m, errors |-> n]
  BY DEF Records
<1>2. job.mark = m
  BY <1>1
<1>3. [job EXCEPT !.mark = "idle"] = [enabled |-> e, mark |-> "idle", errors |-> n]
  BY <1>1
<1> QED BY <1>1, <1>2, <1>3

\* A step that begins a call on job j leaves that call's save to come.
LEMMA TurnStores ==
  ASSUME TypeInv, StoreInv, up # "down", NEW c \in Actors, NEW j \in Jobs, NEW what, NEW job \in Records,
         NEW next \in {"save", "mark"}, Turn(c, what, j, job, next),
         job.enabled = "none" => job.mark = "idle"
  PROVE  StoreInv'
<1>1. /\ mem \in [Jobs -> Records] /\ pc \in [Actors -> Points]
      /\ on \in [Actors -> Jobs \cup {"none"}]
  BY DEF TypeInv, TypeOK, Stores
<1>2. /\ pc[c] = "idle" /\ pc'[c] = next /\ on'[c] = j /\ mem'[j] = job
      /\ \A d \in Actors : d # c => pc'[d] = pc[d] /\ on'[d] = on[d]
      /\ \A i \in Jobs : i # j => mem'[i] = mem[i]
      /\ UNCHANGED <<disk, up>>
  BY <1>1 DEF Turn
<1>3. Unmarked(mem)' /\ Unmarked(disk)'
  BY <1>2 DEF StoreInv, Unmarked
<1>4. AnsweredKept'
  BY <1>2 DEF StoreInv, AnsweredKept
<1> QED BY <1>3, <1>4 DEF StoreInv

\* Every step keeps what was answered in the file.
LEMMA StoreNext ==
  ASSUME TypeInv, RemovalInv, StoreInv, [Next]_vars PROVE StoreInv'
<1>t. /\ mem \in [Jobs -> Records] /\ disk \in [Jobs -> Records]
      /\ pc \in [Actors -> Points] /\ on \in [Actors -> Jobs \cup {"none"}]
      /\ \A c \in Actors : pc[c] # "idle" => on[c] \in Jobs
  BY DEF TypeInv, TypeOK, Stores, CallInv
<1>0. CASE UNCHANGED vars
  BY <1>0 DEF vars, calls, StoreInv, Unmarked, AnsweredKept
<1>1. ASSUME NEW c \in Requests, Request(c) PROVE StoreInv'
  <2> PICK j \in Jobs : AddJob(c, j) \/ UpdateJob(c, j) \/ RemoveJob(c, j) \/ RunJob(c, j)
    BY <1>1 DEF Request
  <2>0. c \in Actors /\ mem[j] \in Records
    BY <1>t DEF Actors
  <2>a. up # "down"
    BY DEF AddJob, UpdateJob, RemoveJob, RunJob, Serving
  <2>1. CASE AddJob(c, j)
    <3> PICK e \in {"on", "off"} : Turn(c, "add", j, [NoJob EXCEPT !.enabled = e], "save")
      BY <2>1 DEF AddJob
    <3>1. [NoJob EXCEPT !.enabled = e] \in Records /\ [NoJob EXCEPT !.enabled = e].mark = "idle"
      BY NoJobType DEF Records, Enabled, NoJob
    <3> QED BY <2>0, <2>a, <3>1, TurnStores
  <2>2. CASE UpdateJob(c, j)
    <3> PICK e \in {"on", "off"} : Turn(c, "update", j, [mem[j] EXCEPT !.enabled = e], "save")
      BY <2>2 DEF UpdateJob
    <3>1. [mem[j] EXCEPT !.enabled = e] \in Records /\ [mem[j] EXCEPT !.enabled = e].enabled # "none"
      BY <2>0 DEF Records, Enabled
    <3> QED BY <2>0, <2>a, <3>1, TurnStores
  <2>3. CASE RemoveJob(c, j)
    <3>1. Turn(c, "remove", j, NoJob, "save") /\ NoJob.mark = "idle"
      BY <2>3 DEF RemoveJob, NoJob
    <3> QED BY <2>0, <2>a, <3>1, NoJobType, TurnStores
  <2>4. CASE RunJob(c, j)
    <3>1. Turn(c, "run", j, [mem[j] EXCEPT !.mark = "running"], "mark") /\ mem[j].enabled # "none"
      BY <2>4 DEF RunJob, Here
    <3>2. /\ [mem[j] EXCEPT !.mark = "running"] \in Records
          /\ [mem[j] EXCEPT !.mark = "running"].enabled # "none"
      BY <2>0, <3>1 DEF Records, Marks
    <3> QED BY <2>0, <2>a, <3>1, <3>2, TurnStores
  <2> QED BY <2>1, <2>2, <2>3, <2>4
<1>2. ASSUME NEW j \in Jobs, Tick(j) PROVE StoreInv'
  <2>0. "executor" \in Actors /\ mem[j] \in Records /\ up # "down"
    BY <1>2, <1>t DEF Actors, Tick
  <2>1. /\ Turn("executor", "run", j, [mem[j] EXCEPT !.mark = "running"], "mark")
        /\ mem[j].enabled # "none"
    BY <1>2 DEF Tick
  <2>2. /\ [mem[j] EXCEPT !.mark = "running"] \in Records
        /\ [mem[j] EXCEPT !.mark = "running"].enabled # "none"
    BY <2>0, <2>1 DEF Records, Marks
  <2> QED BY <2>0, <2>1, <2>2, TurnStores
<1>3. ASSUME NEW c \in Actors, Save(c) \/ Start(c) PROVE StoreInv'
  BY <1>3 DEF Save, Start, StoreInv, Unmarked, AnsweredKept
<1>4. ASSUME NEW c \in Actors, Finish(c) PROVE StoreInv'
  <2>0. pc[c] = "handler" /\ on[c] \in Jobs /\ mem[on[c]] \in Records /\ UNCHANGED <<disk, up>>
    BY <1>4, <1>t DEF Finish
  <2>1. CASE Here(on[c])
    <3>1. PICK ok \in BOOLEAN : mem' = [mem EXCEPT ![on[c]] = Ended(mem[on[c]], ok)]
      BY <1>4, <2>1 DEF Finish
    <3>2. /\ mem'[on[c]].mark = "idle"
          /\ \A i \in Jobs : i # on[c] => mem'[i] = mem[i]
      BY <2>0, <3>1, <1>t, EndedType
    <3>3. on' = on /\ pc'[c] = "save" /\ \A d \in Actors : d # c => pc'[d] = pc[d]
      BY <1>4, <2>1, <1>t DEF Finish
    <3> QED BY <2>0, <3>2, <3>3 DEF StoreInv, Unmarked, AnsweredKept
  <2>2. CASE ~Here(on[c])
    <3>1. mem' = mem /\ \A d \in Actors : d # c => pc'[d] = pc[d] /\ on'[d] = on[d]
      BY <1>4, <2>2, <1>t DEF Finish, Return
    <3> QED BY <2>0, <3>1 DEF StoreInv, Unmarked, AnsweredKept
  <2> QED BY <2>1, <2>2
<1>5. CASE Boot
  BY <1>5 DEF Boot, StoreInv, Unmarked, AnsweredKept
<1>6. CASE Recover
  <2>0. up = "listening" /\ UNCHANGED <<disk, pc, on>>
    BY <1>6 DEF Recover, calls
  <2>1. \A i \in Jobs : mem'[i] = [mem[i] EXCEPT !.mark = "idle"]
    BY <1>6 DEF Recover
  <2>2. \A i \in Jobs : mem'[i].mark = "idle"
    BY <2>1, <1>t DEF Records
  <2>3. Unmarked(mem)' /\ Unmarked(disk)'
    BY <2>0, <2>2 DEF StoreInv, Unmarked
  <2>4. CASE \E i \in Jobs : Marked(i)
    BY <1>6, <2>3, <2>4 DEF Recover, StoreInv, AnsweredKept
  <2>5. CASE ~\E i \in Jobs : Marked(i)
    <3>1. \A i \in Jobs : mem[i].mark = "idle"
      BY <1>t, <2>5 DEF Marked, Here, StoreInv, Unmarked, Records, Marks
    <3>2. \A i \in Jobs : mem'[i] = mem[i]
      BY <1>t, <2>1, <3>1, ClearedAlready
    <3>3. \A i \in Jobs : disk[i] = mem[i] \/ \E c \in Actors : on[c] = i /\ pc[c] \in {"save", "mark"}
      BY <2>0 DEF StoreInv, AnsweredKept
    <3>4. \A i \in Jobs : disk'[i] = mem'[i] \/ \E c \in Actors : on'[c] = i /\ pc'[c] \in {"save", "mark"}
      BY <2>0, <3>2, <3>3
    <3> QED BY <2>3, <3>4 DEF StoreInv, AnsweredKept
  <2> QED BY <2>4, <2>5
<1>7. CASE Recovered
  BY <1>7 DEF Recovered, StoreInv, Unmarked, AnsweredKept
<1>8. CASE Stop
  BY <1>8 DEF Stop, calls, StoreInv, Unmarked, AnsweredKept
<1>9. CASE Exit \/ Crash
  BY <1>9 DEF Exit, Crash, End, StoreInv, Unmarked, AnsweredKept
<1> QED BY <1>0, <1>1, <1>2, <1>3, <1>4, <1>5, <1>6, <1>7, <1>8, <1>9
        DEF Next, Begin, Continue, Startup

\* A change that was answered is in the file, for any number of calls and runs that
\* share the store, whenever requests come: should the process die, the next one
\* starts from it.
THEOREM AnswersAreKept == Spec => []AnsweredKept
<1>1. Init => StoreInv
  <2> SUFFICES ASSUME Init PROVE StoreInv
    OBVIOUS
  <2>1. disk = mem /\ up = "down" /\ \A j \in Jobs : mem[j] = NoJob
    BY DEF Init
  <2> QED BY <2>1 DEF StoreInv, Unmarked, AnsweredKept, NoJob
<1>2. TypeInv /\ RemovalInv /\ StoreInv /\ [Next]_vars => StoreInv'
  BY StoreNext
<1>3. StoreInv => AnsweredKept
  BY DEF StoreInv
<1> QED BY <1>1, <1>2, <1>3, Invariant, PTL DEF Spec
=============================================================================
