---------------------------- MODULE CronService ----------------------------
(***************************************************************************)
(* The cron service of TriMC (src/cron/service.ts): jobs kept in a JSON    *)
(* file, changed and run by HTTP requests (src/cron/routes.ts) and run by  *)
(* the scheduling loop, in one process that may die and be started again.  *)
(*                                                                         *)
(* The file and the loop are agent-core's (loadJobStore, saveJobStore,     *)
(* JobExecutor), modelled from how service.ts uses them: a load gives the  *)
(* one object the process caches, a turn of the event loop changes it, a   *)
(* save writes it out later, whole and in order.  What is in the file when *)
(* the process dies is what the next one starts from.                      *)
(*                                                                         *)
(* A call is one turn from its load to its save, a turn when the save is   *)
(* done, and for a run a third when the command has ended.                 *)
(***************************************************************************)
EXTENDS Naturals, FiniteSets

CONSTANTS
  Requests,     \* HTTP requests in flight at the same time
  Jobs,         \* job ids; addJob makes a new one each time
  Threshold,    \* DEGRADED_THRESHOLD: where consecutiveErrors stops mattering
  MaxCrashes    \* bound: times the process dies

ASSUME CronAssumption ==
  /\ Threshold \in Nat /\ Threshold > 0
  /\ MaxCrashes \in Nat
  /\ "executor" \notin Requests

VARIABLES
  mem,      \* the job store as the process holds it
  disk,     \* the file
  up,       \* how far the process has come
  pc,       \* where each request and the executor are
  op,       \* what each is doing
  on,       \* the job it is doing it to
  used,     \* ids addJob has given out
  gone,     \* history: jobs whose removal was answered
  hasty,    \* history: this process served a request before start() had returned
  crashes   \* number of times the process died

calls == <<pc, op, on>>
vars  == <<mem, disk, up, calls, used, gone, hasty, crashes>>

Actors == Requests \cup {"executor"}
Phases == {"down", "listening", "recovering", "started", "stopped"}
Points == {"idle", "save", "mark", "handler"}
Ops    == {"none", "add", "update", "remove", "run"}

\* enabled "none" is an absent job; mark: runningAtMs is null or not; errors:
\* consecutiveErrors up to the threshold.
Enabled == {"none", "on", "off"}
Marks   == {"idle", "running"}
Counts  == 0..Threshold
Records == [enabled : Enabled, mark : Marks, errors : Counts]
Stores  == [Jobs -> Records]
NoJob   == [enabled |-> "none", mark |-> "idle", errors |-> 0]

Here(j)    == mem[j].enabled # "none"
Marked(j)  == Here(j) /\ mem[j].mark = "running"

\* Runs of job j: from the turn that marks it to the turn that clears the mark.
Running(c) == pc[c] \in {"mark", "handler"}
RunsOf(j)  == {c \in Actors : Running(c) /\ on[c] = j}

Init ==
  /\ mem = [j \in Jobs |-> NoJob]
  /\ disk = mem
  /\ up = "down"
  /\ pc = [c \in Actors |-> "idle"]
  /\ op = [c \in Actors |-> "none"]
  /\ on = [c \in Actors |-> "none"]
  /\ used = {} /\ gone = {} /\ hasty = FALSE
  /\ crashes = 0

---------------------------------------------------------------------------
\* server.listen, then cronService.start(): loads the store and clears the marks a
\* dead process left, saves if there were any, and starts the executor.
Boot ==
  /\ up = "down"
  /\ up' = "listening"
  /\ mem' = disk
  /\ UNCHANGED <<disk, calls, used, gone, hasty, crashes>>

Recover ==
  /\ up = "listening"
  /\ up' = IF \E j \in Jobs : Marked(j) THEN "recovering" ELSE "started"
  /\ mem' = [j \in Jobs |-> [mem[j] EXCEPT !.mark = "idle"]]
  /\ UNCHANGED <<disk, calls, used, gone, hasty, crashes>>

Recovered ==
  /\ up = "recovering"
  /\ up' = "started"
  /\ disk' = mem
  /\ UNCHANGED <<mem, calls, used, gone, hasty, crashes>>

\* stop(): the executor and the server take on nothing new; the process ends when
\* requests are answered, and does not wait for the executor.
Stop ==
  /\ up = "started"
  /\ up' = "stopped"
  /\ UNCHANGED <<mem, disk, calls, used, gone, hasty, crashes>>

\* The process ends, and the commands it runs with it.
End ==
  /\ up' = "down"
  /\ pc' = [c \in Actors |-> "idle"]
  /\ op' = [c \in Actors |-> "none"]
  /\ on' = [c \in Actors |-> "none"]
  /\ hasty' = FALSE
  /\ UNCHANGED <<mem, disk, used, gone>>

Exit ==
  /\ up = "stopped" /\ \A c \in Requests : pc[c] = "idle"
  /\ End
  /\ UNCHANGED crashes

\* Killed, or a save fails in a route or in start(): nothing catches what they throw.
Crash ==
  /\ up # "down"
  /\ crashes < MaxCrashes
  /\ crashes' = crashes + 1
  /\ End

---------------------------------------------------------------------------
\* Routes answer as soon as the server listens.
Serving == up \in {"listening", "recovering", "started"}

\* The turn of a call that changes job j and starts to save.
Turn(c, what, j, job, next) ==
  /\ pc[c] = "idle"
  /\ mem' = [mem EXCEPT ![j] = job]
  /\ pc' = [pc EXCEPT ![c] = next]
  /\ op' = [op EXCEPT ![c] = what]
  /\ on' = [on EXCEPT ![c] = j]
  /\ hasty' = (hasty \/ up # "started")
  /\ UNCHANGED <<disk, up, gone, crashes>>

AddJob(c, j) ==
  /\ Serving
  /\ j \notin used
  /\ used' = used \cup {j}
  /\ \E e \in {"on", "off"} : Turn(c, "add", j, [NoJob EXCEPT !.enabled = e], "save")

UpdateJobUnsaved(c, j) ==  \* mutant: the answer does not wait for a save
  /\ Serving
  /\ Here(j) /\ pc[c] = "idle"
  /\ \E e \in {"on", "off"} : mem' = [mem EXCEPT ![j].enabled = e]
  /\ hasty' = (hasty \/ up # "started")
  /\ UNCHANGED <<disk, up, calls, used, gone, crashes>>

UpdateJob(c, j) ==
  /\ Serving
  /\ Here(j)
  /\ \E e \in {"on", "off"} : Turn(c, "update", j, [mem[j] EXCEPT !.enabled = e], "save")
  /\ UNCHANGED used

RemoveJob(c, j) ==
  /\ Serving
  /\ Here(j)
  /\ Turn(c, "remove", j, NoJob, "save")
  /\ UNCHANGED used

RunJobForced(c, j) ==  \* mutant: force overrides every guard
  /\ Serving
  /\ \E force \in BOOLEAN :
       Here(j) /\ (force \/ (mem[j].enabled = "on" /\ mem[j].mark = "idle"))
  /\ Turn(c, "run", j, [mem[j] EXCEPT !.mark = "running"], "mark")
  /\ UNCHANGED used

\* runJob; with force a disabled job runs too, a running one never.
RunJob(c, j) ==
  /\ Serving
  /\ \E force \in BOOLEAN : Here(j) /\ (force \/ mem[j].enabled = "on")
  /\ mem[j].mark = "idle"
  /\ Turn(c, "run", j, [mem[j] EXCEPT !.mark = "running"], "mark")
  /\ UNCHANGED used

\* The executor runs a due job, by the same protocol.
Tick(j) ==
  /\ up = "started"
  /\ mem[j].enabled = "on" /\ mem[j].mark = "idle"
  /\ Turn("executor", "run", j, [mem[j] EXCEPT !.mark = "running"], "mark")
  /\ UNCHANGED used

---------------------------------------------------------------------------
Return(c) ==
  /\ pc' = [pc EXCEPT ![c] = "idle"]
  /\ op' = [op EXCEPT ![c] = "none"]
  /\ on' = [on EXCEPT ![c] = "none"]

\* The save of a call is done, and the call answered.
Save(c) ==
  /\ pc[c] = "save"
  /\ disk' = mem
  /\ gone' = IF op[c] = "remove" THEN gone \cup {on[c]} ELSE gone
  /\ Return(c)
  /\ UNCHANGED <<mem, up, used, hasty, crashes>>

\* The save of a mark is done, and the command started.
Start(c) ==
  /\ pc[c] = "mark"
  /\ disk' = mem
  /\ pc' = [pc EXCEPT ![c] = "handler"]
  /\ UNCHANGED <<mem, up, op, on, used, gone, hasty, crashes>>

\* The command has ended and the store is loaded afresh: what a run leaves behind
\* is added to the job as it is now, and to nothing if the job was removed.
Least(a, b) == IF a < b THEN a ELSE b
EndedIfOk(job, ok) ==  \* mutant: a failed run leaves its mark
  [job EXCEPT !.mark = IF ok THEN "idle" ELSE @,
              !.errors = IF ok THEN 0 ELSE Least(@ + 1, Threshold)]
EndedAsBegun(job, ok) ==  \* mutant: the job is stored as it was when the run began
  [enabled |-> "on", mark |-> "idle",
   errors |-> IF ok THEN 0 ELSE Least(job.errors + 1, Threshold)]
Ended(job, ok) ==
  [job EXCEPT !.mark = "idle",
              !.errors = IF ok THEN 0 ELSE Least(@ + 1, Threshold)]

FinishUnchecked(c) ==  \* mutant: the job is stored whether it is still there or not
  /\ pc[c] = "handler"
  /\ \E ok \in BOOLEAN :
       mem' = [mem EXCEPT ![on[c]] = [Ended(@, ok) EXCEPT !.enabled = "on"]]
  /\ pc' = [pc EXCEPT ![c] = "save"]
  /\ UNCHANGED <<disk, up, op, on, used, gone, hasty, crashes>>

Finish(c) ==
  /\ pc[c] = "handler"
  /\ IF Here(on[c])
       THEN /\ \E ok \in BOOLEAN : mem' = [mem EXCEPT ![on[c]] = Ended(@, ok)]
            /\ pc' = [pc EXCEPT ![c] = "save"]
            /\ UNCHANGED <<op, on>>
       ELSE Return(c) /\ UNCHANGED mem
  /\ UNCHANGED <<disk, up, used, gone, hasty, crashes>>

---------------------------------------------------------------------------
Request(c) == \E j \in Jobs : AddJob(c, j) \/ UpdateJob(c, j) \/ RemoveJob(c, j) \/ RunJob(c, j)
Begin      == (\E c \in Requests : Request(c)) \/ (\E j \in Jobs : Tick(j))
Continue(c) == Save(c) \/ Start(c) \/ Finish(c)
Startup    == Boot \/ Recover \/ Recovered

Next == Begin \/ (\E c \in Actors : Continue(c)) \/ Startup \/ Stop \/ Exit \/ Crash

Spec == Init /\ [][Next]_vars

\* systemd starts the process again; saves end, and so do commands, which are
\* killed after their timeout.
FairSpec == Spec /\ WF_vars(Startup) /\ \A c \in Actors : WF_vars(Continue(c))

---------------------------------------------------------------------------
\* Every variable keeps its type.
TypeOK ==
  /\ mem \in Stores /\ disk \in Stores
  /\ up \in Phases
  /\ pc \in [Actors -> Points] /\ op \in [Actors -> Ops]
  /\ on \in [Actors -> Jobs \cup {"none"}]
  /\ used \subseteq Jobs /\ gone \subseteq Jobs /\ hasty \in BOOLEAN
  /\ crashes \in 0..MaxCrashes

\* Never two runs of a job at a time, forced or scheduled, before or after a restart
\* (runJob: the single-instance guard), in a process that served no request before
\* its start() was done.  In one that did, the recovery of marks may take the mark of
\* a live run, and the job be run a second time.
SingleInstance == ~hasty => \A j \in Jobs : Cardinality(RunsOf(j)) <= 1

\* In such a process, once start() is done, a job is marked running exactly while it
\* runs: recovery and the ends of runs leave no mark behind, and take none away too
\* early.
MarkedIffRunning ==
  (up = "started" /\ ~hasty) => \A j \in Jobs : Here(j) => (Marked(j) <=> RunsOf(j) # {})

\* A removed job stays removed: the end of a run that was under way, another call's
\* save or a restart does not bring it back.
RemovedStays == \A j \in gone : ~Here(j) /\ disk[j].enabled = "none"

\* What was answered survives the process: in a process that is not clearing marks the
\* file says of a job what the process does, unless a call or a run on that very job
\* still waits for its save, whatever other calls changed in the shared store meanwhile
\* (each saveJobs is awaited before the answer).
AnsweredKept ==
  up \notin {"down", "recovering"} =>
    \A j \in Jobs :
      disk[j] = mem[j] \/ \E c \in Actors : on[c] = j /\ pc[c] \in {"save", "mark"}

\* Whether a job is enabled is changed by an update only: the end of a run that
\* began before the update does not undo it.
Kept ==
  \A j \in Jobs :
    (Here(j) /\ Here(j)' /\ mem[j].enabled # mem'[j].enabled) =>
       (up = "down" \/ \E c \in Requests : UpdateJob(c, j))
EnabledKept == [][Kept]_vars

\* No job stays marked as running for ever.
NeverStuck == \A j \in Jobs : []<>(~Marked(j))
=============================================================================
