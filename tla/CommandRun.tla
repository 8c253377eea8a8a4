----------------------------- MODULE CommandRun -----------------------------
(***************************************************************************)
(* The command handler of the cron service (src/cron/command-handler.ts).  *)
(* A run replaces the week tokens, spawns a shell in a process group of its*)
(* own and waits for the first of three callbacks: the child's error, its  *)
(* close, which comes when it has exited and nobody holds its pipes any    *)
(* more, and the timeout, which kills the group.  Then a log is written and*)
(* the run has ended well or it throws.  One run at a time of one job, as  *)
(* the cron service sees to (module CronService, which takes what a run    *)
(* comes to as a choice).                                                  *)
(*                                                                         *)
(* The command may start processes that outlive its shell: they may keep   *)
(* its pipes, redirect their output, or leave the group with the pipes.    *)
(* The server may signal whatever it starts.                               *)
(***************************************************************************)
EXTENDS WeekMath

CONSTANTS
  Procs,  \* background processes of one command
  Days    \* bound: the days the model looks at

Never == Date(0, 0, 1)

ASSUME DaysAssumption == Days \subseteq Dates \ {Never}

VARIABLES
  today,
  ranOn,    \* the day of the last run
  shift,    \* its week tokens
  handler,  \* idle, running (until a callback settles the run) or writing the log
  shell,    \* the child
  code,     \* the child's exit code, if it has exited of itself
  procs,    \* the background processes
  unread,   \* something is in the pipes that no data event has brought yet
  result,   \* what the run was settled with
  told      \* what the cron service was told

system  == <<shell, code, procs, unread>>
vars    == <<today, ranOn, shift, handler, system, result, told>>

\* In the group with the pipes, in the group without them, out of it with them.
ProcStates == {"none", "piped", "quiet", "away", "gone"}
Group   == {p \in Procs : procs[p] \in {"piped", "quiet"}}
Holders == {p \in Procs : procs[p] \in {"piped", "away"}}

NoResult == [code |-> "none", timedOut |-> FALSE]

Init ==
  /\ today \in Days
  /\ ranOn = Never /\ shift = [from |-> 1, to |-> 1, start |-> Never]
  /\ handler = "idle"
  /\ shell = "none" /\ code = "none"
  /\ procs = [p \in Procs |-> "none"]
  /\ unread = FALSE
  /\ result = NoResult
  /\ told = "none"

---------------------------------------------------------------------------
\* A payload without a command or a directory is refused.
Refuse ==
  /\ handler = "idle"
  /\ told' = "failed"
  /\ UNCHANGED <<today, ranOn, shift, handler, system, result>>

\* The tokens are computed and the shell is spawned.  What an earlier command left
\* running is forgotten here.
Spawn(sh) ==
  /\ handler = "idle"
  /\ ranOn' = today
  /\ shift' = ComputeWeekShiftTokens(today)
  /\ shell' = sh /\ code' = "none"
  /\ procs' = [p \in Procs |-> "none"]
  /\ unread' = FALSE
  /\ result' = NoResult
  /\ told' = "none"
  /\ UNCHANGED today

Start == Spawn("alive") /\ handler' = "running"

\* No process was started: the error event comes before anything else can, and
\* settles the run without a code.
StartFails == Spawn("none") /\ handler' = "writing"

\* The first callback settles the run and takes the timer down; what it has read
\* by then is what goes into the log.
Settle(res) ==
  /\ handler = "running"
  /\ handler' = "writing"
  /\ result' = res
  /\ UNCHANGED <<today, ranOn, shift, told>>

CloseAtExit ==  \* mutant: the exit event instead of the close event
  /\ shell = "exited"
  /\ Settle([code |-> code, timedOut |-> FALSE])
  /\ UNCHANGED system

Close ==
  /\ shell = "exited" /\ Holders = {} /\ ~unread
  /\ Settle([code |-> code, timedOut |-> FALSE])
  /\ UNCHANGED system

TimeoutOfChild ==  \* mutant: the child is killed, not its group
  /\ Settle([code |-> "none", timedOut |-> TRUE])
  /\ shell' = "exited"
  /\ UNCHANGED <<code, procs, unread>>

TimeoutAwaitsClose ==  \* mutant: the kill is left to bring about the close event
  /\ handler = "running"
  /\ shell = "alive"
  /\ shell' = "exited"
  /\ procs' = [p \in Procs |-> IF p \in Group THEN "gone" ELSE procs[p]]
  /\ UNCHANGED <<today, ranOn, shift, handler, code, unread, result, told>>

Timeout ==
  /\ Settle([code |-> "none", timedOut |-> TRUE])
  /\ shell' = "exited"
  /\ procs' = [p \in Procs |-> IF p \in Group THEN "gone" ELSE procs[p]]
  /\ UNCHANGED <<code, unread>>

\* The log is written or it is not, which fails the run like anything else that
\* throws; then the result is judged.
WriteLog ==
  /\ handler = "writing"
  /\ handler' = "idle"
  /\ told' \in {"failed", IF result.timedOut \/ result.code # "zero" THEN "failed" ELSE "ok"}
  /\ UNCHANGED <<today, ranOn, shift, system, result>>

---------------------------------------------------------------------------
\* The command, its processes and its output, and the clock.
Command ==
  \/ /\ shell = "alive"
     /\ \/ /\ shell' = "exited" /\ code' \in {"zero", "other"}
           /\ UNCHANGED <<procs, unread>>
        \/ /\ \E p \in Procs, s \in {"piped", "quiet"} :
                procs[p] = "none" /\ procs' = [procs EXCEPT ![p] = s]
           /\ UNCHANGED <<shell, code, unread>>
  \/ /\ \E p \in Procs :
          \/ procs[p] = "piped" /\ procs' = [procs EXCEPT ![p] = "away"]
          \/ procs[p] \in {"piped", "quiet", "away"} /\ procs' = [procs EXCEPT ![p] = "gone"]
     /\ UNCHANGED <<shell, code, unread>>
  \/ /\ shell = "alive" \/ Holders # {}
     /\ unread' = TRUE
     /\ UNCHANGED <<shell, code, procs>>

Outside == Command /\ UNCHANGED <<today, ranOn, shift, handler, result, told>>

\* A data event.
Data ==
  /\ unread
  /\ unread' = FALSE
  /\ UNCHANGED <<today, ranOn, shift, handler, shell, code, procs, result, told>>

Midnight ==
  /\ handler = "idle"
  /\ AddDays(today, 1) \in Days
  /\ today' = AddDays(today, 1)
  /\ UNCHANGED <<ranOn, shift, handler, system, result, told>>

Next ==
  \/ Refuse \/ Start \/ StartFails \/ Close \/ Timeout \/ WriteLog
  \/ Outside \/ Data \/ Midnight

Spec == Init /\ [][Next]_vars

\* Timers fire and files are written or fail to be.
FairSpec == Spec /\ WF_vars(Timeout) /\ WF_vars(WriteLog)

---------------------------------------------------------------------------
\* Every variable keeps its type; weeks are those a year can have.
TypeOK ==
  /\ today \in Days
  /\ ranOn \in Days \cup {Never}
  /\ shift \in [from : 1..53, to : 1..53, start : Dates]
  /\ handler \in {"idle", "running", "writing"}
  /\ shell \in {"none", "alive", "exited"}
  /\ code \in {"none", "zero", "other"}
  /\ procs \in [Procs -> ProcStates]
  /\ unread \in BOOLEAN
  /\ result \in [code : {"none", "zero", "other"}, timedOut : BOOLEAN]
  /\ told \in {"none", "ok", "failed"}

\* A run that is told to have ended well has: its shell exited with 0, no process
\* has its pipes, and all they brought is in the log, however its processes end,
\* stay, leave the group or write (the close event, command-handler.ts:171).
OkIsWhole == told = "ok" => shell = "exited" /\ code = "zero" /\ Holders = {} /\ ~unread

\* A command that timed out leaves no process of its group behind, be its shell
\* there or long gone (command-handler.ts:96, "the whole process group dies").
NoneSurvives == result.timedOut => shell # "alive" /\ Group = {}

\* Runs of one week, from its Sunday to its Saturday, shift the same weeks, and the
\* first week of the next run's shift is the second one of this one's, at the turn
\* of every year (week-math.ts:7-12).
Window(d) == AddDays(d, -(d.wday % 7))
Chained ==
  ranOn # Never =>
    /\ Window(ranOn') = Window(ranOn) => shift' = shift
    /\ Window(ranOn') = AddDays(Window(ranOn), 7) =>
         shift'.from = shift.to /\ shift'.start = AddDays(shift.start, 7)
ShiftsChain == [][Chained]_vars

\* Every run ends: the timeout settles what neither exits nor lets go of the pipes,
\* and kills cannot reach (command-handler.ts:147).
Ends == handler # "idle" ~> handler = "idle"
=============================================================================
