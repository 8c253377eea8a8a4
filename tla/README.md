# TLA+ models of TriMC

TriMC is the server of a fleet of agents.  Nodes (TriLC) send it heartbeats and
snapshots of their tasks, clients ask it to message claude sessions, a scheduler
runs shell commands, every quarter of an hour a command lands a configuration
bundle that git brought, tasks are dispatched to employees within a budget, and
agents spawn sub-agents under a permissions engine.  This directory holds models of the parts
that keep state and can interleave, fail or restart, the model-checking runs
over them, and proofs of their main properties for every instance.

Line numbers below and in `PROJECT.json` are those of the repository; the path
`src/cron/service.ts` of the program is `src/src/cron/service.ts` there.

## Files

| Module | Models | Checked by | Proved in |
|---|---|---|---|
| `NodeMirror` | `mirror/store.ts`, the heartbeat and mirror routes, the scan timer | `mirror`, `mirror_lost` | `NodeMirrorProofs` |
| `ConfigSync`, `MCConfigSync` | `config-sync/apply.ts` | `config`, `config_overlap`, `config_crash` | `ConfigSyncProofs` |
| `AppliedCache`, `MCAppliedCache` | the caches of `config-sync/status.ts` and `default-model.ts`, over `ConfigSync` | `config` | `ConfigSyncProofs` |
| `BundleStore` | what an apply promises; `ConfigSync` implements it with one applier | `config` | `ConfigSyncProofs` |
| `CronService` | `cron/service.ts`, `cron/routes.ts`, start and stop of the server | `cron` | `CronServiceProofs` |
| `WeekMath`, `CommandRun`, `MCCommandRun` | `cron/week-math.ts`, `cron/command-handler.ts` | `command` | `CommandRunProofs` |
| `TaskServer` | `task-controller/controller.ts`, the agent and task routes, `orchestration/session-bridge.ts` | `task`, `task_result` | `TaskServerProofs` |
| `EventReplay`, `MCEventReplay` | `comm/arbitration.ts`, the replay route | `replay` | `EventReplayProofs` |
| `Dispatch`, `MCDispatch` | `orchestration/`: dispatch proxy, router, cost controller, scheduler, TriLC executor | `dispatch` | `DispatchProofs` |
| `DailyBudget` | what the cost controller promises; `Dispatch` implements it | `dispatch` | `DispatchProofs` |
| `Permissions` | `agent-loop/permissions-engine/`, `tool-gater/`, `policy-gate/`, the tiers | `agent` | `SubAgentsProofs` |
| `SubAgents`, `MCSubAgents` | `agent-loop/sub-agent/` and the task tool of `agent-loop/tools.ts` | `agent` | `SubAgentsProofs` |

A `.cfg` is named after its module, with a suffix where a module has several:
`ConfigSyncOverlap.cfg`, `ConfigSyncCrash.cfg`, `NodeMirrorLost.cfg`,
`TaskServerResult.cfg`.

To check a module: `tlc -workers 2 -config CronService.cfg CronService.tla`, and
for the proofs `tlapm CronServiceProofs.tla`.  `PROJECT.json` lists the runs, for
every definition the lines it models, the hazards each property is for, and for
every property a plausible bug of the code (a definition commented `mutant`) that
breaks it.  Those definitions are not part of any specification.

## Inventory

### Components with state

**Task mirror** (`src/mirror/store.ts`).  In memory: a table of heartbeats per
node (time of the last one, state connected or degraded, a count of consecutive
ones, an *unknown* flag), a map of mirrored tasks by node and id, and one version
counter.  Operations: `recordNodeHeartbeat`, `mirror` (a batch of snapshots, item
by item), `scanStaleNodes` with `markNodeUnknown` every 10 s, `cleanup`, queries.
Nodes call it over HTTP, the server's interval timer runs the scan.  Hard: a push
does not count as a sign of life, a heartbeat does not carry tasks, and the scan
falls anywhere between the two; a late push reopens a finished task; a restart
empties everything.  Correct if readers can follow changes by version, if no task
of a lost node keeps a status from before it was lost, and if a node that goes
away for good does not leave live tasks behind.

**Config sync** (`src/config-sync/`).  On disk: the bundle in the fleet work tree
(git brings it), the clone of TriCompany, `init-sync/applied.json` and one file
per section.  `apply.ts` is an operating-system process per call: read, validate,
compare, check or pull the clone, write six files by temporary file and rename.
`status.ts` and `default-model.ts` read what it leaves, through caches in the
server process.  Hard: no lock, two applies may overlap on one temporary name;
every step may be the last.  Correct if the version only goes forward, if what
`applied.json` says is what the files hold, and if a bundle is applied in the
end.

**Cron service** (`src/cron/`).  A job store in a JSON file and its cached object
in the process, both agent-core's; each job has `enabled`, `runningAtMs`,
`consecutiveErrors`.  Operations: `addJob`, `updateJob`, `removeJob`, `runJob`,
`start` (recovery of marks a dead process left), `stop`, and the executor's own
runs.  A run marks the job, saves, runs a command, loads the store again and
records the outcome.  Hard: requests and the executor interleave at each await; the server listens
before `start` has run; the process may die during a run.  Correct if a job has
one run at a time, if removal and updates survive the end of a run, and if no job
stays marked.

**Command handler** (`src/cron/command-handler.ts`, `week-math.ts`).  One run of a
command: week tokens are replaced in it, a shell is spawned in a process group of
its own, and the first of three callbacks (error, close, timeout) settles the
run; then a log is written.  Hard: the timer races the close event, background
processes keep the pipes or leave the group, and weeks turn with years of 52 or 53
of them.  Correct if every run ends, if a run told ok has all its output, if a
timeout leaves nothing of the group, and if the shifts of successive weeks follow
each other.

**Tasks and sessions** (`src/task-controller/`, `src/orchestration/session-bridge.ts`,
routes of `src/server/app.ts`).  In memory: tasks with ids counted from 1, with
`VALID_TRANSITIONS`, and a snapshot of the sessions listed last.  A message to a
session finds it in the snapshot or lists again, makes a task, hands the message
to the `claude` command line (120 s) and ends the task; nodes report results by
task id.  Hard: listings return in any order and a failed one is empty; ids of
before a restart come back; an update that is refused throws in an async handler
that nothing catches, which ends the process.  Correct if every running task is
some request's to end, if what has ended stays so, if a result is recorded, and
if a session that is there is found.

**Replay arbitration** (`src/comm/arbitration.ts`, `app.ts` 603-636).  In memory:
executed tool calls and task assignments, first come first served.  Nodes send
batches of events when they come back online and send again those whose answer
they lost.  Hard: a batch comes twice, after those of other nodes, or before a
restart and again after it.  Correct if one process accepts a tool call once, if
a task has one owner, if a batch sent again is told the same of its tasks, and if
no event is dropped unjudged.

**Dispatch and cost** (`src/orchestration/dispatch-proxy.ts`, `employee-scheduler.ts`,
`capability-router.ts`, `cost-controller.ts`, `trilc-executor.ts`).  A library
that no route calls yet.  `dispatch()` is one turn: estimate the task, match
employees, check the budgets of company, employee and task, assign or escalate;
`dispatchAsync` then executes the task on a node, over HTTP and a stream of events,
and tells a callback.  State: the totals of the day and the month with the day they
are of.  Hard: budgets are checked before a task and recorded after it, perhaps on
a later day; totals are set back by the first call of a day; a stream may break,
contradict itself or end without a verdict; one signal must end every wait for the node; the
callback is called inside the `try` whose `catch` calls it, and may throw.  Correct if
what exceeds a cap is bounded by what was under way together, if the lazy reset
answers as one at midnight would, and if each execution is answered, once, and as the callback
was told.

**Permissions** (`src/agent-loop/permissions-engine/`, `permissions.ts`, `tool-gater`,
`policy-gate`).  State: a mode and a list of rules of eight sources; operations add
and remove rules, clear them and set the mode; `decide` is a pipeline of loops with
early returns.  Correct if the safety check is never skipped, and if no operation lets a
call through but by a rule that outranks what refused it, by taking that away, or by a mode
that allows more.

**Sub-agents** (`src/agent-loop/sub-agent/`, the task tool in `tools.ts`).  `spawnAgent`
is an async generator around a child's agent loop; a supervisor keeps a run and a
controller per child.  Hard: a consumer may leave the generator at any yield, in the
loop or in its catch block; the default model is awaited between the spawn and the
registration; the parent's signal and the supervisor's cancellation come at any
time.  Correct if the supervisor has a live run exactly while the child runs, if an
abort reaches every child it concerns, and if an error is not answered as ok.

**Caches** (`config-sync/status.ts` 114-147, `default-model.ts` 38-67).  Values
kept by modification time and age, in the server process, while appliers, other
processes, replace the files.  A read is `stat`, then the cache or `readFile`, with an
await at each.  Hard: two requests fill one entry in either order; the file is
replaced between the two awaits; two versions may share a modification time.  Correct
if what a read returns was in the file while the request was served.

### Components without state of their own, or with I/O only

`observability/` (events to rows, paged queries), `contracts/`, `onboarding/`,
`pipeline/`, `memory-injector/`, `soul-loader/`, `prompt-cache/` (texts assembled
from files), `agent-loop/loop.ts` and its tools other than the task tool
(agent-core's loop; file and shell I/O), `heartbeat/*.py` (a command
that reports stale session files), `cli.ts` and `internal-token.ts` (HTTP requests
and a token), `node-bridge` (a stub).

### How they interact

One Node process serves all routes: a handler runs to its next await, and only
there can another handler, the scan timer or the executor come in.  Apart from
the process itself the parts share no variable, so a restart is the one event
common to `NodeMirror`, `CronService`, `TaskServer` and `EventReplay`: it empties
the mirror, the tasks and the arbitration's maps and leaves the job file.  `ConfigSync` meets the server only through the
files it writes; its cron job is one of the commands `CronService` runs, whose
single-instance guard is why the runs with one applier are the normal case, and
`config-sync apply` by hand is why those with two are possible.  `CommandRun` is what
one run of `CronService` does between `Start` and `Finish`; the latter takes its
outcome as a choice and relies on `Ends`, that there is one.  `SubAgents` extends
`Permissions`: the parent's engine decides whether the task tool may be called, and
its mode is what a child inherits.  `Dispatch` meets the rest only through nodes.

## Models

### NodeMirror

`node[n]` is the entry of the heartbeat table, with `silent` for `Date.now() -
lastSeenAt` in ticks, saturating above both thresholds.  `task[<<n, id>>]` is the
map's entry and `versions` the counter.  JavaScript runs a handler to completion,
so a batch and a scan are *turns*: `Push` begins one and `PushItem` is a round of
its loop; `Scan`, `MarkTask` and `ScanDone` are the scan.  No other action is
enabled during a turn but `Restart`, which may cut it short.  `fresh` and `beats`
are history variables: tasks pushed, and heartbeats received, since the node was
last marked.

Run `mirror`: two nodes push, beat, degrade, fall silent and die.
`VersionTracksChange` (a reader who polls by version misses
nothing), `NoOutdatedLiveTask` (no status of an unknown node is from before it was
lost), `TwoBeatsToRecover` (a count left from before the loss does not help) and
`DeadKnownNodeSwept`: a node that dies while it is known
ends with no live task.  Run `mirror_lost` shows that the last does not extend to
nodes already flagged unknown (finding below).

Bounds: one task per node in `mirror`, so that two nodes fit; two tasks of one node
in `mirror_lost`; batches of two, which may repeat a task; four or five versions,
enough for an insert, an update, a marking and a recovery of each task.  Thresholds
are 0 and 1 tick, so that a degraded node outlives a connected one.  `CountCap` is 2
where the code has 100; that it is at least 2 is what matters, and is assumed.
Fairness: a turn ends (weak, on its rounds); time passes and the interval timer
fires (strong on `Tick` and `Scan`): requests that keep arriving disable the scan for the
length of their turn, but the timer phase of the event loop comes round all the
same.

### ConfigSync

`pc[p]` is where process `p` is in `runConfigSyncApply`, one step per await.  A
bundle is what the code compares of it: `Time`, `Hash`, `Source`, `Commit`, and
whether its employees section is available.  Files are inodes: `OpenTmp` truncates
the shared temporary file, `FillTmp` writes to wherever that inode now is (`fd`),
`Rename` moves it and takes other holders along.  `Torn` is a half-written file; two
processes that write one file leave either text or a torn one.  A process may stop
at each step (`Crash`, `RenameFails`).  `broken` is history: a landing was cut short
and none completed since.

Run `config`: one applier, two bundles in any order (the older after the newer too), one
crash anywhere: `FilesWhole`, `LandedWhole`,
`AppliedMonotone`, and `StoreSpec`: `ConfigSync` implements `BundleStore`, in which there are
no processes, temporary files or git: `applied.json` changes at a stroke, to a bundle that is
not older or by a warning, and sections follow it in order.  A crash is no step there
(it leaves the rest of the sections out), nor is anything an apply does before its
first rename.  Run `config_overlap`: two appliers and a crash:
`EmployeesReachable` still holds, and `BundleApplied`: when the overlap ends, a later apply of
a bundle that stays is not kept by a torn `applied.json` from putting its own in place.  (A
torn section file is not repaired if `applied.json` names the bundle already.)  Run `config_crash` shows
what does not hold (below).

Bounds: two sections with one applier, the least where one follows while another waits;
one section with two, since the race is on a file and `applied.json` with one section
has both the first and the last of them; the proofs are for any number.  The two bundles of `config`
are of two times, the older without employees; those of
`config_overlap` are an older one from another instance and a newer one with an uncovered provider;
`config_crash` has two that differ in time, and all five sections.  A commit of
TriCompany that comes and one that never does cover a clone that is behind, one that has what
a bundle needs and one that a pull does not help; `config_crash` has both commits.  Fairness: weak on each process's step.  The
cron job starts an apply every 15 minutes, git calls have timeouts.  A crash is
bounded, not fair.

### AppliedCache and BundleStore

`AppliedCache` extends `ConfigSync` with the file the server reads (`Cached`: 0 is
`applied.json`, *i* the *i*-th section, for the default model).  What the file says is the
number of its `version`; `stamp` is its modification time, which a replacement may leave
as it is, if it comes at once, and never takes back: one applier fills its
temporary files in the order it renames them.  (Two that overlap may rename a file
that was filled earlier; the model is about one.)  A read is `Stat`, then in a later turn
`Absent`, `Hit` or `ReadFile`, and after the latter `Keep`, which stores what was read under the time
found by `Stat`.  A read may fail though the `stat` did not: null is answered, and kept under
that time as well (`unread` is history: the times under which one failed).  That an entry is too old is the choice of `ReadFile` over `Hit`, so the age
allowed need not be counted.  `forceFresh`, which the apply command passes, is in
`ConfigSync`'s own `Applied`.

Run `config` checks `AnswersCurrent`: an answer is not older than the file was at the
`stat` of that read, unless two versions share the time it found (`shared`), or it is null
because a read under that time failed.  It would be
lost if the entry were stored under a time asked for after the read.  Bounds: two
readers, the least that fill one entry in either order, two versions of the file and one time
under which reads fail (`MaxUnread`); both readers do the same, so they are symmetric.

### CronService

`mem` is the cached store, `disk` the file.  A call is `AddJob`, `UpdateJob`,
`RemoveJob` or `RunJob` (the turn from its load to its save), then `Save`; a run goes on
from `Start` (mark saved, command started) to `Finish` (command ended, store loaded
again).  `Tick` is the executor's own run.  `Boot`, `Recover`, `Recovered` are `listen`
and `start()`; `Stop`, `Exit`, `Crash` the ends.  Requests are served from `listen` on;
`hasty` is history: this process served one before `start()` had returned.

A save that fails throws out of the route or out of `start()`, and nothing catches it
(`app.ts` 576-585; there is no handler for rejections), so it is a `Crash` at that point.

Run `cron`: `RemovedStays`, `EnabledKept`, `NeverStuck` and `AnsweredKept` (what was answered is in
the file, although calls share one store and each waits for its own save only) in any process,
`SingleInstance` in one that was not hasty.  In a hasty one the recovery of marks may
take the mark of a live run, and the job can then be run a second time.

Bounds: two requests and the executor are the three actors a race on one job needs
(a run, a removal or update under it, a second run); two jobs show that they do not
disturb one another.  One crash finds a mark in the file and clears it; two let it
happen again during the recovery.  Fairness: the process is started again (systemd)
and `start()` goes on; saves end and so do commands, which are killed at their
timeout.  Deadlock is not checked: job ids run out, and a stopped service may rest.

Assumed of agent-core, which is not in the repository: a load hands out one cached
object, as the tests' `invalidateJobStoreCache` suggests, and saves end in the order they
were begun with the store's content of that moment or later.  Were a load a copy,
two requests at once would lose one of the changes.  That
commands end with the process holds under systemd, which ends the whole control group.

### TaskServer

`tasks` is the controller's map, `registry` the snapshot, `live` the sessions that
exist.  A request goes from `Message`, `List` or `Spawn` to `Spawned`, `Read`, `Listed`,
`Bridged`, one action per stretch between awaits.  `Callback(id)` is a node's result
for any id an answer ever told a client, in this process (`given`) or one before
(`old`).  A refused update is `Die`, as the throw ends the process.  `steady` and `lost`
are history of one request: its session was there all the time, its listing failed.

Run `task`: `StrayOnlyAfterRestart` (a node ends a message's task only through an id of before a
restart), `EndedStays`, `RefusedOnlyIfGone` (a message is not refused because of a stale
list), `Answered`.  Run `task_result`: a result is not recorded (below).

Bounds: two requests, so that two listings cross; one session that ends and begins
again; three tasks, one crash besides those of throws, so that an id is given out
twice.  Fairness: command lines end (30, 90 and 120 s) and the process restarts.

### EventReplay

`log[n]` is what a node recorded offline, an event's seqNo its place, and `acked[n]`
the last seqNo the node has an answer for; it sends what is above.  `requests` and
`answers` are under way and may be lost or overtaken.  `Deliver`, `Arbitrate` (a round of
the loop, with `Judge` for `detectConflict`) and `Reply` are the route and `arbitrate()`,
one turn of the event loop.  `TrackTaskAssignment` and `TrackToolExecution` are exported for
the server's own assignments; nothing in the source calls them yet.  `verdict`, `ran`
and `judged` are history: what this process last said of an event, how often it accepted a
tool call, and which events some process judged.

Run `replay`: `ToolOnce`, `OneOwner` (whatever was accepted of a task, since the server last
assigned it itself, came from its present owner) and `ResendAgrees`.  Tool calls are left
out of `ResendAgrees` because the code answers `already_executed` to a node that sends its
own tool call again.  `arbitration.ts` 3 says winner-takes-last; the code, and the test *rejects
task_assign when task already assigned to another node*, keep the first, and so does the model.
All three speak of one process: after a restart the maps are empty, which the source calls a
placeholder for a database.

Bounds: logs of two events chosen so that each kind occurs, a task taken and completed
in one batch or in two, a tool run twice; two messages of a node under way, so that one
overtakes the other; one restart.  The nodes have the same logs and the properties are of
safety, so nodes are symmetric.

### WeekMath and CommandRun

A date is its year, its day of the year and its day of the week; `AddDays` is what
JavaScript's `Date` does in a time zone without summer time (the server's is
Asia/Shanghai; in a zone whose clocks change between January and the day, the code's
rounding up would not do).  The operators follow `week-math.ts` function by function.
To find the week before week 1 the code asks for the last week of the year before
that of the *Monday*, which is one year too early for a week 1 that begins in December.
The tokens are right all the same: when a week 1 begins in December, the year it begins
in and the year before that one both have 52 weeks (lemma `PreviousWeek`).

`handler` is how far a run is, `shell` and `code` the child, `procs[p]` a background
process: in the group with the pipes (`piped`), in it with its output redirected
(`quiet`), out of it with the pipes (`away`) or `gone`; `unread` says that the pipes hold
something no data event has brought.  The three callbacks are `StartFails` (error),
`Close`, enabled when the shell has exited and nobody holds the pipes, and `Timeout`.

Run `command`: `OkIsWhole` (a run told ok exited with 0 and all it wrote is in the
log), `NoneSurvives` (of a command that timed out nothing of the group is left),
`ShiftsChain` (runs of one week shift the same weeks, and those of the next week begin
where they end) and `Ends`.

Bounds: two background processes, so that one may keep the pipes while the other
leaves the group; 17 days around each of nine turns of the year, which begin on every
day of the week, two of them in leap years.  Fairness: timers fire, and a file is
written or fails to be.  Left out: that the kill is refused (the server may signal
what it starts), what earlier commands left running, and that the number of a dead
group is given out again while only a process outside it holds the pipes.

### Dispatch and DailyBudget

`phase[t]` is where a call of `dispatchAsync` is; `Dispatch` is the turn of `dispatch()`, with
the router's `Coverage`, `Score`, `Acceptable`, `Primary`, `Escalation` and the budget's
`Estimate`, `Reset`, `Approved`; `RecordCost` is the caller's `recordCost` when it has the answer.
Scores are ten times the code's, tokens are in thousands and costs in thousandths of a dollar, in
which the code's estimates are whole; employees are numbered in the order of
the registry, so that the sort with its ties is a choice of the first among the best.

The executor waits in three phases: `submit` for the node's answer, `connect` for the stream and
`stream` for a piece of it.  `Fetch` and `Read` go on; `Refuse` is an error status, a missing endpoint
or body; `Break` a wait that throws.  `Expire` is the timer and `Abort` the throw it causes in a wait
that was given its signal (`Signalled`).  An execution that is over is in `ended`, `refused` or `caught`,
the places of the calls of `notifyResult`: the first two are inside the `try`, the third is its
`catch`.  `Notify` is such a call, in which the callback may throw and `Swallow` is the `catch` of
`notifyResult`; `Answer` is `dispatchAsync` after its await.  `told[t]` is what the callback was told, in
order.  (The steps after the last wait are one turn in the code; other tasks share nothing with
them, so splitting the turn adds no behaviour.)

Run `dispatch`: `OvershootBounded` says by how much a cap of the day may be exceeded:
what the tasks under way together may cost, and what was recorded for tasks whose
payer was not asked or refused.  (`docs/engineering/employee-orchestration-design.md`
calls the daily budget a hard cap and reserves it before a task; the code neither
reserves nor refuses an escalated task, which is executed and charged all the same.)
`ToldOnce`: when a task is answered the callback has been told once, and the same, although it
may have thrown inside the `try` whose `catch` calls it again.  `FailureKept`: a failure the node
wrote on a line of its own is
never answered as a success.  (A stream that ends without any verdict is a success, and so is
one whose failure is in the last line without a newline.)  `DaysAreKept` is the refinement:
totals set back by the first check or record of a day implement `DailyBudget`, whose
totals begin anew at midnight.  `Answered`: every execution is answered, whatever the node leaves
out and the callback throws; it is lost if the request for the stream is not given the signal.

As the code has it: the estimate is by the tier of the first active employee,
whoever takes the task; an alternative's budget is not asked; `assign()` is given no
running tasks, so room means any room at all; the totals of the month are kept and never
asked for.  `AbortSignal.timeout` makes a wait throw a `TimeoutError`, so the branch for an
`AbortError` with its message (`trilc-executor.ts` 135) is not taken; the task fails all the same.

Bounds: two tasks under way, the least that overshoot together; a staff of four and
five kinds of task chosen so that each branch of the routing is taken (see
`MCDispatch`); the fast tier of `TIERS` with its price, so that estimates are 20, 40 and, at the
tier's limit, 64; caps of 160 for the company, 64 for an employee and 32 or 64 for a task against
costs of 0 and 64, so that each of the three refuses something and two tasks together exceed
a cap that one does not; two days.  `MaxUnasked` bounds what is
charged to nobody's grant in a day, which the code does not bound.  Fairness (weak): the timer fires,
a wait its signal reaches throws, and a turn that began is run to its end; nothing is
asked of the node, of the network or of the caller.

### Permissions

`mode` and `rules` are the engine's.  Rules are a set: the pipeline's loops return at
the first rule that matches and is not overridden, and which one it is changes the reason
only.  (The constructor keeps the caller's array and does not sort it; `decide` sorts.)
`ParseRule` resolves all the aliases of `rule-parser.ts`: a name without one is taken as it is, so a
rule for `Bash`, as in the example of `index.ts`, is about no tool of TriMC.  The arguments of a
call are what the code looks at: which contents they contain, and whether the safety
check is about them.  `CheckToolPermission` is the tier and the risk level of the
contract.  `WidenedOnlyBy` says which steps may let a call through that was refused: one
that adds an allow rule of a higher source than every rule that refuses it, one that takes such a
rule away, or one to a mode that allows more.

In two places the code does otherwise than a comment says, and the model follows the code.
`decision-pipeline.ts` 11 and 59 and `types.ts` 12 speak of edits within the working directory;
`checkAcceptEdits` (182-206) accepts those outside it as well, with another reason.  Line 30 there says
that deny overrides everything; `checkDenyRules` (117-128) passes over a deny rule when an allow rule of
a higher source matches.

### SubAgents

`pc[a]` is the yield or await at which child `a`'s generator is suspended, and `Consume`
is its consumer: the task tool, which leaves at the first error or at the end,
`spawnAgentAndCollect`, which reads on, or a caller that leaves anywhere.  `Begin` is the turn
after the model was resolved, with the registration and the two cases of the parent's
signal; `ParentAborts` and `CancelScope` are the aborts; `LoopYields`, `LoopEnds`, `LoopThrows` what
agent-core's loop may do.

Run `agent`: `LiveIffRunning` (the `finally` block, wherever the consumer leaves),
`ErrorsTold`, `AbortsHeard` and `AbortReaches` (an abort before, while or after the child registers
is heard, and ends it),
and `WidenedOnlyBy` of the engine while it serves the parent.

As the code has it: the task tool passes neither mode, rules, signal nor supervisor
(its comment at `tools.ts` 346 speaks of inherited permissions); filtered tool lists go into
the prompt only, and the child's loop is limited by its tier; a listener on the parent's
signal is never removed; when the loop fails, `done` is not yielded and the run is finalized after
both error events.  Left out: the loop's own permission decisions for the child
(agent-core's), the heartbeat tier, reasons and prompts.

Bounds: one child, since children share nothing but the signal, the scope and the
engine; rules of a high and a low source, two at a time, which is what an override
needs; one content; one name, an alias.  Fairness: a consumer's loop goes on or leaves, the configuration file is
read, and the loop of a child whose signal is aborted ends (strong, as events may
come in between).

## Proofs

The theorems hold for all nodes, tasks, jobs, bundles, requests and bounds that meet
the modules' named assumptions, which ask for no more than natural numbers, for
`CountCap` at least 2, for finite sets of tasks and outputs in `Dispatch`, and for days that
are dates in `CommandRun`.

*NodeMirrorProofs.*  `TypeCorrect`, `VersionsAreUnique`, `NoLiveTaskIsOutdated`,
`ChangesAreVersioned`, `RecoveryTakesTwoBeats`, `OnlyPushesReopen`.  `NoOutdatedLiveTask`
is not inductive: between the marking of one task and the next a node is stale
and not yet unknown.  The invariant adds `TurnInv` (during a scan every open task of
a stale node is still to mark; outside one nothing is) and `CountInv` (the count and
the history of beats agree while a node is unknown).

*ConfigSyncProofs.*  `TypeCorrect` and `EmployeesAreReachable` hold for any number of
appliers: `HonestInv` says that wherever the word *applied* is, in a payload, a
temporary file or on disk, the clone already has the commit, and `head` only grows.  The
others (`FilesAreWhole`, `SectionsNeverAhead`, `LandingsAreWhole`,
`AppliedNeverGoesBack`) are under `Serial`, one applier.  `SoloInv` has four parts, one for each
place a process can be: *Ready* (what it compared still holds), *Holding* (its
temporary file is its own), *Replacing* (`applied.json` is next and is newer),
*Following* (files below the current are of its bundle, those from it on are as
before).  Only together are they inductive.  `AppliesAreAtAStroke` is the refinement,
`Serial => (Spec => StoreSpec)`: beside `SoloInv` it needs `MeantInv`, that what a process holds
to be written is the manifest `BundleStore` gives that bundle.  For the cache,
`ReadersDoNotDisturb` (`ServedSpec => Spec`) carries all of the above over to the system with its
readers, and `AnswersAreCurrent` needs that an entry, and what a read holds, is never older
than the file was under its time, or null where a read failed (`Sound`), and that nothing is
ahead of the file.

*CronServiceProofs.*  `TypeCorrect`, `RemovedJobsStay`, `EnabledOnlyUpdated` in any process;
`OneRunAtATime` and `MarksTellTheRuns` in one that was not hasty.  `AnswersAreKept`, in any, needs
that a job that is not there has no mark, or the recovery of marks would change one without a save.  `RemovalInv` adds that a
removed id is never given out again; `RunInv` that nothing runs before the start is
over (`QuietInv`), that a marked job that is run is run by one actor (`AloneInv`),
and that marks and runs agree (`MarkInv`).  A job that was removed under its
run keeps a run without a mark, and its id is never given out again: that
is why removal does not break the first.

*TaskServerProofs.*  The safety properties of the run, and `RunningIsBridged`: a running task
is exactly one request's to end.  It needs that two
messages never have the same task (`BridgeInv`), and that a task is begun only while
there is room for it (`RoomInv`, by counting the messages that have none yet).
`StrayOnlyAfterRestart` rests on `GivenInv`: no id a client of this process holds is of a running
task.  `RefusedOnlyIfGone` rests on `SteadyInv`: a list got while the session was there has it.

*EventReplayProofs.*  All properties of the run, and `NothingSkipped`: no event a node drops was
passed over by the server; for any logs and any number of messages under way.  `OneOwner` is inductive with `HeardInv` (only an event that happened has a
verdict); `ResendAgrees` follows from it.  `JudgedInv` follows the judged prefix of a
log from a batch through its rounds to the answer and the node.

*DispatchProofs.*  All safety properties of the run.  `CallbackToldOnce` and `FailureIsKept` are from
`CallOk`, which says of each phase what was told and is returned there: nothing before the call
of the callback, the same after it.  The routing lemmas (`Routed`, `EscalationType`)
say that what is chosen by score is an employee: the set has a best member because the
registry is finite.  `OvershootIsBounded` is inductive with `IInv`; the argument is about the room
(`MaxCost` for each task that is not paid for yet): a grant takes one task's worth of room and the
check left that much, a record moves at most that much from the room to the total.
`LazyResetIsExact` is the refinement: under `DayInv`, that the totals are never of a day to
come, each step is one of `DailyBudget` or a stutter.

*SubAgentsProofs.*  For the engine, `SafetyIsImmune` (in no mode and by
no rule is a call the safety check is about allowed) and `OnlyThatWidens`.  The latter needs that of
any rules some have the highest score, though there may be infinitely many (`HighestExists`: the
sources are eight), so that an allow rule which outranks those outranks all that refuse
(`AllowOutranks`); and that a rule already there would have let the call through before.  For the
children `RunsAreClosed` and `ErrorsAreTold`, from `ChildInv`, which says of each yield what the run,
the error and the outcome are there.  `AbortsAreHeard` is the safety core of `AbortReaches`: a child
with a controller and the parent's signal listens or is aborted (`HearInv`), from the turn
that makes the controller on.

*CommandRunProofs.*  `ShiftIsOfTwoMondays`: the tokens of any day are the weeks of the Monday after
its window's Sunday and of the Monday before; `ShiftsFollow` for every date of every year: of the calendar the lemmas use only
that a year has 365 or 366 days.  `AddDaysTwice` composes moves, `PreviousWeek` is the case of
week 1.  `OkRunsAreWhole` and `GroupsDie` need `Settled`: a code of 0 comes from `Close`, after which
the pipes are nobody's.

Proved and not checked again by a run: `TypeOK` of all modules but `SubAgents` and `CommandRun`,
`CacheTypeOK` of `AppliedCache`, `VersionsUnique` and `FinishedOnlyRepushed` of `NodeMirror`, `NeverAhead`
of `ConfigSync`, `MarkedIffRunning` of `CronService`, `RunningIsBridged` of `TaskServer`, `NothingSkipped`
of `EventReplay`, `SafetyIsImmune`.

Only model-checked: the liveness properties (`DeadKnownNodeSwept`, `BundleApplied`,
`NeverStuck`, `Answered` of two modules, `AbortReaches`, `Ends`), since the prover has neither fairness
nor `ENABLED`.

## Findings

- `mirror_lost`: a node already flagged unknown that pushes its tasks again and dies
  before its second heartbeat is never scanned (`store.ts` 85), so its tasks stay
  live for ever, while the scan's comment speaks of every node over the threshold.
- `config_crash`: `applied.json` is written before the sections (`apply.ts` 200); a
  process that dies in between is not repaired, since the next apply finds the bundle
  already applied.
- `task_result`: the only ids clients hold of tasks that have not ended are those of
  placeholders, which nothing starts; a result for one is refused by a throw that ends
  the process (`app.ts` 398).

Observations, where a property of the model ends:

- two applies that overlap may land the older bundle last: the version is compared before
  git calls of minutes and not again (`apply.ts` 239), although `types.ts` 11-12 says that an
  older bundle is ignored; `AppliedMonotone` is about one applier at a time;
- the server listens before `start()` clears the marks; a run that began in between loses its
  mark and can be doubled (`service.ts` 106), hence the condition of `SingleInstance`;
- the company's day may be overshot by what is under way together, and by escalated tasks
  without bound (`cost-controller.ts` 135, `dispatch-proxy.ts` 237), hence the form of
  `OvershootBounded`;
- after a restart a tool call that is sent again is accepted again (`arbitration.ts` 43);
- comments and code differ, without a property of the model at stake, in who wins an assignment
  (`arbitration.ts` 3), in what *acceptEdits* accepts and in what overrides a deny rule
  (`decision-pipeline.ts` 11, 30, 59).

## Not modelled

Token checks, parsing of requests and of command-line output, logging, timeline
rows and text assembly: no property here depends on them.  agent-core, trimodel, git,
the claude command line, systemd and the nodes are modelled only as the code uses
them.  `PROJECT.json` names every component and what it leaves out; hazards without a
property say why.

## Plan

What is left, in order of worth:

1. An abstract specification of `EventReplay`, a map from each tool call and task to the first
   node that brought it, kept by one process.
2. Files under two agents: `edit_file` reads, compares and writes with awaits in between.
3. Timeline pages: a cursor is an event's id, and events may arrive behind it or twice.
