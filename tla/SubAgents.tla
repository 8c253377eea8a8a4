----------------------------- MODULE SubAgents ------------------------------
(***************************************************************************)
(* Sub-agents (src/agent-loop/sub-agent): spawnAgent is an async generator *)
(* that announces the child, resolves its model, registers a run with the  *)
(* supervisor and passes on the events of the child's agent loop; `finally'*)
(* finalizes the run.  A generator only moves when its consumer asks for   *)
(* the next event, and a consumer that leaves its for-await loop makes it  *)
(* return where it is suspended.  The consumers are                        *)
(*   task     the task tool of src/agent-loop/tools.ts, which leaves at the*)
(*            first error and passes neither signal nor supervisor,        *)
(*   collect  spawnAgentAndCollect, which reads to the end,                *)
(*   stream   a caller that may leave at any event, as the tests do.       *)
(*                                                                         *)
(* The parent's tool calls pass the judgements of module Permissions, and  *)
(* its engine's mode is what a child inherits.  The agent loop itself is   *)
(* agent-core's: it yields events, some of them errors it goes on after,   *)
(* and it ends or throws; that it does is only relied on once its signal   *)
(* is aborted.  So is the supervisor: it keeps the controllers of the runs *)
(* that are registered and aborts those of a scope on demand.              *)
(***************************************************************************)
EXTENDS Permissions

CONSTANTS
  Agents,      \* children the parent may spawn
  AskedTypes,  \* agent types they are asked for as
  ParentTier,  \* the parent loop's tier
  RiskLevel    \* the risk levels in the parent's contract

AgentTypes == {"general-purpose", "explore", "plan", "verification"}
Consumers  == {"task", "collect", "stream"}

ASSUME AgentsAssumption ==
  /\ ParentTier \in {"main", "coordinator"}
  /\ AskedTypes \subseteq AgentTypes \cup {"unknown"}
  /\ DOMAIN RiskLevel \subseteq Tools
  /\ \A t \in DOMAIN RiskLevel : RiskLevel[t] \in {"low", "medium", "high", "critical"}

VARIABLES
  signalled,  \* the parent's signal is aborted
  pc,         \* where each generator is, see Points
  config,     \* what it was called with
  run,        \* its run in the supervisor's books
  abort,      \* its own controller is aborted
  hears,      \* it listens to the parent's signal
  erred,      \* it has yielded subagent_error
  outcome     \* what its consumer reports

children == <<pc, config, run, abort, hears, erred, outcome>>
vars     == <<engine, signalled, children>>

\* Suspended at a yield: start, event and erred (in the loop), thrown and failed (in
\* the catch block), done, refused.  Waiting for somebody else: model and loop.
InTry     == {"loop", "event", "erred", "thrown", "failed"}
Suspended == {"start", "event", "erred", "thrown", "failed", "done", "refused"}
Points    == {"none", "model", "loop", "ended"} \cup Suspended

ModeOrNone == Modes \cup {"none"}
Configs ==
  [type : AgentTypes \cup {"unknown"}, consumer : Consumers, supervised : BOOLEAN,
   linked : BOOLEAN, mode : ModeOrNone]
Idle == [type |-> "unknown", consumer |-> "stream", supervised |-> FALSE,
         linked |-> FALSE, mode |-> "none"]

---------------------------------------------------------------------------
\* Agent definitions (built-in.ts) and what becomes of their tool declarations.
Declared(type) ==
  IF type \in {"explore", "plan"} THEN {"Read", "Glob"} ELSE {"*"}
Disallowed(type) == IF type = "explore" THEN {"Write", "Edit", "Bash"} ELSE {}
OwnMode(type) == IF type = "general-purpose" THEN "none" ELSE "acceptEdits"

CLAUDE_TOOL_MAP == [Read  |-> "read_file",  Bash |-> "shell_exec", Glob |-> "glob_search",
                    Write |-> "write_file", Edit |-> "edit_file",  Task |-> "task"]
SubagentTools == {t \in Tools : CanUseTool(t, "subagent")}
Resolved(names) == {CLAUDE_TOOL_MAP[n] : n \in names \cap DOMAIN CLAUDE_TOOL_MAP}

ResolveAgentTools(type) ==
  IF "*" \in Declared(type) THEN SubagentTools \ Resolved(Disallowed(type))
  ELSE SubagentTools \cap Resolved(Declared(type))
FilterToolsForAgent(tools, type) == tools \ Resolved(Disallowed(type))
Catalog(type) == FilterToolsForAgent(ResolveAgentTools(type), type)

ResolveWithoutDefault(type, parentMode) ==  \* mutant: no mode if nobody names one
  IF OwnMode(type) # "none" THEN OwnMode(type) ELSE parentMode

ResolvePermissionMode(type, parentMode) ==
  IF OwnMode(type) # "none" THEN OwnMode(type)
  ELSE IF parentMode # "none" THEN parentMode ELSE "acceptEdits"

---------------------------------------------------------------------------
Init ==
  /\ EngineInit
  /\ signalled = FALSE
  /\ pc = [a \in Agents |-> "none"]
  /\ config = [a \in Agents |-> Idle]
  /\ run = [a \in Agents |-> "none"]
  /\ abort = [a \in Agents |-> FALSE]
  /\ hears = [a \in Agents |-> FALSE]
  /\ erred = [a \in Agents |-> FALSE]
  /\ outcome = [a \in Agents |-> "none"]

Goto(a, l) == pc' = [pc EXCEPT ![a] = l]
Same == UNCHANGED <<engine, signalled>>

\* The finally block; runs of a child without a supervisor are nobody's.
Finalize(a) == run' = [run EXCEPT ![a] = IF @ = "live" THEN "final" ELSE @]

\* The signal of a child's loop: its own controller's if there is a supervisor.
Aborted(a) ==
  IF config[a].supervised THEN abort[a] ELSE config[a].linked /\ signalled

---------------------------------------------------------------------------
\* The call up to the first yield: an agent type nobody defined is an error event.
Spawn(a, type, consumer, supervised, linked, parentMode) ==
  /\ pc[a] = "none"
  /\ config' = [config EXCEPT ![a] =
       [type |-> type, consumer |-> consumer, supervised |-> supervised, linked |-> linked,
        mode |-> IF type = "unknown" THEN "none" ELSE ResolvePermissionMode(type, parentMode)]]
  /\ Goto(a, IF type = "unknown" THEN "refused" ELSE "start")
  /\ erred' = [erred EXCEPT ![a] = (type = "unknown")]
  /\ Same /\ UNCHANGED <<run, abort, hears, outcome>>

\* The task tool, called by the parent's loop; a hint it does not know is
\* general-purpose, and neither mode nor rules, signal or supervisor go along.
TaskTool(a) ==
  \E c \in Calls, type \in AskedTypes \ {"unknown"} :
    /\ c.tool = "task"
    /\ CheckToolPermission("task", ParentTier, RiskLevel)
    /\ Decide(mode, rules, c) = "allow"
    /\ Spawn(a, type, "task", FALSE, FALSE, "none")

Direct(a) ==
  \E type \in AskedTypes, consumer \in {"collect", "stream"},
     supervised, linked \in BOOLEAN, m \in {mode, "none"} :
    Spawn(a, type, consumer, supervised, linked, m)

\* The consumer asks for the next event.  From start the generator goes on to the
\* await for the default model, if the agent has any tools; past the catch block
\* and past the loop it finalizes the run.
ReadOn(a) ==
  /\ pc[a] \in Suspended
  /\ config[a].consumer = "task" => pc[a] \in {"start", "event"}
  /\ Goto(a, CASE pc[a] = "start" -> IF Catalog(config[a].type) = {} THEN "refused" ELSE "model"
                [] pc[a] \in {"event", "erred"} -> "loop"
                [] pc[a] = "thrown" -> "failed"
                [] OTHER -> "ended")
  /\ erred' = [erred EXCEPT ![a] = @ \/ pc'[a] = "refused"]
  /\ IF pc[a] = "failed" THEN Finalize(a) ELSE UNCHANGED run
  /\ outcome' = [outcome EXCEPT ![a] =
       IF config[a].consumer # "collect" THEN @
       ELSE CASE pc[a] = "done" -> "ok" [] pc[a] \in {"failed", "refused"} -> "error" [] OTHER -> @]
  /\ Same /\ UNCHANGED <<config, abort, hears>>

\* The consumer leaves, and the generator returns: inside the try statement by way
\* of its finally block.  The task tool leaves at the first error and at done.
Leaves(a) ==
  CASE config[a].consumer = "task"    -> pc[a] \in {"erred", "thrown", "refused", "done"}
    [] config[a].consumer = "collect" -> FALSE
    [] OTHER                          -> pc[a] \in Suspended

LeaveOpen(a) ==  \* mutant: no finally block, the run is finalized where the loop ends
  /\ Leaves(a)
  /\ Goto(a, "ended")
  /\ outcome' = [outcome EXCEPT ![a] =
       IF config[a].consumer = "task" THEN IF pc[a] = "done" THEN "ok" ELSE "error" ELSE @]
  /\ Same /\ UNCHANGED <<config, run, abort, hears, erred>>

LeaveContent(a) ==  \* mutant: the task tool takes what it has when an error comes
  /\ Leaves(a)
  /\ Goto(a, "ended")
  /\ IF pc[a] \in InTry THEN Finalize(a) ELSE UNCHANGED run
  /\ outcome' = [outcome EXCEPT ![a] = IF config[a].consumer = "task" THEN "ok" ELSE @]
  /\ Same /\ UNCHANGED <<config, abort, hears, erred>>

Leave(a) ==
  /\ Leaves(a)
  /\ Goto(a, "ended")
  /\ IF pc[a] \in InTry THEN Finalize(a) ELSE UNCHANGED run
  /\ outcome' = [outcome EXCEPT ![a] =
       IF config[a].consumer = "task" THEN IF pc[a] = "done" THEN "ok" ELSE "error" ELSE @]
  /\ Same /\ UNCHANGED <<config, abort, hears, erred>>

\* The model is resolved, and in the same turn the run is registered and tied to
\* the parent's signal: aborted at once if that is aborted already.
BeginDeaf(a) ==  \* mutant: it only listens for what is still to come
  /\ pc[a] = "model"
  /\ Goto(a, "loop")
  /\ run' = [run EXCEPT ![a] = IF config[a].supervised THEN "live" ELSE @]
  /\ hears' = [hears EXCEPT ![a] = config[a].supervised /\ config[a].linked /\ ~signalled]
  /\ Same /\ UNCHANGED <<config, abort, erred, outcome>>

Begin(a) ==
  /\ pc[a] = "model"
  /\ Goto(a, "loop")
  /\ IF config[a].supervised
       THEN /\ run' = [run EXCEPT ![a] = "live"]
            /\ abort' = [abort EXCEPT ![a] = config[a].linked /\ signalled]
            /\ hears' = [hears EXCEPT ![a] = config[a].linked /\ ~signalled]
       ELSE UNCHANGED <<run, abort, hears>>
  /\ Same /\ UNCHANGED <<config, erred, outcome>>

\* What the agent loop does next: an event that is passed on, an error event, its
\* end, or an exception.  A blocked tool is no event of the stream.
LoopYields(a) ==
  /\ pc[a] = "loop"
  /\ \/ Goto(a, "event") /\ UNCHANGED erred
     \/ Goto(a, "erred") /\ erred' = [erred EXCEPT ![a] = TRUE]
  /\ Same /\ UNCHANGED <<config, run, abort, hears, outcome>>

LoopEnds(a) ==
  /\ pc[a] = "loop"
  /\ Goto(a, "done")
  /\ Finalize(a)
  /\ Same /\ UNCHANGED <<config, abort, hears, erred, outcome>>

LoopThrows(a) ==
  /\ pc[a] = "loop"
  /\ Goto(a, "thrown")
  /\ erred' = [erred EXCEPT ![a] = TRUE]
  /\ Same /\ UNCHANGED <<config, run, abort, hears, outcome>>

\* The parent's signal reaches every listener; they are never taken off it.
ParentAborts ==
  /\ ~signalled
  /\ signalled' = TRUE
  /\ abort' = [a \in Agents |-> abort[a] \/ hears[a]]
  /\ UNCHANGED <<engine, pc, config, run, hears, erred, outcome>>

\* cancelScope: the supervisor aborts the runs it has on its books, not those that
\* are about to be.
CancelScope ==
  /\ \E a \in Agents : run[a] = "live" /\ ~abort[a]
  /\ abort' = [a \in Agents |-> abort[a] \/ run[a] = "live"]
  /\ UNCHANGED <<engine, signalled, pc, config, run, hears, erred, outcome>>

---------------------------------------------------------------------------
Engine == EngineNext /\ UNCHANGED <<signalled, children>>

Consume(a) == ReadOn(a) \/ Leave(a)
LoopOver(a) == LoopEnds(a) \/ LoopThrows(a)

Next ==
  \/ Engine \/ ParentAborts \/ CancelScope
  \/ \E a \in Agents :
       TaskTool(a) \/ Direct(a) \/ ReadOn(a) \/ Leave(a) \/ Begin(a)
         \/ LoopYields(a) \/ LoopEnds(a) \/ LoopThrows(a)

Spec == Init /\ [][Next]_vars

\* A consumer's for-await loop takes the next event or leaves, the configuration is
\* read, and an agent loop whose signal is aborted does not yield for ever.
Fairness ==
  \A a \in Agents :
    WF_vars(Consume(a)) /\ WF_vars(Begin(a)) /\ SF_vars(Aborted(a) /\ LoopOver(a))
FairSpec == Spec /\ Fairness

---------------------------------------------------------------------------
\* Every variable keeps its type, and a child has a permission mode of its own or
\* its parent's, or the default one.
TypeOK ==
  /\ EngineTypeOK
  /\ signalled \in BOOLEAN
  /\ pc \in [Agents -> Points]
  /\ config \in [Agents -> Configs]
  /\ \A a \in Agents : config[a].type = "unknown" \/ config[a].mode \in Modes
  /\ run \in [Agents -> {"none", "live", "final"}]
  /\ abort \in [Agents -> BOOLEAN] /\ hears \in [Agents -> BOOLEAN]
  /\ erred \in [Agents -> BOOLEAN]
  /\ outcome \in [Agents -> {"none", "ok", "error"}]

\* The supervisor has a live run of a child just as long as the child is in its
\* loop, or its error is being told: whether the loop ends, throws, or the consumer
\* leaves at any event, the finally block finalizes it (spawn.ts:289-297).
LiveIffRunning ==
  \A a \in Agents : run[a] = "live" <=> config[a].supervised /\ pc[a] \in InTry

\* A task tool that answers ok has a child that reported no error at all, and an
\* answer that is an error, of either consumer, comes of an error event.  (Of a
\* child that went on after an error spawnAgentAndCollect reports no error.)
ErrorsTold ==
  \A a \in Agents :
    /\ outcome[a] = "ok" /\ config[a].consumer = "task" => ~erred[a]
    /\ outcome[a] = "error" => erred[a]

\* Once the parent has aborted, the loop of every child that was given its signal has
\* an aborted signal, whether the abort came before the child's controller was made,
\* in the turn that made it or later, and whatever the supervisor cancelled since
\* (spawn.ts:223-260).
AbortsHeard ==
  \A a \in Agents :
    signalled /\ config[a].linked /\ pc[a] \in InTry => Aborted(a)

\* An abort of the parent ends every child that was given its signal, whether it
\* comes before the child has registered its run, while the model is looked up, or
\* later (spawn.ts:223-261).
AbortReaches ==
  \A a \in Agents :
    (signalled /\ config[a].linked /\ pc[a] # "none") ~> pc[a] = "ended"
=============================================================================
