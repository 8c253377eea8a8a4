---------------------------- MODULE Permissions ----------------------------
(***************************************************************************)
(* Who may use which tool.  Three judgements apply to a tool call of an    *)
(* agent loop:                                                             *)
(*   - the tier of the loop (src/agent-loop/permissions.ts; the table      *)
(*     itself is agent-core's) and the risk level the agent's contract     *)
(*     gives the tool (src/tool-gater/gater.ts, src/policy-gate/service.ts)*)
(*     make up checkToolPermission;                                        *)
(*   - the permissions engine (src/agent-loop/permissions-engine) holds a  *)
(*     mode and rules of eight sources and decides call by call.           *)
(*                                                                         *)
(* The engine sorts its rules by source, and the pipeline sorts them once  *)
(* more.  The loops of the pipeline return at the first rule that matches  *)
(* and is not overridden, and which one that is only changes the text of   *)
(* the reason, so rules are a set here.  Of the arguments of a call the    *)
(* code looks at the strings they contain and at what the safety check     *)
(* looks for.                                                              *)
(***************************************************************************)
EXTENDS Naturals, FiniteSets

CONSTANTS
  Sources,    \* the rule sources in use
  Texts,      \* contents a rule may filter on
  RuleNames,  \* names the rules use
  MaxRules    \* bound: rules of one engine

RULE_SOURCE_SCORE ==
  [s \in {"userSettings", "projectSettings", "localSettings", "flagSettings",
          "policySettings", "cliArg", "command", "session"} |->
     CASE s = "userSettings"   -> 100 [] s = "projectSettings" -> 90
       [] s = "localSettings"  -> 80  [] s = "flagSettings"    -> 70
       [] s = "policySettings" -> 60  [] s = "cliArg"          -> 50
       [] s = "command"        -> 40  [] s = "session"         -> 30]

Tools     == {"read_file", "write_file", "edit_file", "shell_exec", "glob_search", "task"}
EditTools == {"write_file", "edit_file"}
Modes     == {"default", "acceptEdits", "bypassPermissions"}
Behaviors == {"allow", "deny", "ask"}

\* Names a rule may use for a tool.  A name without an alias is taken as it is, be
\* it a tool's or not: Bash is not one of TriMC's tools.
TaskAliases == {"Task", "KillShell", "AgentOutputTool", "BashOutputTool", "TaskCreate",
                "TaskGet", "TaskUpdate", "TaskList", "TaskStop", "TaskOutput"}
Names == Tools \cup TaskAliases
               \cup {"FileRead", "FileWrite", "FileEdit", "TodoWrite", "Grep", "Glob", "Bash"}

ASSUME PermissionsAssumption ==
  /\ Sources \subseteq DOMAIN RULE_SOURCE_SCORE
  /\ "any" \notin Texts
  /\ RuleNames \subseteq Names
  /\ MaxRules \in Nat

\* says: which of Texts its arguments contain; sensitive: its path lies in .git or
\* .claude, or its command names a shell start-up file or is rm -rf of / or ~.
Calls == [tool : Tools, says : SUBSET Texts, sensitive : BOOLEAN]

Rules == [tool : Names, content : Texts \cup {"any"}, behavior : Behaviors, source : Sources]

VARIABLES
  mode,   \* the engine's mode
  rules   \* its rules

engine == <<mode, rules>>

Score(r) == RULE_SOURCE_SCORE[r.source]

---------------------------------------------------------------------------
\* parseRule: a bare name, `Name()' and `Name(*)' hold for every call of the tool,
\* `Name(text)', `Name(text*)' and `Name(text:*)' for those that contain the text.
ResolveAlias(name) ==
  CASE name \in TaskAliases               -> "task"
    [] name = "FileRead"                  -> "read_file"
    [] name \in {"FileWrite", "TodoWrite"} -> "write_file"
    [] name = "FileEdit"                  -> "edit_file"
    [] name \in {"Grep", "Glob"}           -> "glob_search"
    [] OTHER                              -> name

ParseRule(name, content, behavior, source) ==
  [tool |-> ResolveAlias(name), content |-> content, behavior |-> behavior, source |-> source]

RuleMatches(r, c) ==
  /\ r.tool = c.tool
  /\ r.content = "any" \/ r.content \in c.says

Matching(rs, c, b) == {r \in rs : r.behavior = b /\ RuleMatches(r, c)}

\* A rule that refuses holds unless one of a higher source allows: checkDenyRules
\* and checkAskRules.
HoldsStrictly(rs, c, b) ==  \* mutant: an allow rule of the same source is enough
  \E r \in Matching(rs, c, b) :
    ~ \E a \in Matching(rs, c, "allow") : Score(a) >= Score(r)
Holds(rs, c, b) ==
  \E r \in Matching(rs, c, b) :
    ~ \E a \in Matching(rs, c, "allow") : Score(a) > Score(r)

RunSafetyCheck(c) ==
  c.sensitive /\ c.tool \in EditTools \cup {"shell_exec"}

\* The pipeline of decide(): the behavior of its DecisionResult, which allows the
\* call only if it is allow.  Whether the path an edit tool names lies in the
\* working directory changes the reason alone (checkAcceptEdits).
Decide(m, rs, c) ==
  IF Holds(rs, c, "deny") THEN "deny"
  ELSE IF Holds(rs, c, "ask") \/ RunSafetyCheck(c) THEN "ask"
  ELSE IF \/ m = "bypassPermissions"
          \/ m = "acceptEdits" /\ c.tool \in EditTools
          \/ Matching(rs, c, "allow") # {}
       THEN "allow"
  ELSE "deny"

---------------------------------------------------------------------------
\* checkToolPermission: the tier first (agent-core's canUseTool, whose table is
\* known here from the tests), then the risk level if the contract names the tool.
CanUseTool(t, tier) ==
  CASE tier = "main"        -> TRUE
    [] tier = "coordinator" -> t = "task"
    [] tier = "subagent"    -> t \in {"read_file", "glob_search"}

\* The risk levels the policy gate lets through.
EvaluateTool(risk) == risk \in {"low", "medium"}
CheckToolPermission(t, tier, specs) ==
  /\ CanUseTool(t, tier)
  /\ t \in DOMAIN specs => EvaluateTool(specs[t])

---------------------------------------------------------------------------
\* The engine's operations.
AddRules(names, content, behavior, source) ==
  /\ rules' = rules \cup {ParseRule(n, content, behavior, source) : n \in names}
  /\ Cardinality(rules') <= MaxRules
  /\ UNCHANGED mode

AddRule(name, content, behavior, source) == AddRules({name}, content, behavior, source)

RemoveRulesBySource(source) ==
  /\ rules' = {r \in rules : r.source # source}
  /\ UNCHANGED mode

ClearRules == rules' = {} /\ UNCHANGED mode

SetMode == mode' \in Modes \ {mode} /\ UNCHANGED rules

EngineInit == mode \in Modes /\ rules = {}
EngineNext ==
  \/ \E n \in RuleNames, t \in Texts \cup {"any"}, b \in Behaviors, s \in Sources :
       AddRule(n, t, b, s)
  \/ \E t \in Texts \cup {"any"}, b \in Behaviors, s \in Sources :
       AddRules(RuleNames, t, b, s)
  \/ \E s \in Sources : RemoveRulesBySource(s)
  \/ ClearRules
  \/ SetMode

EngineTypeOK == mode \in Modes /\ rules \subseteq Rules

---------------------------------------------------------------------------
\* A step makes a call allowed that was refused before only by adding an allow rule
\* of a higher source than every rule that refuses it, by taking a rule away that
\* refused it, or by a mode that allows more.  Adding a rule that refuses never lets
\* anything through, taking one away that allows never does, and an allow rule does
\* not override one of its own source or above (checkDenyRules, checkAskRules).
Refusing(rs, c) == Matching(rs, c, "deny") \cup Matching(rs, c, "ask")
Wider(m) == CASE m = "default" -> {} [] m = "acceptEdits" -> EditTools [] OTHER -> Tools
Widened ==
  \/ UNCHANGED engine
  \/ \A c \in Calls :
    (Decide(mode, rules, c) # "allow" /\ Decide(mode', rules', c) = "allow") =>
      \/ \E a \in Matching(rules', c, "allow") \ rules :
           \A r \in Refusing(rules', c) : Score(a) > Score(r)
      \/ Refusing(rules, c) \ rules' # {}
      \/ c.tool \in Wider(mode') \ Wider(mode)
WidenedOnlyBy == [][Widened]_engine
=============================================================================
