-------------------------- MODULE SubAgentsProofs --------------------------
(***************************************************************************)
(* Theorems about modules Permissions and SubAgents, for any number of     *)
(* children, any sources, texts and rules, and any contract.               *)
(***************************************************************************)
EXTENDS SubAgents, TLAPS

---------------------------------------------------------------------------
(* Decisions *)

\* Scores are numbers, of a finite scale.
Scale == {100, 90, 80, 70, 60, 50, 40, 30}

LEMMA ScoreType == \A r \in Rules : Score(r) \in Scale
<1> SUFFICES ASSUME NEW r \in Rules PROVE Score(r) \in Scale
  OBVIOUS
<1>1. r.source \in DOMAIN RULE_SOURCE_SCORE
  BY PermissionsAssumption DEF Rules
<1>2. \A s \in DOMAIN RULE_SOURCE_SCORE : RULE_SOURCE_SCORE[s] \in Scale
  BY DEF RULE_SOURCE_SCORE, Scale
<1> QED
  BY <1>1, <1>2 DEF Score

\* So of any rules, however many, there are some that no other outranks.
LEMMA HighestExists ==
  ASSUME NEW rs \in SUBSET Rules, rs # {}
  PROVE  \E m \in rs : \A r \in rs : Score(r) <= Score(m)
<1> DEFINE S == {Score(r) : r \in rs}
<1>1. S \subseteq Scale /\ S # {}
  BY ScoreType
<1>2. PICK n \in S : \A k \in S : k <= n
  <2> HIDE DEF S
  <2>1. CASE 100 \in S
    BY <1>1, <2>1 DEF Scale
  <2>2. CASE 100 \notin S /\ 90 \in S
    BY <1>1, <2>2 DEF Scale
  <2>3. CASE 100 \notin S /\ 90 \notin S /\ 80 \in S
    BY <1>1, <2>3 DEF Scale
  <2>4. CASE 100 \notin S /\ 90 \notin S /\ 80 \notin S
    <3>1. S \subseteq {70, 60, 50, 40, 30}
      BY <1>1, <2>4 DEF Scale
    <3>2. CASE 70 \in S
      BY <3>1, <3>2
    <3>3. CASE 70 \notin S /\ 60 \in S
      BY <3>1, <3>3
    <3>4. CASE 70 \notin S /\ 60 \notin S
      <4>1. S \subseteq {50, 40, 30}
        BY <3>1, <3>4
      <4>2. CASE 50 \in S
        BY <4>1, <4>2
      <4>3. CASE 50 \notin S /\ 40 \in S
        BY <4>1, <4>3
      <4>4. CASE 50 \notin S /\ 40 \notin S
        <5>1. S = {30}
          BY <1>1, <4>1, <4>4
        <5> QED
          BY <5>1
      <4> QED
        BY <4>2, <4>3, <4>4
    <3> QED
      BY <3>2, <3>3, <3>4
  <2> QED
    BY <2>1, <2>2, <2>3, <2>4
<1> QED
  BY <1>2

\* A call that is allowed although rules refuse it is allowed by a rule that
\* outranks them all.
LEMMA AllowOutranks ==
  ASSUME NEW rs \in SUBSET Rules, NEW c \in Calls, Refusing(rs, c) # {},
         ~Holds(rs, c, "deny"), ~Holds(rs, c, "ask")
  PROVE  \E a \in Matching(rs, c, "allow") : \A r \in Refusing(rs, c) : Score(a) > Score(r)
<1>1. Refusing(rs, c) \subseteq Rules /\ Matching(rs, c, "allow") \subseteq Rules
  BY DEF Refusing, Matching
<1>2. PICK m \in Refusing(rs, c) : \A r \in Refusing(rs, c) : Score(r) <= Score(m)
  BY <1>1, HighestExists
<1>3. PICK a \in Matching(rs, c, "allow") : Score(a) > Score(m)
  BY <1>2 DEF Refusing, Holds
<1>4. \A r \in Refusing(rs, c) : Score(a) > Score(r)
  <2>1. \A r \in Rules : Score(r) \in Nat
    BY ScoreType DEF Scale
  <2> QED
    BY <1>1, <1>2, <1>3, <2>1
<1> QED
  BY <1>4

\* From one engine state to any other, a call is newly allowed only for one of the
\* three reasons Widened names.
LEMMA WidenedAlways ==
  ASSUME mode \in Modes, rules \subseteq Rules, mode' \in Modes, rules' \subseteq Rules
  PROVE  Widened
<1> SUFFICES ASSUME NEW c \in Calls,
                    Decide(mode, rules, c) # "allow", Decide(mode', rules', c) = "allow",
                    Refusing(rules, c) \subseteq rules',
                    c.tool \notin Wider(mode') \ Wider(mode)
             PROVE  \E a \in Matching(rules', c, "allow") \ rules :
                      \A r \in Refusing(rules', c) : Score(a) > Score(r)
  BY DEF Widened
<1>1. ~Holds(rules', c, "deny") /\ ~Holds(rules', c, "ask") /\ ~RunSafetyCheck(c)
  BY DEF Decide
<1>2. Refusing(rules, c) \subseteq Refusing(rules', c)
  BY DEF Refusing, Matching
<1>3. CASE Refusing(rules', c) # {}
  <2>1. PICK a \in Matching(rules', c, "allow") : \A r \in Refusing(rules', c) : Score(a) > Score(r)
    BY <1>1, <1>3, AllowOutranks
  <2>2. ASSUME a \in rules PROVE FALSE
    <3>1. a \in Matching(rules, c, "allow")
      BY <2>2 DEF Matching
    <3>2. ~Holds(rules, c, "deny") /\ ~Holds(rules, c, "ask")
      BY <1>2, <2>1, <3>1 DEF Holds, Refusing
    <3> QED
      BY <1>1, <3>1, <3>2 DEF Decide
  <2> QED
    BY <2>1, <2>2
<1>4. CASE Refusing(rules', c) = {}
  <2>1. ~Holds(rules, c, "deny") /\ ~Holds(rules, c, "ask")
    BY <1>2, <1>4 DEF Holds, Refusing
  <2>2. /\ mode # "bypassPermissions"
        /\ ~(mode = "acceptEdits" /\ c.tool \in EditTools)
        /\ Matching(rules, c, "allow") = {}
    BY <1>1, <2>1 DEF Decide
  <2>3. ~(mode' = "bypassPermissions" \/ (mode' = "acceptEdits" /\ c.tool \in EditTools))
    <3>1. c.tool \in Tools /\ EditTools \subseteq Tools
      BY DEF Calls, EditTools, Tools
    <3>2. c.tool \notin Wider(mode)
      BY <2>2 DEF Wider, Modes
    <3> QED
      BY <3>1, <3>2 DEF Wider
  <2>4. PICK a \in Matching(rules', c, "allow") : TRUE
    BY <1>1, <2>3 DEF Decide
  <2>5. a \notin rules
    BY <2>2, <2>4 DEF Matching
  <2> QED
    BY <1>4, <2>4, <2>5
<1> QED
  BY <1>3, <1>4

---------------------------------------------------------------------------
(* Types *)

\* Inheritance gives a mode of the engine's.
LEMMA ModeResolved ==
  ASSUME NEW type \in AgentTypes, NEW m \in ModeOrNone
  PROVE  ResolvePermissionMode(type, m) \in Modes
BY DEF ResolvePermissionMode, OwnMode, ModeOrNone, Modes

\* A parsed rule is a rule.
LEMMA ParsedRule ==
  ASSUME NEW n \in RuleNames, NEW t \in Texts \cup {"any"}, NEW b \in Behaviors, NEW s \in Sources
  PROVE  ParseRule(n, t, b, s) \in Rules
<1>1. n \in Names
  BY PermissionsAssumption
<1>2. ResolveAlias(n) \in Names
  BY <1>1 DEF ResolveAlias, Names, Tools
<1> QED
  BY <1>2 DEF ParseRule, Rules

LEMMA EngineTypes == EngineTypeOK /\ EngineNext => EngineTypeOK'
<1> SUFFICES ASSUME EngineTypeOK, EngineNext PROVE EngineTypeOK'
  OBVIOUS
<1>1. ASSUME NEW names \in SUBSET RuleNames, NEW t \in Texts \cup {"any"}, NEW b \in Behaviors,
             NEW s \in Sources, AddRules(names, t, b, s)
      PROVE  EngineTypeOK'
  <2>1. {ParseRule(n, t, b, s) : n \in names} \subseteq Rules
    BY ParsedRule
  <2> QED
    BY <1>1, <2>1 DEF AddRules, EngineTypeOK
<1>2. ASSUME NEW n \in RuleNames, NEW t \in Texts \cup {"any"}, NEW b \in Behaviors,
             NEW s \in Sources, AddRule(n, t, b, s)
      PROVE  EngineTypeOK'
  <2>1. {n} \in SUBSET RuleNames /\ AddRules({n}, t, b, s)
    BY <1>2 DEF AddRule
  <2> QED
    BY <1>1, <2>1
<1>3. ASSUME NEW s \in Sources, RemoveRulesBySource(s) PROVE EngineTypeOK'
  BY <1>3 DEF RemoveRulesBySource, EngineTypeOK
<1>4. CASE ClearRules
  BY <1>4 DEF ClearRules, EngineTypeOK
<1>5. CASE SetMode
  BY <1>5 DEF SetMode, EngineTypeOK
<1>6. RuleNames \in SUBSET RuleNames
  OBVIOUS
<1> QED
  BY <1>1, <1>2, <1>3, <1>4, <1>5, <1>6 DEF EngineNext

LEMMA InitTypes == Init => TypeOK
<1> SUFFICES ASSUME Init PROVE TypeOK
  OBVIOUS
<1>1. Idle \in Configs /\ Idle.type = "unknown"
  BY DEF Idle, Configs, Consumers, ModeOrNone
<1>2. EngineTypeOK
  BY DEF Init, EngineInit, EngineTypeOK
<1> QED
  BY <1>1, <1>2 DEF Init, TypeOK, Points

LEMMA SpawnTypes ==
  ASSUME TypeOK, NEW a \in Agents, NEW type \in AgentTypes \cup {"unknown"}, NEW k \in Consumers,
         NEW supervised \in BOOLEAN, NEW linked \in BOOLEAN, NEW m \in ModeOrNone,
         Spawn(a, type, k, supervised, linked, m)
  PROVE  TypeOK'
<1> DEFINE cm == IF type = "unknown" THEN "none" ELSE ResolvePermissionMode(type, m)
           new == [type |-> type, consumer |-> k, supervised |-> supervised, linked |-> linked,
                   mode |-> cm]
<1>1. cm \in ModeOrNone /\ (type = "unknown" \/ cm \in Modes)
  BY ModeResolved DEF ModeOrNone
<1>2. new \in Configs /\ new.type = type /\ new.mode = cm
  BY <1>1 DEF Configs
<1>3. config' = [config EXCEPT ![a] = new]
  BY DEF Spawn
<1>4. config' \in [Agents -> Configs]
  BY <1>2, <1>3 DEF TypeOK
<1>5. \A b \in Agents : config'[b].type = "unknown" \/ config'[b].mode \in Modes
  <2> SUFFICES ASSUME NEW b \in Agents PROVE config'[b].type = "unknown" \/ config'[b].mode \in Modes
    OBVIOUS
  <2>1. CASE b = a
    BY <2>1, <1>1, <1>2, <1>3 DEF TypeOK
  <2>2. CASE b # a
    BY <2>2, <1>3 DEF TypeOK
  <2> QED
    BY <2>1, <2>2
<1>6. pc' \in [Agents -> Points]
  BY DEF Spawn, Goto, TypeOK, Points, Suspended
<1>7. erred' \in [Agents -> BOOLEAN]
  BY DEF Spawn, TypeOK
<1>8. UNCHANGED <<mode, rules, signalled, run, abort, hears, outcome>>
  BY DEF Spawn, Same, engine
<1> QED
  BY <1>4, <1>5, <1>6, <1>7, <1>8 DEF TypeOK, EngineTypeOK

\* Every step of a child's life after it was spawned.
LEMMA ChildTypes ==
  ASSUME TypeOK, NEW a \in Agents,
         ReadOn(a) \/ Leave(a) \/ Begin(a) \/ LoopYields(a) \/ LoopEnds(a) \/ LoopThrows(a)
  PROVE  TypeOK'
<1>1. UNCHANGED <<mode, rules, signalled, config>>
  BY DEF ReadOn, Leave, Begin, LoopYields, LoopEnds, LoopThrows, Same, engine
<1>2. pc' \in [Agents -> Points]
  BY DEF ReadOn, Leave, Begin, LoopYields, LoopEnds, LoopThrows, Goto, TypeOK, Points, Suspended
<1>3. run' \in [Agents -> {"none", "live", "final"}]
  BY DEF ReadOn, Leave, Begin, LoopYields, LoopEnds, LoopThrows, Finalize, TypeOK
<1>4. abort' \in [Agents -> BOOLEAN]
  <2>1. CASE Begin(a)
    BY <2>1, Zenon DEF Begin, TypeOK
  <2>2. CASE UNCHANGED abort
    BY <2>2 DEF TypeOK
  <2> QED
    BY <2>1, <2>2 DEF ReadOn, Leave, LoopYields, LoopEnds, LoopThrows
<1>5. hears' \in [Agents -> BOOLEAN]
  <2>1. CASE Begin(a)
    BY <2>1, Zenon DEF Begin, TypeOK
  <2>2. CASE UNCHANGED hears
    BY <2>2 DEF TypeOK
  <2> QED
    BY <2>1, <2>2 DEF ReadOn, Leave, LoopYields, LoopEnds, LoopThrows
<1>6. erred' \in [Agents -> BOOLEAN]
  <2>1. CASE ReadOn(a)
    BY <2>1, Zenon DEF ReadOn, TypeOK
  <2>2. CASE LoopYields(a) \/ LoopThrows(a)
    BY <2>2 DEF LoopYields, LoopThrows, TypeOK
  <2>3. CASE UNCHANGED erred
    BY <2>3 DEF TypeOK
  <2> QED
    BY <2>1, <2>2, <2>3 DEF Leave, Begin, LoopEnds
<1>7. outcome' \in [Agents -> {"none", "ok", "error"}]
  BY DEF ReadOn, Leave, Begin, LoopYields, LoopEnds, LoopThrows, TypeOK
<1> QED
  BY <1>1, <1>2, <1>3, <1>4, <1>5, <1>6, <1>7 DEF TypeOK, EngineTypeOK

\* What a call of the task tool or of spawnAgent gives Spawn to start from.
LEMMA SpawnsAs ==
  ASSUME TypeOK, NEW a \in Agents, TaskTool(a) \/ Direct(a)
  PROVE  \E type \in AgentTypes \cup {"unknown"}, k \in Consumers, supervised, linked \in BOOLEAN,
            m \in ModeOrNone : Spawn(a, type, k, supervised, linked, m)
<1>1. CASE TaskTool(a)
  <2>1. PICK type \in AskedTypes \ {"unknown"} : Spawn(a, type, "task", FALSE, FALSE, "none")
    BY <1>1 DEF TaskTool
  <2>2. type \in AgentTypes \cup {"unknown"} /\ "task" \in Consumers /\ "none" \in ModeOrNone
    BY AgentsAssumption DEF Consumers, ModeOrNone
  <2> QED
    BY <2>1, <2>2
<1>2. CASE Direct(a)
  <2>1. PICK type \in AskedTypes, k \in {"collect", "stream"}, supervised \in BOOLEAN,
             linked \in BOOLEAN, m \in {mode, "none"} : Spawn(a, type, k, supervised, linked, m)
    BY <1>2 DEF Direct
  <2>2. type \in AgentTypes \cup {"unknown"} /\ k \in Consumers /\ m \in ModeOrNone
    BY AgentsAssumption DEF Consumers, ModeOrNone, TypeOK, EngineTypeOK
  <2> QED
    BY <2>1, <2>2
<1> QED
  BY <1>1, <1>2

LEMMA TypeStep == TypeOK /\ [Next]_vars => TypeOK'
<1> SUFFICES ASSUME TypeOK, [Next]_vars PROVE TypeOK'
  OBVIOUS
<1>1. CASE Engine
  <2>1. EngineTypeOK'
    BY <1>1, EngineTypes DEF Engine, TypeOK
  <2> QED
    BY <1>1, <2>1 DEF Engine, TypeOK, children
<1>2. CASE ParentAborts
  <2>1. abort' \in [Agents -> BOOLEAN]
    BY <1>2, Zenon DEF ParentAborts
  <2> QED
    BY <1>2, <2>1 DEF ParentAborts, TypeOK, EngineTypeOK, engine
<1>3. CASE CancelScope
  <2>1. abort' \in [Agents -> BOOLEAN]
    BY <1>3, Zenon DEF CancelScope
  <2> QED
    BY <1>3, <2>1 DEF CancelScope, TypeOK, EngineTypeOK, engine
<1>4. ASSUME NEW a \in Agents, TaskTool(a) \/ Direct(a) PROVE TypeOK'
  BY <1>4, SpawnsAs, SpawnTypes
<1>5. ASSUME NEW a \in Agents,
             ReadOn(a) \/ Leave(a) \/ Begin(a) \/ LoopYields(a) \/ LoopEnds(a) \/ LoopThrows(a)
      PROVE  TypeOK'
  BY <1>5, ChildTypes
<1>6. CASE UNCHANGED vars
  BY <1>6 DEF vars, engine, children, TypeOK, EngineTypeOK
<1> QED
  BY <1>1, <1>2, <1>3, <1>4, <1>5, <1>6 DEF Next

\* Every variable keeps its type, and every child has a permission mode.
THEOREM TypeCorrect == Spec => []TypeOK
BY InitTypes, TypeStep, PTL DEF Spec

---------------------------------------------------------------------------
(* Decisions, for every state *)

\* A call the safety check is about is allowed in no mode and by no rules.
THEOREM SafetyIsImmune ==
  ASSUME NEW m \in Modes, NEW rs \in SUBSET Rules, NEW c \in Calls, RunSafetyCheck(c)
  PROVE  Decide(m, rs, c) # "allow"
BY DEF Decide

\* No operation of the engine lets a refused call through, but by an allow rule that
\* outranks every rule against it, without a rule that refused it, or by a wider mode.
THEOREM OnlyThatWidens == Spec => WidenedOnlyBy
<1>1. TypeOK /\ TypeOK' => [Widened]_engine
  <2> SUFFICES ASSUME TypeOK, TypeOK' PROVE Widened
    OBVIOUS
  <2> QED
    BY WidenedAlways DEF TypeOK, EngineTypeOK
<1> QED
  BY <1>1, TypeCorrect, PTL DEF WidenedOnlyBy

---------------------------------------------------------------------------
(* The lives of children *)

\* What holds of one child: a live run just inside the try statement, an error event
\* behind every point that tells one, and a task tool that has seen none so far.
ChildInv(a) ==
  /\ run[a] = "live" <=> config[a].supervised /\ pc[a] \in InTry
  /\ pc[a] \in {"erred", "thrown", "failed", "refused"} => erred[a]
  /\ pc[a] = "none" => ~erred[a]
  /\ outcome[a] # "none" => pc[a] = "ended"
  /\ config[a].consumer = "task" /\ pc[a] \in {"start", "event", "model", "loop", "done"} => ~erred[a]
  /\ outcome[a] = "ok" /\ config[a].consumer = "task" => ~erred[a]
  /\ outcome[a] = "error" => erred[a]
ChildrenInv == TypeOK /\ \A a \in Agents : ChildInv(a)

\* A child nobody touches keeps its invariant.
LEMMA OthersStay ==
  ASSUME NEW b \in Agents, ChildInv(b),
         pc'[b] = pc[b], config'[b] = config[b], run'[b] = run[b],
         erred'[b] = erred[b], outcome'[b] = outcome[b]
  PROVE  ChildInv(b)'
BY DEF ChildInv

\* A step of child a leaves the others as they are.
LEMMA OneChild ==
  ASSUME TypeOK, NEW a \in Agents, NEW b \in Agents, a # b,
         \/ TaskTool(a) \/ Direct(a) \/ ReadOn(a) \/ Leave(a) \/ Begin(a)
         \/ LoopYields(a) \/ LoopEnds(a) \/ LoopThrows(a)
  PROVE  /\ pc'[b] = pc[b] /\ config'[b] = config[b] /\ run'[b] = run[b]
         /\ erred'[b] = erred[b] /\ outcome'[b] = outcome[b]
<1>1. CASE TaskTool(a) \/ Direct(a)
  BY <1>1 DEF TaskTool, Direct, Spawn, Goto, TypeOK
<1>2. CASE ReadOn(a) \/ Leave(a) \/ Begin(a)
  BY <1>2 DEF ReadOn, Leave, Begin, Goto, Finalize, TypeOK
<1>3. CASE LoopYields(a) \/ LoopEnds(a) \/ LoopThrows(a)
  BY <1>3 DEF LoopYields, LoopEnds, LoopThrows, Goto, Finalize, TypeOK
<1> QED
  BY <1>1, <1>2, <1>3

LEMMA SpawnKeeps ==
  ASSUME TypeOK, NEW a \in Agents, ChildInv(a), TaskTool(a) \/ Direct(a)
  PROVE  ChildInv(a)'
<1>1. PICK type \in AgentTypes \cup {"unknown"}, k \in Consumers, supervised \in BOOLEAN,
           linked \in BOOLEAN, m \in ModeOrNone : Spawn(a, type, k, supervised, linked, m)
  BY SpawnsAs
<1>2. pc[a] = "none" /\ pc'[a] = (IF type = "unknown" THEN "refused" ELSE "start")
  BY <1>1 DEF Spawn, Goto, TypeOK
<1>3. erred'[a] <=> type = "unknown"
  BY <1>1 DEF Spawn, TypeOK
<1>4. run'[a] = run[a] /\ outcome'[a] = outcome[a] /\ outcome[a] = "none" /\ run[a] # "live"
  BY <1>1, <1>2 DEF Spawn, ChildInv, InTry
<1> QED
  BY <1>2, <1>3, <1>4 DEF ChildInv, InTry

LEMMA ReadOnKeeps ==
  ASSUME TypeOK, NEW a \in Agents, ChildInv(a), ReadOn(a)
  PROVE  ChildInv(a)'
<1>1. /\ config' = config /\ pc[a] \in Suspended
      /\ config[a].consumer = "task" => pc[a] \in {"start", "event"}
  BY DEF ReadOn
<1>2. /\ pc[a] = "start" => pc'[a] \in {"refused", "model"}
      /\ pc[a] \in {"event", "erred"} => pc'[a] = "loop"
      /\ pc[a] = "thrown" => pc'[a] = "failed"
      /\ pc[a] \in {"failed", "done", "refused"} => pc'[a] = "ended"
  BY <1>1 DEF ReadOn, Goto, TypeOK, Suspended
<1>3. erred'[a] <=> (erred[a] \/ pc'[a] = "refused")
  BY Zenon DEF ReadOn, TypeOK
<1>4. run'[a] = IF pc[a] = "failed" /\ run[a] = "live" THEN "final" ELSE run[a]
  BY DEF ReadOn, Finalize, TypeOK
<1>5. outcome'[a] = IF config[a].consumer # "collect" THEN outcome[a]
                    ELSE IF pc[a] = "done" THEN "ok"
                    ELSE IF pc[a] \in {"failed", "refused"} THEN "error" ELSE outcome[a]
  BY DEF ReadOn, TypeOK
<1>6. (run[a] = "live" <=> config[a].supervised /\ pc[a] \in InTry)'
  BY <1>1, <1>2, <1>4 DEF ChildInv, InTry, Suspended
<1>7. outcome[a] = "none"
  BY <1>1 DEF ChildInv, Suspended
<1>8. outcome'[a] # "none" => pc'[a] = "ended" /\ config[a].consumer = "collect"
  BY <1>2, <1>5, <1>7
<1>9. outcome'[a] = "error" => erred'[a]
  BY <1>3, <1>5, <1>7 DEF ChildInv
<1>10. pc'[a] \in {"erred", "thrown", "failed", "refused"} => erred'[a]
  BY <1>1, <1>2, <1>3 DEF ChildInv, Suspended
<1>11. config[a].consumer = "task" /\ pc'[a] \in {"start", "event", "model", "loop", "done"} => ~erred'[a]
  BY <1>1, <1>2, <1>3 DEF ChildInv
<1>12. pc'[a] # "none"
  BY <1>1, <1>2 DEF Suspended
<1> QED
  BY <1>1, <1>6, <1>8, <1>9, <1>10, <1>11, <1>12 DEF ChildInv

LEMMA LeaveKeeps ==
  ASSUME TypeOK, NEW a \in Agents, ChildInv(a), Leave(a)
  PROVE  ChildInv(a)'
<1>1. config' = config /\ erred' = erred /\ pc'[a] = "ended" /\ Leaves(a)
  BY DEF Leave, Goto, TypeOK
<1>2. run'[a] # "live"
  BY DEF Leave, Finalize, TypeOK, ChildInv
<1>3. outcome'[a] = IF config[a].consumer = "task" THEN IF pc[a] = "done" THEN "ok" ELSE "error"
                    ELSE outcome[a]
  BY DEF Leave, TypeOK
<1>4. config[a].consumer = "task" => pc[a] \in {"erred", "thrown", "refused", "done"}
  BY <1>1 DEF Leaves
<1>5. outcome'[a] = "ok" /\ config[a].consumer = "task" => ~erred[a]
  BY <1>3, <1>4 DEF ChildInv
<1>6. outcome'[a] = "error" => erred[a]
  BY <1>3, <1>4 DEF ChildInv
<1> QED
  BY <1>1, <1>2, <1>5, <1>6 DEF ChildInv, InTry

LEMMA LoopKeeps ==
  ASSUME TypeOK, NEW a \in Agents, ChildInv(a),
         Begin(a) \/ LoopYields(a) \/ LoopEnds(a) \/ LoopThrows(a)
  PROVE  ChildInv(a)'
<1>1. config' = config /\ outcome' = outcome
  BY DEF Begin, LoopYields, LoopEnds, LoopThrows
<1>2. CASE Begin(a)
  <2>1. pc[a] = "model" /\ pc'[a] = "loop" /\ erred' = erred
    BY <1>2 DEF Begin, Goto, TypeOK
  <2>2. run'[a] = IF config[a].supervised THEN "live" ELSE run[a]
    BY <1>2 DEF Begin, TypeOK
  <2> QED
    BY <1>1, <2>1, <2>2 DEF ChildInv, InTry
<1>3. CASE LoopYields(a)
  <2>1. /\ pc[a] = "loop" /\ run' = run
        /\ \/ pc'[a] = "event" /\ erred'[a] = erred[a]
           \/ pc'[a] = "erred" /\ erred'[a] = TRUE
    BY <1>3 DEF LoopYields, Goto, TypeOK
  <2> QED
    BY <1>1, <2>1 DEF ChildInv, InTry
<1>4. CASE LoopEnds(a)
  <2>1. pc[a] = "loop" /\ pc'[a] = "done" /\ erred' = erred /\ run'[a] # "live"
    BY <1>4 DEF LoopEnds, Goto, Finalize, TypeOK
  <2> QED
    BY <1>1, <2>1 DEF ChildInv, InTry
<1>5. CASE LoopThrows(a)
  <2>1. pc[a] = "loop" /\ pc'[a] = "thrown" /\ erred'[a] = TRUE /\ run' = run
    BY <1>5 DEF LoopThrows, Goto, TypeOK
  <2> QED
    BY <1>1, <2>1 DEF ChildInv, InTry
<1> QED
  BY <1>2, <1>3, <1>4, <1>5

LEMMA ChildrenStep == ChildrenInv /\ [Next]_vars => ChildrenInv'
<1> SUFFICES ASSUME ChildrenInv, [Next]_vars PROVE ChildrenInv'
  OBVIOUS
<1>1. TypeOK /\ TypeOK'
  BY TypeStep DEF ChildrenInv
<1> SUFFICES ASSUME NEW b \in Agents PROVE ChildInv(b)'
  BY <1>1 DEF ChildrenInv
<1>2. ChildInv(b)
  BY DEF ChildrenInv
<1>3. CASE Engine \/ ParentAborts \/ CancelScope \/ UNCHANGED vars
  <2>1. UNCHANGED <<pc, config, run, erred, outcome>>
    BY <1>3 DEF Engine, ParentAborts, CancelScope, vars, children
  <2> QED
    BY <1>2, <2>1, OthersStay
<1>4. ASSUME NEW a \in Agents,
             \/ TaskTool(a) \/ Direct(a) \/ ReadOn(a) \/ Leave(a) \/ Begin(a)
             \/ LoopYields(a) \/ LoopEnds(a) \/ LoopThrows(a)
      PROVE  ChildInv(b)'
  <2>1. CASE a = b
    BY <1>1, <1>2, <1>4, <2>1, SpawnKeeps, ReadOnKeeps, LeaveKeeps, LoopKeeps
  <2>2. CASE a # b
    BY <1>1, <1>2, <1>4, <2>2, OneChild, OthersStay
  <2> QED
    BY <2>1, <2>2
<1> QED
  BY <1>3, <1>4 DEF Next

LEMMA ChildrenInit == Init => ChildrenInv
BY InitTypes DEF Init, ChildrenInv, ChildInv, InTry

LEMMA ChildrenInvariant == Spec => []ChildrenInv
BY ChildrenInit, ChildrenStep, PTL DEF Spec

\* A run is live in the supervisor's books just as long as its child is inside the
\* try statement, whichever way it leaves it.
THEOREM RunsAreClosed == Spec => []LiveIffRunning
<1>1. ChildrenInv => LiveIffRunning
  BY DEF ChildrenInv, ChildInv, LiveIffRunning
<1> QED
  BY <1>1, ChildrenInvariant, PTL

\* The task tool never answers ok for a child that reported an error, and no
\* consumer reports an error without one.
THEOREM ErrorsAreTold == Spec => []ErrorsTold
<1>1. ChildrenInv => ErrorsTold
  BY DEF ChildrenInv, ChildInv, ErrorsTold
<1> QED
  BY <1>1, ChildrenInvariant, PTL

---------------------------------------------------------------------------
(* Aborts *)

\* A child that was given the signal and has a controller listens for it or is
\* aborted already, and nobody listens in vain.
HearInv(a) ==
  /\ config[a].supervised /\ config[a].linked /\ pc[a] \in InTry => hears[a] \/ abort[a]
  /\ signalled /\ hears[a] => abort[a]
AbortInv == TypeOK /\ \A a \in Agents : HearInv(a)

\* A step after which a child is inside the try statement only if it was, with the
\* configuration it had, does not deafen it.
LEMMA StaysHeard ==
  ASSUME NEW b \in Agents, HearInv(b), hears' = hears, signalled' = signalled,
         abort[b] => abort'[b],
         pc'[b] \in InTry => pc[b] \in InTry /\ config'[b] = config[b]
  PROVE  HearInv(b)'
BY DEF HearInv

\* Each step of a child but the one that makes its controller is of that kind.
LEMMA QuietSteps ==
  ASSUME TypeOK, NEW a \in Agents, NEW b \in Agents,
         \/ TaskTool(a) \/ Direct(a) \/ ReadOn(a) \/ Leave(a)
         \/ LoopYields(a) \/ LoopEnds(a) \/ LoopThrows(a)
  PROVE  /\ hears' = hears /\ signalled' = signalled /\ abort' = abort
         /\ pc'[b] \in InTry => pc[b] \in InTry /\ config'[b] = config[b]
<1>1. CASE TaskTool(a) \/ Direct(a)
  <2>1. PICK type \in AgentTypes \cup {"unknown"}, k \in Consumers, supervised \in BOOLEAN,
             linked \in BOOLEAN, m \in ModeOrNone : Spawn(a, type, k, supervised, linked, m)
    BY <1>1, SpawnsAs
  <2>2. hears' = hears /\ signalled' = signalled /\ abort' = abort
    BY <2>1 DEF Spawn, Same
  <2>3. CASE a = b
    <3>1. pc'[b] \in {"refused", "start"}
      BY <2>1, <2>3 DEF Spawn, Goto, TypeOK
    <3> QED
      BY <2>2, <3>1 DEF InTry
  <2>4. CASE a # b
    BY <1>1, <2>2, <2>4, OneChild
  <2> QED
    BY <2>3, <2>4
<1>2. CASE ReadOn(a)
  <2>1. hears' = hears /\ signalled' = signalled /\ abort' = abort /\ config' = config
    BY <1>2 DEF ReadOn, Same
  <2>2. pc[a] \in Suspended
    BY <1>2 DEF ReadOn
  <2>3. /\ pc[a] = "start" => pc'[a] \in {"refused", "model"}
        /\ pc[a] \in {"failed", "done", "refused"} => pc'[a] = "ended"
        /\ \A x \in Agents : x # a => pc'[x] = pc[x]
    BY <1>2 DEF ReadOn, Goto, TypeOK, Suspended
  <2> QED
    BY <2>1, <2>2, <2>3 DEF InTry, Suspended
<1>3. CASE Leave(a)
  BY <1>3 DEF Leave, Same, Goto, TypeOK, InTry
<1>4. CASE LoopYields(a) \/ LoopEnds(a) \/ LoopThrows(a)
  BY <1>4 DEF LoopYields, LoopEnds, LoopThrows, Same, Goto, TypeOK, InTry
<1> QED
  BY <1>1, <1>2, <1>3, <1>4

LEMMA AbortStep == AbortInv /\ [Next]_vars => AbortInv'
<1> SUFFICES ASSUME AbortInv, [Next]_vars PROVE AbortInv'
  OBVIOUS
<1>1. TypeOK /\ TypeOK'
  BY TypeStep DEF AbortInv
<1> SUFFICES ASSUME NEW b \in Agents PROVE HearInv(b)'
  BY <1>1 DEF AbortInv
<1>2. HearInv(b)
  BY DEF AbortInv
<1>3. CASE Engine \/ UNCHANGED vars
  BY <1>2, <1>3 DEF Engine, vars, children, HearInv
<1>4. CASE ParentAborts
  <2>1. abort'[b] = (abort[b] \/ hears[b]) /\ UNCHANGED <<hears, pc, config>>
    BY <1>4 DEF ParentAborts
  <2> QED
    BY <1>2, <2>1 DEF HearInv
<1>5. CASE CancelScope
  <2>1. abort'[b] = (abort[b] \/ run[b] = "live") /\ UNCHANGED <<hears, pc, config, signalled>>
    BY <1>5 DEF CancelScope
  <2> QED
    BY <1>2, <2>1 DEF HearInv
<1>6. ASSUME NEW a \in Agents, Begin(a) PROVE HearInv(b)'
  <2>1. pc[a] = "model" /\ config' = config /\ signalled' = signalled
    BY <1>6 DEF Begin, Same
  <2>2. CASE a = b
    <3>1. CASE config[b].supervised
      <4>1. /\ abort' = [abort EXCEPT ![b] = config[b].linked /\ signalled]
            /\ hears' = [hears EXCEPT ![b] = config[b].linked /\ ~signalled]
        BY <1>6, <2>2, <3>1, Zenon DEF Begin
      <4>2. /\ abort'[b] <=> config[b].linked /\ signalled
            /\ hears'[b] <=> config[b].linked /\ ~signalled
        BY <1>1, <4>1, Zenon DEF TypeOK
      <4> QED
        BY <2>1, <4>2 DEF HearInv
    <3>2. CASE ~config[b].supervised
      <4>1. hears' = hears /\ abort' = abort
        BY <1>6, <2>2, <3>2 DEF Begin
      <4> QED
        BY <1>2, <2>1, <3>2, <4>1 DEF HearInv
    <3> QED
      BY <3>1, <3>2
  <2>3. CASE a # b
    <3>1. pc'[b] = pc[b] /\ hears'[b] = hears[b] /\ abort'[b] = abort[b]
      BY <1>1, <1>6, <2>3 DEF Begin, Goto, TypeOK
    <3> QED
      BY <1>2, <2>1, <3>1 DEF HearInv
  <2> QED
    BY <2>2, <2>3
<1>7. ASSUME NEW a \in Agents,
             \/ TaskTool(a) \/ Direct(a) \/ ReadOn(a) \/ Leave(a)
             \/ LoopYields(a) \/ LoopEnds(a) \/ LoopThrows(a)
      PROVE  HearInv(b)'
  <2>1. /\ hears' = hears /\ signalled' = signalled /\ abort' = abort
        /\ pc'[b] \in InTry => pc[b] \in InTry /\ config'[b] = config[b]
    BY <1>1, <1>7, QuietSteps
  <2> QED
    BY <1>2, <2>1, StaysHeard
<1> QED
  BY <1>3, <1>4, <1>5, <1>6, <1>7 DEF Next

LEMMA AbortInit == Init => AbortInv
BY InitTypes DEF Init, AbortInv, HearInv, InTry

\* Whenever the parent's abort comes, each child that was given its signal runs with
\* an aborted one from then on: nothing the supervisor or the child does in between
\* leaves a child that neither listens nor is aborted.
THEOREM AbortsAreHeard == Spec => []AbortsHeard
<1>1. AbortInv => AbortsHeard
  <2> SUFFICES ASSUME AbortInv, NEW a \in Agents,
                      signalled, config[a].linked, pc[a] \in InTry
               PROVE  Aborted(a)
    BY DEF AbortsHeard
  <2>1. HearInv(a)
    BY DEF AbortInv
  <2> QED
    BY <2>1 DEF HearInv, Aborted
<1> QED
  BY <1>1, AbortInit, AbortStep, PTL DEF Spec
=============================================================================
