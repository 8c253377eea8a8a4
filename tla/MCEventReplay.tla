--------------------------- MODULE MCEventReplay ---------------------------
(***************************************************************************)
(* Logs for TLC: a node that takes a task and completes it, one that runs  *)
(* a tool and then takes the task, one that runs the tool twice, and one   *)
(* that runs it and then a tool call without a key.                        *)
(***************************************************************************)
EXTENDS EventReplay, TLC

CONSTANTS t1, k1

Assign   == [type |-> "task_assign", id |-> t1]
Complete == [type |-> "task_complete", id |-> t1]
Tool     == [type |-> "tool_call", id |-> k1]
Keyless  == [type |-> "other", id |-> "none"]

Scripts     == {<<Assign, Complete>>, <<Tool, Assign>>, <<Tool, Tool>>, <<Tool, Keyless>>}
MCHistories == {SubSeq(s, 1, k) : s \in Scripts, k \in 1..2}

\* The nodes have the same histories, and every property of the run is one of safety.
NodeSymmetry == Permutations(Nodes)
=============================================================================
