---------------------------- MODULE MCSubAgents ----------------------------
(***************************************************************************)
(* One child of a main loop whose contract calls the task tool a medium    *)
(* risk.  The rules are about the task tool, by an alias of its name, of a *)
(* high and of a low source.                                               *)
(***************************************************************************)
EXTENDS SubAgents

MCRisk == [t \in {"task", "shell_exec"} |-> IF t = "task" THEN "medium" ELSE "high"]
=============================================================================
