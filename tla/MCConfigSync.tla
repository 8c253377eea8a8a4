--------------------------- MODULE MCConfigSync ----------------------------
(***************************************************************************)
(* Bundles for TLC.  b1, b2 and b3 say the same and follow one another, b1 *)
(* from another instance, b3 from a later commit of TriCompany; b4 differs *)
(* and is newer than b2.                                                   *)
(***************************************************************************)
EXTENDS ConfigSync, TLC

CONSTANTS b1, b2, b3, b4

MCTime    == [b \in Bundles |-> CASE b = b1 -> 1 [] b = b2 -> 2 [] OTHER -> 3]
MCHash    == [b \in Bundles |-> IF b = b4 THEN "h4" ELSE "h1"]
MCSource  == [b \in Bundles |-> IF b = b1 THEN "other" ELSE "main"]
MCCommit  == [b \in Bundles |-> IF b = b3 THEN 2 ELSE 1]
=============================================================================
