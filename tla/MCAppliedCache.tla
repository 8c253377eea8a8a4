-------------------------- MODULE MCAppliedCache ---------------------------
(***************************************************************************)
(* AppliedCache over bundles of MCConfigSync, with two requests that read  *)
(* applied.json.                                                           *)
(***************************************************************************)
EXTENDS MCConfigSync, AppliedCache

CONSTANTS r1, r2
ReaderSymmetry == Permutations({r1, r2})
=============================================================================
