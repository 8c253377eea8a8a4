---------------------------- MODULE BundleStore ----------------------------
(***************************************************************************)
(* What an apply of TriMC's configuration sync (src/config-sync/apply.ts)  *)
(* promises those who read init-sync: applied.json changes at a stroke, to *)
(* a bundle that is not older, or by one more warning; after that the      *)
(* sections follow one by one, in order, and only those of the bundle it   *)
(* names.  Processes, temporary files, git and half-written files are not  *)
(* seen.  An apply that dies leaves the rest of its sections out.          *)
(***************************************************************************)
EXTENDS Naturals

CONSTANTS
  Bundles,      \* well-formed bundles
  Time,         \* generatedAt of a bundle
  NoEmployees,  \* bundles whose employees section is unavailable
  Uncovered,    \* bundles that name a provider this server has no key for
  Sections      \* number of sections

VARIABLES
  manifest,  \* applied.json: its bundle, its employees section, its warnings
  section    \* the bundle each section file is of

vars == <<manifest, section>>

Init ==
  /\ manifest = [of |-> "none", employees |-> "none", warnings |-> {}]
  /\ section = [i \in 1..Sections |-> "none"]

\* The warnings a bundle is applied with.
Notes(b, e) ==
  (IF b \in Uncovered THEN {"keys"} ELSE {})
    \cup (IF e = "warning" THEN {"employees"} ELSE {})

Outdated(b) == manifest.of \in Bundles /\ Time[b] < Time[manifest.of]

\* Bundle b is applied, and with it what became of its employees section.
Apply(b, e) ==
  /\ b # manifest.of /\ ~Outdated(b)
  /\ (e = "unavailable") <=> (b \in NoEmployees)
  /\ manifest' = [of |-> b, employees |-> e, warnings |-> Notes(b, e)]
  /\ UNCHANGED section

\* A section file is replaced by that of the applied bundle; those before it are.
Follow(i) ==
  /\ manifest.of \in Bundles
  /\ \A j \in 1..Sections : j < i => section[j] = manifest.of
  /\ section' = [section EXCEPT ![i] = manifest.of]
  /\ UNCHANGED manifest

\* An older bundle that says something else, or that somebody else made, was refused.
Warn(w) ==
  /\ \E b \in Bundles : Outdated(b)
  /\ manifest' = [manifest EXCEPT !.warnings = @ \cup {w}]
  /\ UNCHANGED section

Next ==
  \/ \E b \in Bundles, e \in {"applied", "warning", "unavailable"} : Apply(b, e)
  \/ \E i \in 1..Sections : Follow(i)
  \/ \E w \in {"hash", "source"} : Warn(w)

Spec == Init /\ [][Next]_vars
=============================================================================
