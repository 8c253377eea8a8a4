---------------------------- MODULE ConfigSync -----------------------------
(***************************************************************************)
(* The receiving side of TriMC's configuration sync                        *)
(* (src/config-sync/apply.ts): a bundle with five sections arrives in the  *)
(* fleet work tree by git, and `config-sync apply' lands it in             *)
(* TRIMC_CONFIG_DIR/init-sync as applied.json, which says what is applied, *)
(* and one file per section.                                               *)
(*                                                                         *)
(* Each apply is an operating-system process of its own, started by the    *)
(* cron job every 15 minutes or by hand, so Appliers with two members are  *)
(* two that overlap.  Every await is a step boundary, a process may die at *)
(* each of them, and nothing keeps an interrupted apply apart from a whole *)
(* one.  Files are inodes here: both appliers use the same temporary name, *)
(* and a rename takes along whoever still has that file open.              *)
(*                                                                         *)
(* File 0 is applied.json and file i the file of the i-th section, in the  *)
(* order of DIM_KEYS.  A bundle is what the code compares of it.           *)
(***************************************************************************)
EXTENDS Naturals, FiniteSets

CONSTANTS
  Appliers,     \* processes that may run config-sync apply at the same time
  Bundles,      \* well-formed bundles, one per bundleId
  Time,         \* generatedAt of a bundle
  Hash,         \* contentHash of a bundle
  Source,       \* generatedBy of a bundle
  Commit,       \* employees.sourceCommit of a bundle
  NoEmployees,  \* bundles whose employees section is unavailable
  Uncovered,    \* bundles that name a provider this server has no key for
  DimCount,     \* number of sections (5 in the code)
  MaxCommit,    \* bound: commits of TriCompany
  MaxCrashes    \* bound: processes that die or fail

ASSUME ConfigAssumption ==
  /\ Time \in [Bundles -> Nat]
  /\ Commit \in [Bundles -> Nat]
  /\ DimCount \in Nat /\ DimCount > 0
  /\ MaxCommit \in Nat /\ MaxCrashes \in Nat
  /\ {"none", "torn", "bad"} \cap Bundles = {}

VARIABLES
  fleet,    \* the bundle in the fleet work tree, "none" or "bad"
  remote,   \* TriCompany: commits in the remote
  head,     \* TriCompany: HEAD of the fleet clone
  disk,     \* the files of init-sync
  tmp,      \* their temporary files
  pc,       \* where each applier is
  got,      \* the bundle it read
  payload,  \* the applied.json it is about to write
  at,       \* the file it is writing
  upto,     \* the last file it will write
  fd,       \* where the file it holds open is now: tmp, disk, or gone
  crashes,  \* number of applies that died or failed
  broken    \* history: a landing stopped half-way, and none completed since

world   == <<fleet, remote>>
files   == <<disk, tmp>>
locals  == <<got, payload, at, upto>>
vars    == <<world, head, files, pc, locals, fd, crashes, broken>>

Files    == 0..DimCount
Statuses == {"none", "applied", "warning", "unavailable"}
Warnings == {"keys", "employees", "hash", "source"}
Places   == {"none", "tmp", "disk", "gone"}
Writing  == {"open", "fill", "rename"}
Points   == {"idle", "compare", "head", "pull", "recheck"} \cup Writing

\* of: the bundle a file comes from, "none" if there is no file, "torn" if it is
\* not whole.  The other fields are applied.json's: dims.employees and the set of
\* its distinct warnings.  Its other dims are functions of the bundle.
Owners   == Bundles \cup {"none", "torn"}
Contents == [of : Owners, employees : Statuses, warnings : SUBSET Warnings]
Missing  == [of |-> "none", employees |-> "none", warnings |-> {}]
Torn     == [Missing EXCEPT !.of = "torn"]
Section(b) == [Missing EXCEPT !.of = b]

Applied == disk[0].of

Init ==
  /\ fleet = "none" /\ remote = 0 /\ head = 0
  /\ disk = [f \in Files |-> Missing]
  /\ tmp = [f \in Files |-> Missing]
  /\ pc = [p \in Appliers |-> "idle"]
  /\ got = [p \in Appliers |-> "none"]
  /\ payload = [p \in Appliers |-> Missing]
  /\ at = [p \in Appliers |-> 0]
  /\ upto = [p \in Appliers |-> 0]
  /\ fd = [p \in Appliers |-> "none"]
  /\ crashes = 0
  /\ broken = FALSE

Goto(p, l) == pc' = [pc EXCEPT ![p] = l]

\* The process ends, and what it knew is gone with it.
Exit(p) ==
  /\ Goto(p, "idle")
  /\ got' = [got EXCEPT ![p] = "none"]
  /\ payload' = [payload EXCEPT ![p] = Missing]
  /\ at' = [at EXCEPT ![p] = 0]
  /\ upto' = [upto EXCEPT ![p] = 0]

---------------------------------------------------------------------------
\* The world outside: git brings another bundle into the fleet work tree, newer
\* or not, or a file that does not validate; TriCompany gets a commit.
Publish ==
  /\ fleet' \in (Bundles \cup {"bad"}) \ {fleet}
  /\ UNCHANGED <<remote, head, files, pc, locals, fd, crashes, broken>>

CompanyCommit ==
  /\ remote < MaxCommit
  /\ remote' = remote + 1
  /\ UNCHANGED <<fleet, head, files, pc, locals, fd, crashes, broken>>

---------------------------------------------------------------------------
\* Without a valid bundle the process exits at once and nothing changes.
ReadBundle(p) ==
  /\ pc[p] = "idle"
  /\ fleet \in Bundles
  /\ got' = [got EXCEPT ![p] = fleet]
  /\ Goto(p, "compare")
  /\ UNCHANGED <<world, head, files, payload, at, upto, fd, crashes, broken>>

\* An applied.json that is missing or does not parse counts as none.
Older(b) == Applied \in Bundles /\ Time[b] < Time[Applied]
StaleMark(b) ==
  IF Hash[b] # Hash[Applied] THEN {"hash"}
  ELSE IF Source[b] # Source[Applied] THEN {"source"} ELSE {}

Write(p, content, last) ==
  /\ payload' = [payload EXCEPT ![p] = content]
  /\ at' = [at EXCEPT ![p] = 0]
  /\ upto' = [upto EXCEPT ![p] = last]
  /\ Goto(p, "open")

LandFewer(p, employees) ==  \* mutant: the last section is forgotten
  Write(p, [of |-> got[p], employees |-> employees, warnings |-> {}], DimCount - 1)

Land(p, employees) ==
  Write(p,
        [of |-> got[p], employees |-> employees,
         warnings |-> (IF got[p] \in Uncovered THEN {"keys"} ELSE {})
                        \cup (IF employees = "warning" THEN {"employees"} ELSE {})],
        DimCount)

\* readAppliedManifest, then compareWithApplied in the same turn.
Skip(p) ==
  /\ pc[p] = "compare"
  /\ got[p] = Applied \/ (Older(got[p]) /\ StaleMark(got[p]) = {})
  /\ Exit(p)
  /\ UNCHANGED <<world, head, files, fd, crashes, broken>>

WarnAsNew(p) ==  \* mutant: the warning is written over the stale bundle's own manifest
  /\ pc[p] = "compare"
  /\ got[p] # Applied /\ Older(got[p]) /\ StaleMark(got[p]) # {}
  /\ Write(p, [disk[0] EXCEPT !.of = got[p], !.warnings = @ \cup StaleMark(got[p])], 0)
  /\ UNCHANGED <<world, head, files, got, fd, crashes, broken>>

WarnOnly(p) ==  \* mutant: the mark replaces the warnings there were
  /\ pc[p] = "compare"
  /\ got[p] # Applied /\ Older(got[p]) /\ StaleMark(got[p]) # {}
  /\ Write(p, [disk[0] EXCEPT !.warnings = StaleMark(got[p])], 0)
  /\ UNCHANGED <<world, head, files, got, fd, crashes, broken>>

WarnStale(p) ==
  /\ pc[p] = "compare"
  /\ got[p] # Applied /\ Older(got[p]) /\ StaleMark(got[p]) # {}
  /\ Write(p, [disk[0] EXCEPT !.warnings = @ \cup StaleMark(got[p])], 0)
  /\ UNCHANGED <<world, head, files, got, fd, crashes, broken>>

ProceedIfParsed(p) ==  \* mutant: an applied.json that does not parse ends the process
  /\ pc[p] = "compare"
  /\ got[p] # Applied /\ ~Older(got[p])
  /\ IF Applied = "torn" THEN Exit(p)
     ELSE Goto(p, "head") /\ UNCHANGED locals
  /\ UNCHANGED <<world, head, files, fd, crashes, broken>>

Proceed(p) ==
  /\ pc[p] = "compare"
  /\ got[p] # Applied /\ ~Older(got[p])
  /\ IF got[p] \in NoEmployees
       THEN Land(p, "unavailable")
       ELSE Goto(p, "head") /\ UNCHANGED <<payload, at, upto>>
  /\ UNCHANGED <<world, head, files, got, fd, crashes, broken>>

\* rev-parse HEAD, which may fail.
CheckHead(p) ==
  /\ pc[p] = "head"
  /\ \/ head = Commit[got[p]] /\ Land(p, "applied")
     \/ Goto(p, "pull") /\ UNCHANGED <<payload, at, upto>>
  /\ UNCHANGED <<world, head, files, got, fd, crashes, broken>>

\* pull --ff-only, which may fail.
Pull(p) ==
  /\ pc[p] = "pull"
  /\ head' \in {head, remote}
  /\ Goto(p, "recheck")
  /\ UNCHANGED <<world, files, locals, fd, crashes, broken>>

RecheckTrusting(p) ==  \* mutant: after a pull HEAD is not compared again
  /\ pc[p] = "recheck"
  /\ Land(p, "applied")
  /\ UNCHANGED <<world, head, files, got, fd, crashes, broken>>

Recheck(p) ==
  /\ pc[p] = "recheck"
  /\ \/ head = Commit[got[p]] /\ Land(p, "applied")
     \/ Land(p, "warning")
  /\ UNCHANGED <<world, head, files, got, fd, crashes, broken>>

---------------------------------------------------------------------------
\* atomicWriteJson: writeFile truncates the temporary file when it opens it and
\* fills it later; rename puts it in place and takes its other holders along.
Content(p) == IF at[p] = 0 THEN payload[p] ELSE Section(got[p])

OpenInPlace(p) ==  \* mutant: the file itself is truncated
  /\ pc[p] = "open"
  /\ disk' = [disk EXCEPT ![at[p]] = Torn]
  /\ tmp' = [tmp EXCEPT ![at[p]] = Torn]
  /\ fd' = [fd EXCEPT ![p] = "tmp"]
  /\ Goto(p, "fill")
  /\ UNCHANGED <<world, head, locals, crashes, broken>>

OpenTmp(p) ==
  /\ pc[p] = "open"
  /\ tmp' = [tmp EXCEPT ![at[p]] = Torn]
  /\ fd' = [fd EXCEPT ![p] = "tmp"]
  /\ Goto(p, "fill")
  /\ UNCHANGED <<world, head, disk, locals, crashes, broken>>

\* What is left in a file two processes wrote is one text over another.
Over(old, new) == IF old \in {Torn, new} THEN {new} ELSE {new, Torn}

FillTmp(p) ==
  /\ pc[p] = "fill"
  /\ CASE fd[p] = "tmp" ->
            /\ \E c \in Over(tmp[at[p]], Content(p)) : tmp' = [tmp EXCEPT ![at[p]] = c]
            /\ UNCHANGED disk
       [] fd[p] = "disk" ->
            /\ \E c \in Over(disk[at[p]], Content(p)) : disk' = [disk EXCEPT ![at[p]] = c]
            /\ UNCHANGED tmp
       [] OTHER -> UNCHANGED files
  /\ fd' = [fd EXCEPT ![p] = "none"]
  /\ Goto(p, "rename")
  /\ UNCHANGED <<world, head, locals, crashes, broken>>

\* The other holders of file f after a rename over it.
Carried(f) ==
  [q \in Appliers |->
     IF at[q] # f THEN fd[q]
     ELSE CASE fd[q] = "tmp" -> "disk" [] fd[q] = "disk" -> "gone" [] OTHER -> fd[q]]

Rename(p) ==
  /\ pc[p] = "rename"
  /\ tmp[at[p]] # Missing
  /\ disk' = [disk EXCEPT ![at[p]] = tmp[at[p]]]
  /\ tmp' = [tmp EXCEPT ![at[p]] = Missing]
  /\ fd' = Carried(at[p])
  /\ IF at[p] = upto[p]
       THEN Exit(p)
       ELSE /\ Goto(p, "open")
            /\ at' = [at EXCEPT ![p] = @ + 1]
            /\ UNCHANGED <<got, payload, upto>>
  /\ broken' = (broken /\ (at[p] # upto[p] \/ upto[p] = 0))
  /\ UNCHANGED <<world, head, crashes>>

\* A process ends early: it is killed, a write fails, or the temporary file it
\* renames is gone.  The cron job records the error and starts another in time.
Landing(p) == pc[p] \in Writing /\ at[p] > 0

Stop(p) ==
  /\ Exit(p)
  /\ fd' = [fd EXCEPT ![p] = "none"]
  /\ broken' = (broken \/ Landing(p))
  /\ UNCHANGED <<world, head, files>>

Crash(p) ==
  /\ pc[p] # "idle"
  /\ crashes < MaxCrashes
  /\ crashes' = crashes + 1
  /\ Stop(p)

RenameFails(p) ==
  /\ pc[p] = "rename" /\ tmp[at[p]] = Missing
  /\ Stop(p)
  /\ UNCHANGED crashes

---------------------------------------------------------------------------
Step(p) ==
  \/ ReadBundle(p) \/ Skip(p) \/ WarnStale(p) \/ Proceed(p)
  \/ CheckHead(p) \/ Pull(p) \/ Recheck(p)
  \/ OpenTmp(p) \/ FillTmp(p) \/ Rename(p) \/ RenameFails(p)

Next ==
  \/ Publish \/ CompanyCommit
  \/ \E p \in Appliers : Step(p) \/ Crash(p)

Spec == Init /\ [][Next]_vars

\* The cron job starts an apply every 15 minutes; a process that runs is
\* scheduled, and its git calls end, with an error if need be.
Fairness == \A p \in Appliers : WF_vars(Step(p))
FairSpec == Spec /\ Fairness

---------------------------------------------------------------------------
\* Every variable keeps its type.
TypeOK ==
  /\ fleet \in Bundles \cup {"none", "bad"}
  /\ remote \in 0..MaxCommit /\ head \in 0..remote
  /\ disk \in [Files -> Contents] /\ tmp \in [Files -> Contents]
  /\ pc \in [Appliers -> Points]
  /\ got \in [Appliers -> Bundles \cup {"none"}]
  /\ payload \in [Appliers -> Contents]
  /\ at \in [Appliers -> Files] /\ upto \in [Appliers -> {0, DimCount}]
  /\ fd \in [Appliers -> Places]
  /\ crashes \in 0..MaxCrashes
  /\ broken \in BOOLEAN

\* With one applier, whatever process dies between two steps, a file of init-sync
\* is never seen half-written: the temporary file takes that (atomicWriteJson).
FilesWhole == \A f \in Files : disk[f] # Torn

\* With one applier no section file comes from a newer bundle than applied.json
\* says: landBundle writes applied.json first, and an older bundle is refused.
NeverAhead ==
  \A f \in Files :
    disk[f].of \in Bundles => Applied \in Bundles /\ Time[disk[f].of] <= Time[Applied]

\* With one applier, unless a landing stopped half-way and none completed since,
\* applied.json and the five section files are of one bundle whenever no landing
\* is under way: no section is skipped, none is left from the bundle before.
LandedWhole ==
  (~broken /\ \A p \in Appliers : ~Landing(p)) =>
     \A f \in Files : disk[f].of = Applied

\* When applied.json says that the employees section is applied, TriCompany's
\* clone has the commit the bundle was made from (resolveEmployeesDim), however
\* pulls fail, and even if appliers overlap.
EmployeesReachable ==
  (Applied \in Bundles /\ disk[0].employees = "applied") => head >= Commit[Applied]

Forward ==
  (Applied \in Bundles) => (Applied' \in Bundles /\ Time[Applied] <= Time[Applied'])

\* With one applier generatedAt of applied.json never goes back, and applied.json
\* is never lost (compareWithApplied).
AppliedMonotone == [][Forward]_vars

\* With one applier the files of init-sync are a store that changes at a stroke:
\* six files, their temporary files, the git calls and the processes that die
\* between two of them implement BundleStore (runConfigSyncApply, landBundle).
Store == INSTANCE BundleStore WITH
           Sections <- DimCount, manifest <- disk[0],
           section <- [i \in 1..DimCount |-> disk[i].of]
StoreSpec == Store!Spec

\* Once appliers no longer overlap, a bundle that stays in the work tree is applied,
\* or a newer one is, and stays so, though processes died, pulls failed and
\* overlapping appliers left applied.json torn or out of date.
Alone == \A p, q \in Appliers : pc[p] # "idle" /\ pc[q] # "idle" => p = q
BundleApplied ==
  \A b \in Bundles :
    <>[](fleet = b /\ Alone) => <>[](Applied \in Bundles /\ Time[b] <= Time[Applied])

\* What apply.ts says of a landing: once no apply runs, applied.json and the five
\* section files are of one bundle.  A process that dies half-way breaks it.
AppliedIsLanded ==
  (\A p \in Appliers : pc[p] = "idle") => \A f \in Files : disk[f].of = Applied
=============================================================================
