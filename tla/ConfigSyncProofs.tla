------------------------- MODULE ConfigSyncProofs --------------------------
(***************************************************************************)
(* What holds of ConfigSync for any bundles and any number of sections:    *)
(* types and the employees section for any number of appliers, and, for    *)
(* one applier, that files are whole, that no section is ahead of          *)
(* applied.json, that a landing that ends is whole and that the applied    *)
(* version never goes back, and that all this is what BundleStore promises.*)
(* Then the cache of AppliedCache: its readers do not disturb the appliers,*)
(* and their answers are current.                                          *)
(***************************************************************************)
EXTENDS AppliedCache, TLAPS

LEMMA Values ==
  /\ Missing \in Contents /\ Torn \in Contents
  /\ \A b \in Bundles : Section(b) \in Contents
  /\ \A b \in Bundles, e \in Statuses, w \in SUBSET Warnings :
       [of |-> b, employees |-> e, warnings |-> w] \in Contents
  /\ \A c \in Contents : c.of \in Owners /\ c.employees \in Statuses
                            /\ c.warnings \in SUBSET Warnings
  /\ \A c \in Contents, w \in SUBSET Warnings :
       [c EXCEPT !.warnings = c.warnings \cup w] \in Contents
<1>1. Missing \in Contents
  BY DEF Missing, Contents, Owners, Statuses
<1>2. Torn = [of |-> "torn", employees |-> "none", warnings |-> {}]
  BY DEF Torn, Missing
<1>3. Torn \in Contents
  BY <1>2 DEF Contents, Owners, Statuses
<1>4. ASSUME NEW b \in Bundles PROVE Section(b) \in Contents
  <2>1. Section(b) = [of |-> b, employees |-> "none", warnings |-> {}]
    BY DEF Section, Missing
  <2> QED BY <2>1 DEF Contents, Owners, Statuses
<1>5. ASSUME NEW b \in Bundles, NEW e \in Statuses, NEW w \in SUBSET Warnings
      PROVE [of |-> b, employees |-> e, warnings |-> w] \in Contents
  BY DEF Contents, Owners
<1>6. ASSUME NEW c \in Contents
      PROVE c.of \in Owners /\ c.employees \in Statuses /\ c.warnings \in SUBSET Warnings
  BY DEF Contents
<1>7. ASSUME NEW c \in Contents, NEW w \in SUBSET Warnings
      PROVE [c EXCEPT !.warnings = c.warnings \cup w] \in Contents
  BY DEF Contents
<1> QED BY <1>1, <1>3, <1>4, <1>5, <1>6, <1>7

---------------------------------------------------------------------------
\* What TypeOK needs to be inductive: a running apply has a bundle and stops at
\* its last file.
Local(p) == (pc[p] # "idle" => got[p] \in Bundles) /\ at[p] <= upto[p]
TypeInv == TypeOK /\ \A p \in Appliers : Local(p)

LocalTypes ==
  /\ pc \in [Appliers -> Points]
  /\ got \in [Appliers -> Bundles \cup {"none"}]
  /\ payload \in [Appliers -> Contents]
  /\ at \in [Appliers -> Files] /\ upto \in [Appliers -> {0, DimCount}]
  /\ \A p \in Appliers : Local(p)

LEMMA ExitTypes ==
  ASSUME TypeInv, NEW p \in Appliers, Exit(p)
  PROVE  LocalTypes'
<1>1. pc' \in [Appliers -> Points] /\ \A q \in Appliers : q # p => pc'[q] = pc[q]
  BY DEF Exit, Goto, TypeInv, TypeOK, Points
<1>2. pc'[p] = "idle"
  BY DEF Exit, Goto, TypeInv, TypeOK
<1>3. /\ got' \in [Appliers -> Bundles \cup {"none"}]
      /\ \A q \in Appliers : q # p => got'[q] = got[q]
  BY DEF Exit, TypeInv, TypeOK
<1>4. payload' \in [Appliers -> Contents]
  BY Values DEF Exit, TypeInv, TypeOK
<1>5. /\ at' \in [Appliers -> Files] /\ upto' \in [Appliers -> {0, DimCount}]
      /\ at'[p] <= upto'[p]
      /\ \A q \in Appliers : q # p => at'[q] = at[q] /\ upto'[q] = upto[q]
  BY ConfigAssumption DEF Exit, TypeInv, TypeOK, Files
<1>6. \A q \in Appliers : Local(q)'
  BY <1>1, <1>2, <1>3, <1>5 DEF Local, TypeInv
<1> QED BY <1>1, <1>3, <1>4, <1>5, <1>6 DEF LocalTypes

LEMMA WriteTypes ==
  ASSUME TypeInv, NEW p \in Appliers, NEW c \in Contents, NEW l \in {0, DimCount},
         pc[p] # "idle", Write(p, c, l), got' = got
  PROVE  LocalTypes' /\ pc'[p] = "open"
<1>1. pc' \in [Appliers -> Points] /\ \A q \in Appliers : q # p => pc'[q] = pc[q]
  BY DEF Write, Goto, TypeInv, TypeOK, Points, Writing
<1>2. pc'[p] = "open"
  BY DEF Write, Goto, TypeInv, TypeOK
<1>3. got' \in [Appliers -> Bundles \cup {"none"}] /\ payload' \in [Appliers -> Contents]
  BY DEF Write, TypeInv, TypeOK
<1>4. /\ at' \in [Appliers -> Files] /\ upto' \in [Appliers -> {0, DimCount}]
      /\ at'[p] <= upto'[p]
      /\ \A q \in Appliers : q # p => at'[q] = at[q] /\ upto'[q] = upto[q]
  BY ConfigAssumption DEF Write, TypeInv, TypeOK, Files
<1>5. \A q \in Appliers : Local(q)'
  BY <1>1, <1>2, <1>3, <1>4 DEF Local, TypeInv
<1> QED BY <1>1, <1>2, <1>3, <1>4, <1>5 DEF LocalTypes

\* Landed(b, e) is the applied.json that Land writes.
Landed(b, e) ==
  [of |-> b, employees |-> e,
   warnings |-> (IF b \in Uncovered THEN {"keys"} ELSE {})
                  \cup (IF e = "warning" THEN {"employees"} ELSE {})]

LEMMA LandedContents ==
  ASSUME NEW b \in Bundles, NEW e \in Statuses
  PROVE  Landed(b, e) \in Contents /\ Landed(b, e).of = b /\ Landed(b, e).employees = e
<1> DEFINE w == (IF b \in Uncovered THEN {"keys"} ELSE {})
                  \cup (IF e = "warning" THEN {"employees"} ELSE {})
<1>1. w \in SUBSET Warnings
  BY DEF Warnings
<1> HIDE DEF w
<1>2. [of |-> b, employees |-> e, warnings |-> w] \in Contents
  BY <1>1, Values
<1>3. Landed(b, e) = [of |-> b, employees |-> e, warnings |-> w]
  BY DEF Landed, w
<1> QED BY <1>2, <1>3

LEMMA LandWrites ==
  ASSUME NEW p \in Appliers, NEW e, Land(p, e)
  PROVE  Write(p, Landed(got[p], e), DimCount)
BY DEF Land, Landed

---------------------------------------------------------------------------
LEMMA InitTypes == Init => TypeInv
<1> SUFFICES ASSUME Init PROVE TypeInv
  OBVIOUS
<1>1. 0 \in Files /\ 0 \in {0, DimCount} /\ 0 \in 0..MaxCrashes /\ 0 \in 0..MaxCommit
  BY ConfigAssumption DEF Files
<1>2. "idle" \in Points /\ "none" \in Places
  BY DEF Points, Places
<1>3. disk \in [Files -> Contents] /\ tmp \in [Files -> Contents]
      /\ payload \in [Appliers -> Contents]
  BY Values DEF Init
<1>4. /\ pc \in [Appliers -> Points] /\ fd \in [Appliers -> Places]
      /\ at \in [Appliers -> Files] /\ upto \in [Appliers -> {0, DimCount}]
      /\ got \in [Appliers -> Bundles \cup {"none"}]
  BY <1>1, <1>2 DEF Init
<1>5. /\ fleet \in Bundles \cup {"none", "bad"} /\ remote \in 0..MaxCommit
      /\ head \in 0..remote /\ crashes \in 0..MaxCrashes /\ broken \in BOOLEAN
  <2>1. remote = 0 /\ head = 0 /\ crashes = 0 /\ fleet = "none" /\ broken = FALSE
    BY DEF Init
  <2>2. 0 \in 0..0
    OBVIOUS
  <2>3. remote \in 0..MaxCommit /\ head \in 0..remote /\ crashes \in 0..MaxCrashes
    BY <1>1, <2>1, <2>2
  <2> QED BY <2>1, <2>3
<1>7. TypeOK
  BY <1>3, <1>4, <1>5 DEF TypeOK
<1>6. \A p \in Appliers : Local(p)
  BY DEF Local, Init
<1> QED BY <1>6, <1>7 DEF TypeInv

\* The steps that leave files and descriptors alone.
LEMMA QuietTypes ==
  ASSUME TypeInv, LocalTypes', UNCHANGED <<fleet, remote, files, fd>>,
         head' \in 0..remote, crashes' = crashes, broken' = broken
  PROVE  TypeInv'
BY DEF TypeInv, TypeOK, LocalTypes, files

LEMMA SkipTypes ==
  ASSUME TypeInv, NEW p \in Appliers, Skip(p)
  PROVE  TypeInv'
<1>1. LocalTypes'
  BY ExitTypes DEF Skip
<1>2. head \in 0..remote
  BY DEF TypeInv, TypeOK
<1> QED BY <1>1, <1>2, QuietTypes DEF Skip, world

\* Moving to another point before anything is written.
LEMMA GotoTypes ==
  ASSUME TypeInv, NEW p \in Appliers, NEW l \in Points, Goto(p, l),
         UNCHANGED <<payload, at, upto>>,
         \E b \in Bundles : got' = [got EXCEPT ![p] = b]
  PROVE  LocalTypes'
<1>1. PICK b \in Bundles : got' = [got EXCEPT ![p] = b]
  OBVIOUS
<1>2. /\ pc' \in [Appliers -> Points]
      /\ \A q \in Appliers : q # p => pc'[q] = pc[q]
  BY DEF Goto, TypeInv, TypeOK
<1>3. /\ got' \in [Appliers -> Bundles \cup {"none"}] /\ got'[p] = b
      /\ \A q \in Appliers : q # p => got'[q] = got[q]
  BY <1>1 DEF TypeInv, TypeOK
<1>4. \A q \in Appliers : Local(q)'
  BY <1>2, <1>3 DEF Local, TypeInv
<1> QED BY <1>2, <1>3, <1>4 DEF LocalTypes, TypeInv, TypeOK

LEMMA StayTypes ==
  ASSUME TypeInv, NEW p \in Appliers, NEW l \in Points, Goto(p, l), pc[p] # "idle",
         UNCHANGED locals
  PROVE  LocalTypes'
<1>1. got' = [got EXCEPT ![p] = got[p]]
  BY DEF locals, TypeInv, TypeOK
<1>2. got[p] \in Bundles
  BY DEF TypeInv, Local
<1> QED BY <1>1, <1>2, GotoTypes DEF locals

LEMMA LandTypes ==
  ASSUME TypeInv, NEW p \in Appliers, pc[p] # "idle",
         NEW e \in Statuses, Land(p, e), got' = got
  PROVE  LocalTypes'
<1>1. got[p] \in Bundles /\ DimCount \in {0, DimCount}
  BY DEF TypeInv, Local
<1> QED BY <1>1, LandedContents, LandWrites, WriteTypes

LEMMA CompareTypes ==
  ASSUME TypeInv, NEW p \in Appliers,
         WarnStale(p) \/ Proceed(p) \/ CheckHead(p) \/ Recheck(p)
  PROVE  TypeInv'
<1>1. head \in 0..remote
  BY DEF TypeInv, TypeOK
<1>2. CASE WarnStale(p)
  <2>1. disk[0] \in Contents
    BY ConfigAssumption DEF TypeInv, TypeOK, Files
  <2>2. StaleMark(got[p]) \in SUBSET Warnings
    BY DEF StaleMark, Warnings
  <2>3. [disk[0] EXCEPT !.warnings = disk[0].warnings \cup StaleMark(got[p])] \in Contents
    BY <2>1, <2>2, Values
  <2>4. LocalTypes'
    BY <1>2, <2>3, WriteTypes DEF WarnStale
  <2> QED BY <1>1, <1>2, <2>4, QuietTypes DEF WarnStale, world
<1>3. CASE Proceed(p)
  <2>1. CASE Land(p, "unavailable")
    <3>1. LocalTypes'
      BY <1>3, <2>1, LandTypes DEF Proceed, Statuses
    <3> QED BY <1>1, <1>3, <3>1, QuietTypes DEF Proceed, world
  <2>2. CASE Goto(p, "head") /\ UNCHANGED <<payload, at, upto>>
    <3>1. LocalTypes'
      BY <1>3, <2>2, StayTypes DEF Proceed, Points, locals
    <3> QED BY <1>1, <1>3, <3>1, QuietTypes DEF Proceed, world
  <2> QED BY <1>3, <2>1, <2>2 DEF Proceed
<1>4. CASE CheckHead(p)
  <2>1. CASE Land(p, "applied")
    <3>1. LocalTypes'
      BY <1>4, <2>1, LandTypes DEF CheckHead, Statuses
    <3> QED BY <1>1, <1>4, <3>1, QuietTypes DEF CheckHead, world
  <2>2. CASE Goto(p, "pull") /\ UNCHANGED <<payload, at, upto>>
    <3>1. LocalTypes'
      BY <1>4, <2>2, StayTypes DEF CheckHead, Points, locals
    <3> QED BY <1>1, <1>4, <3>1, QuietTypes DEF CheckHead, world
  <2> QED BY <1>4, <2>1, <2>2 DEF CheckHead
<1>5. CASE Recheck(p)
  <2>1. PICK e \in {"applied", "warning"} : Land(p, e)
    BY <1>5 DEF Recheck
  <2>2. LocalTypes'
    BY <1>5, <2>1, LandTypes DEF Recheck, Statuses
  <2> QED BY <1>1, <1>5, <2>2, QuietTypes DEF Recheck, world
<1> QED BY <1>2, <1>3, <1>4, <1>5

LEMMA ContentType ==
  ASSUME TypeInv, NEW p \in Appliers, pc[p] # "idle"
  PROVE  Content(p) \in Contents
<1>1. got[p] \in Bundles /\ payload[p] \in Contents
  BY DEF TypeInv, TypeOK, Local
<1> QED BY <1>1, Values DEF Content

LEMMA OpenTypes ==
  ASSUME TypeInv, NEW p \in Appliers, OpenTmp(p)
  PROVE  TypeInv'
<1>1. LocalTypes'
  BY StayTypes DEF OpenTmp, Points, Writing
<1>2. tmp' \in [Files -> Contents]
  BY Values DEF OpenTmp, TypeInv, TypeOK
<1>3. fd' \in [Appliers -> Places]
  BY DEF OpenTmp, TypeInv, TypeOK, Places
<1> QED BY <1>1, <1>2, <1>3 DEF OpenTmp, TypeInv, TypeOK, LocalTypes, world

LEMMA FillTypes ==
  ASSUME TypeInv, NEW p \in Appliers, FillTmp(p)
  PROVE  TypeInv'
<1>1. LocalTypes'
  BY StayTypes DEF FillTmp, Points, Writing
<1>2. Content(p) \in Contents /\ Torn \in Contents /\ at[p] \in Files
  BY ContentType, Values DEF FillTmp, TypeInv, TypeOK
<1>3. \A old : Over(old, Content(p)) \subseteq Contents
  BY <1>2 DEF Over
<1>4. disk' \in [Files -> Contents] /\ tmp' \in [Files -> Contents]
  <2>1. disk \in [Files -> Contents] /\ tmp \in [Files -> Contents]
    BY DEF TypeInv, TypeOK
  <2>2. CASE fd[p] = "tmp"
    BY <1>2, <1>3, <2>1, <2>2 DEF FillTmp
  <2>3. CASE fd[p] = "disk"
    BY <1>2, <1>3, <2>1, <2>3 DEF FillTmp
  <2>4. CASE fd[p] # "tmp" /\ fd[p] # "disk"
    BY <2>1, <2>4 DEF FillTmp, files
  <2> QED BY <2>2, <2>3, <2>4
<1>5. fd' \in [Appliers -> Places]
  BY DEF FillTmp, TypeInv, TypeOK, Places
<1> QED BY <1>1, <1>4, <1>5 DEF FillTmp, TypeInv, TypeOK, LocalTypes, world

LEMMA NextFileTypes ==
  ASSUME TypeInv, NEW p \in Appliers, pc[p] = "rename", at[p] # upto[p],
         Goto(p, "open"), at' = [at EXCEPT ![p] = @ + 1], UNCHANGED <<got, payload, upto>>
  PROVE  LocalTypes'
<1>1. at[p] \in 0..DimCount /\ upto[p] \in 0..DimCount /\ at[p] <= upto[p]
  <2>1. at[p] \in Files /\ upto[p] \in {0, DimCount} /\ at[p] <= upto[p]
    BY DEF TypeInv, TypeOK, Local
  <2>2. {0, DimCount} \subseteq 0..DimCount
    BY ConfigAssumption
  <2> QED BY <2>1, <2>2 DEF Files
<1>2. at[p] + 1 \in Files /\ at[p] + 1 <= upto[p]
  BY <1>1, ConfigAssumption DEF Files
<1>3. /\ at' \in [Appliers -> Files] /\ at'[p] = at[p] + 1
      /\ \A q \in Appliers : q # p => at'[q] = at[q]
  BY <1>2 DEF TypeInv, TypeOK
<1>4. pc' \in [Appliers -> Points] /\ \A q \in Appliers : q # p => pc'[q] = pc[q]
  BY DEF Goto, TypeInv, TypeOK, Points, Writing
<1>5. \A q \in Appliers : Local(q)'
  BY <1>2, <1>3, <1>4 DEF TypeInv, Local
<1> QED BY <1>3, <1>4, <1>5 DEF LocalTypes, TypeInv, TypeOK

LEMMA CarriedTypes ==
  ASSUME TypeInv, NEW f PROVE Carried(f) \in [Appliers -> Places]
BY DEF Carried, TypeInv, TypeOK, Places

LEMMA RenameTypes ==
  ASSUME TypeInv, NEW p \in Appliers, Rename(p)
  PROVE  TypeInv'
<1>1. LocalTypes'
  <2>1. CASE at[p] = upto[p]
    BY <2>1, ExitTypes DEF Rename
  <2>2. CASE at[p] # upto[p]
    BY <2>2, NextFileTypes DEF Rename
  <2> QED BY <2>1, <2>2
<1>2. disk' \in [Files -> Contents] /\ tmp' \in [Files -> Contents]
  BY Values DEF Rename, TypeInv, TypeOK
<1>3. fd' \in [Appliers -> Places]
  BY CarriedTypes DEF Rename
<1>4. broken' \in BOOLEAN
  BY DEF Rename
<1> QED BY <1>1, <1>2, <1>3, <1>4 DEF Rename, TypeInv, TypeOK, LocalTypes, world

LEMMA StopTypes ==
  ASSUME TypeInv, NEW p \in Appliers, Stop(p), crashes' \in 0..MaxCrashes
  PROVE  TypeInv'
<1>1. LocalTypes'
  BY ExitTypes DEF Stop
<1>2. fd' \in [Appliers -> Places]
  BY DEF Stop, TypeInv, TypeOK, Places
<1>3. broken' \in BOOLEAN
  BY DEF Stop
<1>4. UNCHANGED <<fleet, remote, head, disk, tmp>>
  BY DEF Stop, world, files
<1> QED BY <1>1, <1>2, <1>3, <1>4 DEF TypeInv, TypeOK, LocalTypes

LEMMA TypeStep == TypeInv /\ [Next]_vars => TypeInv'
<1> SUFFICES ASSUME TypeInv, [Next]_vars PROVE TypeInv'
  OBVIOUS
<1>1. CASE Publish
  <2>1. fleet' \in Bundles \cup {"none", "bad"}
    BY <1>1 DEF Publish
  <2> QED BY <1>1, <2>1 DEF Publish, files, locals, TypeInv, TypeOK, Local
<1>2. CASE CompanyCommit
  <2>1. remote' \in 0..MaxCommit /\ head \in 0..remote'
    <3>1. remote \in 0..MaxCommit /\ head \in 0..remote
      BY DEF TypeInv, TypeOK
    <3>2. remote < MaxCommit /\ remote' = remote + 1
      BY <1>2 DEF CompanyCommit
    <3> QED BY <3>1, <3>2, ConfigAssumption
  <2> QED BY <1>2, <2>1 DEF CompanyCommit, files, locals, TypeInv, TypeOK, Local
<1>3. ASSUME NEW p \in Appliers, Step(p) PROVE TypeInv'
  <2>1. CASE ReadBundle(p)
    <3>1. LocalTypes'
      BY <2>1, GotoTypes DEF ReadBundle, Points
    <3>2. head \in 0..remote
      BY DEF TypeInv, TypeOK
    <3> QED BY <2>1, <3>1, <3>2, QuietTypes DEF ReadBundle, world
  <2>2. CASE Pull(p)
    <3>1. LocalTypes'
      BY <2>2, StayTypes DEF Pull, Points
    <3>2. head' \in 0..remote
      BY <2>2 DEF Pull, TypeInv, TypeOK
    <3> QED BY <2>2, <3>1, <3>2, QuietTypes DEF Pull, world
  <2>3. CASE RenameFails(p)
    BY <2>3, StopTypes DEF RenameFails, TypeInv, TypeOK
  <2> QED BY <1>3, <2>1, <2>2, <2>3, SkipTypes, CompareTypes, OpenTypes, FillTypes,
             RenameTypes DEF Step
<1>4. ASSUME NEW p \in Appliers, Crash(p) PROVE TypeInv'
  <2>1. crashes' \in 0..MaxCrashes
    <3>1. crashes \in 0..MaxCrashes
      BY DEF TypeInv, TypeOK
    <3>2. crashes < MaxCrashes /\ crashes' = crashes + 1
      BY <1>4 DEF Crash
    <3> QED BY <3>1, <3>2, ConfigAssumption
  <2> QED BY <1>4, <2>1, StopTypes DEF Crash
<1>5. CASE UNCHANGED vars
  BY <1>5 DEF vars, world, files, locals, TypeInv, TypeOK, Local
<1> QED BY <1>1, <1>2, <1>3, <1>4, <1>5 DEF Next

\* Every variable keeps its type, for any number of appliers, bundles and sections.
THEOREM TypeCorrect == Spec => []TypeOK
<1>1. TypeInv => TypeOK
  BY DEF TypeInv
<1> QED BY <1>1, InitTypes, TypeStep, PTL DEF Spec

---------------------------------------------------------------------------
\* Any number of appliers: no applied.json anywhere, on disk, in a temporary file
\* or about to be written, claims a commit that HEAD has not reached.
Honest(c, h) == (c.of \in Bundles /\ c.employees = "applied") => Commit[c.of] <= h

HonestInv ==
  /\ TypeInv
  /\ \A f \in Files : Honest(disk[f], head) /\ Honest(tmp[f], head)
  /\ \A p \in Appliers : Honest(payload[p], head)

LEMMA HonestValues ==
  /\ Honest(Missing, head') /\ Honest(Torn, head') /\ Honest(Missing, head)
  /\ \A b : Honest(Section(b), head')
<1>1. Torn = [of |-> "torn", employees |-> "none", warnings |-> {}]
  BY DEF Torn, Missing
<1>2. \A b : Section(b) = [of |-> b, employees |-> "none", warnings |-> {}]
  BY DEF Section, Missing
<1> QED BY <1>1, <1>2 DEF Honest, Missing

LEMMA HeadGrows ==
  ASSUME TypeInv, [Next]_vars
  PROVE  head' \in Nat /\ head \in Nat /\ head <= head'
<1>1. remote \in Nat /\ head \in 0..remote
  BY ConfigAssumption DEF TypeInv, TypeOK
<1>2. head' = head \/ head' = remote
  BY DEF Next, Publish, CompanyCommit, Step, ReadBundle, Skip, WarnStale, Proceed, CheckHead,
         Pull, Recheck, OpenTmp, FillTmp, Rename, RenameFails, Crash, Stop, vars
<1> QED BY <1>1, <1>2

LEMMA HonestStays ==
  ASSUME TypeInv, [Next]_vars, NEW c, Honest(c, head)
  PROVE  Honest(c, head')
<1>1. c.of \in Bundles => Commit[c.of] \in Nat
  BY ConfigAssumption
<1> QED BY <1>1, HeadGrows DEF Honest

\* What one step may put on disk, in a temporary file or into a payload.
LEMMA FilesFrom ==
  ASSUME TypeInv, NEW p \in Appliers, OpenTmp(p) \/ FillTmp(p) \/ Rename(p), NEW f \in Files
  PROVE  /\ disk'[f] \in {disk[f], tmp[f], Content(p), Torn}
         /\ tmp'[f] \in {tmp[f], Content(p), Torn, Missing}
<1>1. disk \in [Files -> Contents] /\ tmp \in [Files -> Contents] /\ at[p] \in Files
  BY DEF TypeInv, TypeOK
<1>2. CASE OpenTmp(p)
  BY <1>1, <1>2 DEF OpenTmp
<1>3. CASE Rename(p)
  BY <1>1, <1>3 DEF Rename
<1>4. CASE FillTmp(p)
  <2>1. \A old : Over(old, Content(p)) \subseteq {Content(p), Torn}
    BY DEF Over
  <2>2. CASE fd[p] = "tmp"
    BY <1>1, <1>4, <2>1, <2>2 DEF FillTmp
  <2>3. CASE fd[p] = "disk"
    BY <1>1, <1>4, <2>1, <2>3 DEF FillTmp
  <2>4. CASE fd[p] # "tmp" /\ fd[p] # "disk"
    BY <1>4, <2>4 DEF FillTmp, files
  <2> QED BY <2>2, <2>3, <2>4
<1> QED BY <1>2, <1>3, <1>4

LEMMA PayloadStays ==
  ASSUME TypeInv, NEW p \in Appliers, OpenTmp(p) \/ FillTmp(p) \/ Rename(p) \/ Stop(p)
  PROVE  \A q \in Appliers : payload'[q] \in {payload[q], Missing}
<1>1. payload' = payload \/ payload' = [payload EXCEPT ![p] = Missing]
  BY DEF OpenTmp, FillTmp, Rename, Stop, Exit, locals
<1> QED BY <1>1 DEF TypeInv, TypeOK

LEMMA HonestStep == HonestInv /\ [Next]_vars => HonestInv'
<1> SUFFICES ASSUME HonestInv, [Next]_vars PROVE HonestInv'
  OBVIOUS
<1>1. TypeInv /\ TypeInv'
  BY TypeStep DEF HonestInv
<1>2. \A c : Honest(c, head) => Honest(c, head')
  BY <1>1, HonestStays
<1>3. ASSUME \A f \in Files : disk'[f] = disk[f] /\ tmp'[f] = tmp[f],
             \A q \in Appliers : payload'[q] = payload[q] \/ Honest(payload[q], head)'
      PROVE HonestInv'
  BY <1>1, <1>2, <1>3 DEF HonestInv, Honest
<1>4. CASE Publish \/ CompanyCommit \/ UNCHANGED vars
  BY <1>3, <1>4 DEF Publish, CompanyCommit, vars, files, locals
<1>6. ASSUME NEW p \in Appliers, Stop(p) PROVE HonestInv'
  <2>1. payload \in [Appliers -> Contents]
    BY <1>1 DEF TypeInv, TypeOK
  <2>2. payload' = [payload EXCEPT ![p] = Missing] /\ UNCHANGED files
    BY <1>6 DEF Stop, Exit
  <2> QED BY <1>3, <2>1, <2>2, HonestValues DEF files
<1>5. ASSUME NEW p \in Appliers, Step(p) PROVE HonestInv'
  <2>0. /\ payload \in [Appliers -> Contents] /\ 0 \in Files
        /\ pc[p] # "idle" => got[p] \in Bundles
    BY <1>1, ConfigAssumption DEF TypeInv, TypeOK, Local, Files
  <2>1. CASE ReadBundle(p) \/ Pull(p)
    BY <1>3, <2>1 DEF ReadBundle, Pull, files, locals
  <2>2. CASE Skip(p)
    <3>1. payload' = [payload EXCEPT ![p] = Missing] /\ UNCHANGED files
      BY <2>2 DEF Skip, Exit
    <3> QED BY <1>3, <2>0, <3>1, HonestValues DEF files
  <2>3. CASE WarnStale(p)
    <3> DEFINE c == [disk[0] EXCEPT !.warnings = @ \cup StaleMark(got[p])]
    <3>1. disk[0] \in Contents
      BY <1>1, <2>0 DEF TypeInv, TypeOK
    <3>2. c.of = disk[0].of /\ c.employees = disk[0].employees
      BY <3>1 DEF Contents
    <3>3. payload' = [payload EXCEPT ![p] = c] /\ UNCHANGED files
      BY <2>3 DEF WarnStale, Write
    <3>4. Honest(c, head)
      BY <2>0, <3>2 DEF HonestInv, Honest
    <3> HIDE DEF c
    <3>5. \A q \in Appliers : payload'[q] = payload[q] \/ payload'[q] = c
      BY <2>0, <3>3
    <3>6. \A q \in Appliers : payload'[q] = payload[q] \/ Honest(payload[q], head)'
      BY <1>2, <3>4, <3>5 DEF Honest
    <3> QED BY <1>3, <3>3, <3>6 DEF files
  <2>4. CASE Proceed(p) \/ CheckHead(p) \/ Recheck(p)
    <3>1. UNCHANGED files /\ UNCHANGED head /\ got[p] \in Bundles
      BY <2>0, <2>4 DEF Proceed, CheckHead, Recheck
    <3>2. \/ UNCHANGED payload
          \/ \E e \in Statuses : Land(p, e) /\ (e = "applied" => head = Commit[got[p]])
      BY <2>4 DEF Proceed, CheckHead, Recheck, Statuses
    <3>3. CASE UNCHANGED payload
      BY <1>3, <3>1, <3>3 DEF files
    <3>4. ASSUME NEW e \in Statuses, Land(p, e), e = "applied" => head = Commit[got[p]]
          PROVE HonestInv'
      <4> DEFINE c == Landed(got[p], e)
      <4>1. payload' = [payload EXCEPT ![p] = c]
        BY <3>4, LandWrites DEF Write
      <4>2. c.of = got[p] /\ c.employees = e
        BY <3>1, LandedContents
      <4>3. Commit[got[p]] \in Nat
        BY <3>1, ConfigAssumption
      <4>4. Honest(c, head)
        BY <3>4, <4>2, <4>3 DEF Honest
      <4> HIDE DEF c
      <4>5. \A q \in Appliers : payload'[q] = payload[q] \/ payload'[q] = c
        BY <2>0, <4>1
      <4>6. \A q \in Appliers : payload'[q] = payload[q] \/ Honest(payload[q], head)'
        BY <1>2, <4>4, <4>5 DEF Honest
      <4> QED BY <1>3, <3>1, <4>6 DEF files
    <3> QED BY <3>2, <3>3, <3>4
  <2>5. CASE OpenTmp(p) \/ FillTmp(p) \/ Rename(p)
    <3>1. pc[p] # "idle" /\ at[p] \in Files
      BY <1>1, <2>5 DEF OpenTmp, FillTmp, Rename, TypeInv, TypeOK
    <3>2. Honest(Content(p), head')
      <4>1. Honest(payload[p], head)
        BY DEF HonestInv
      <4>2. Content(p) = payload[p] \/ Content(p) = Section(got[p])
        BY DEF Content
      <4> QED BY <1>2, <4>1, <4>2, HonestValues
    <3>3. ASSUME NEW f \in Files PROVE Honest(disk[f], head)' /\ Honest(tmp[f], head)'
      <4>1. /\ disk'[f] \in {disk[f], tmp[f], Content(p), Torn}
            /\ tmp'[f] \in {tmp[f], Content(p), Torn, Missing}
        BY <1>1, <2>5, FilesFrom
      <4>2. Honest(disk[f], head) /\ Honest(tmp[f], head)
        BY DEF HonestInv
      <4>3. \A c \in {disk[f], tmp[f], Content(p), Torn, Missing} : Honest(c, head')
        BY <1>2, <3>2, <4>2, HonestValues
      <4> QED BY <4>1, <4>3
    <3>4. ASSUME NEW q \in Appliers PROVE Honest(payload[q], head)'
      <4>1. payload'[q] \in {payload[q], Missing}
        BY <1>1, <2>5, PayloadStays
      <4>2. Honest(payload[q], head)
        BY DEF HonestInv
      <4> QED BY <1>2, <4>1, <4>2, HonestValues DEF Honest
    <3> QED BY <1>1, <3>3, <3>4 DEF HonestInv
  <2>6. CASE RenameFails(p)
    BY <1>6, <2>6 DEF RenameFails
  <2> QED BY <1>5, <2>1, <2>2, <2>3, <2>4, <2>5, <2>6 DEF Step
<1> QED BY <1>4, <1>5, <1>6 DEF Next, Crash

\* However pulls fail and appliers overlap, a section called applied has its commit.
THEOREM EmployeesAreReachable == Spec => []EmployeesReachable
<1>1. Init => HonestInv
  <2> SUFFICES ASSUME Init PROVE HonestInv
    OBVIOUS
  <2>1. TypeInv
    BY InitTypes
  <2> QED BY <2>1, HonestValues DEF Init, HonestInv
<1>2. HonestInv => EmployeesReachable
  <2> SUFFICES ASSUME HonestInv, Applied \in Bundles, disk[0].employees = "applied"
               PROVE  head >= Commit[Applied]
    BY DEF EmployeesReachable
  <2>1. Honest(disk[0], head) /\ head \in 0..remote /\ remote \in 0..MaxCommit
    BY ConfigAssumption DEF HonestInv, TypeInv, TypeOK, Files
  <2> QED BY <2>1, ConfigAssumption DEF Honest, Applied
<1> QED BY <1>1, <1>2, HonestStep, PTL DEF Spec

---------------------------------------------------------------------------
\* One applier.  Before it writes: the bundle is not older than what is applied.
Ready(p) == pc[p] \in {"head", "pull", "recheck"} => ~Older(got[p])

\* Its temporary file: open and empty, then whole, and no other file is open.
Holding(p) ==
  /\ pc[p] = "fill" => fd[p] = "tmp" /\ tmp[at[p]] = Torn
  /\ pc[p] # "fill" => fd[p] = "none"
  /\ pc[p] = "rename" => tmp[at[p]] = Content(p)

\* About to replace applied.json: by the same bundle with a warning, or by one that
\* is not older and whose sections follow.
Replacing(p) ==
  (pc[p] \in Writing /\ at[p] = 0) =>
     /\ payload[p].of \in Bundles
     /\ IF upto[p] = 0 THEN payload[p].of = Applied
        ELSE payload[p].of = got[p] /\ ~Older(got[p])

\* Landing sections: those before the current one are in place.
Following(p) ==
  Landing(p) => Applied = got[p] /\ \A f \in Files : f < at[p] => disk[f].of = Applied

SoloInv ==
  /\ TypeInv
  /\ \A f \in Files : disk[f].of # "torn"
  /\ \A p \in Appliers : Ready(p) /\ Holding(p) /\ Replacing(p) /\ Following(p)
  /\ NeverAhead
  /\ LandedWhole

Serial == \A p, q \in Appliers : p = q

\* Steps that leave the files alone and do not end in writing.
LEMMA SoloAway ==
  ASSUME Serial, SoloInv, TypeInv', NEW p \in Appliers,
         UNCHANGED files, pc'[p] \notin Writing, fd'[p] = "none",
         pc'[p] \in {"head", "pull", "recheck"} => ~Older(got'[p]),
         ~Landing(p) => broken' = broken, Landing(p) => broken'
  PROVE  SoloInv'
<1>1. \A q \in Appliers : q = p
  BY DEF Serial
<1>2. disk' = disk /\ Applied' = Applied
  BY DEF files, Applied
<1>3. Ready(p)' /\ Holding(p)' /\ Replacing(p)' /\ Following(p)'
  <2>1. pc'[p] # "fill" /\ pc'[p] # "rename" /\ ~Landing(p)'
    BY DEF Landing, Writing
  <2>2. Ready(p)'
    BY <1>2 DEF Ready, Older
  <2> QED BY <2>1, <2>2 DEF Holding, Replacing, Following
<1>4. LandedWhole'
  <2>1. CASE Landing(p)
    BY <2>1 DEF LandedWhole
  <2>2. CASE ~Landing(p)
    BY <1>1, <1>2, <2>2 DEF SoloInv, LandedWhole
  <2> QED BY <2>1, <2>2
<1>5. NeverAhead'
  BY <1>2 DEF SoloInv, NeverAhead
<1> QED BY <1>1, <1>2, <1>3, <1>4, <1>5 DEF SoloInv

\* Steps that begin to write applied.json.
LEMMA SoloBegin ==
  ASSUME Serial, SoloInv, TypeInv', NEW p \in Appliers,
         UNCHANGED <<files, broken>>, pc[p] \notin Writing, pc'[p] = "open",
         at'[p] = 0, fd'[p] = "none", payload'[p].of \in Bundles,
         IF upto'[p] = 0 THEN payload'[p].of = Applied
         ELSE payload'[p].of = got'[p] /\ ~Older(got'[p])
  PROVE  SoloInv'
<1>1. \A q \in Appliers : q = p
  BY DEF Serial
<1>2. disk' = disk /\ Applied' = Applied
  BY DEF files, Applied
<1>3. ~Landing(p) /\ ~Landing(p)'
  BY DEF Landing
<1>4. Ready(p)' /\ Holding(p)' /\ Following(p)'
  BY <1>3 DEF Ready, Holding, Following
<1>5. Replacing(p)'
  BY <1>2 DEF Replacing, Older
<1>6. LandedWhole'
  BY <1>1, <1>2, <1>3 DEF SoloInv, LandedWhole
<1>7. NeverAhead'
  BY <1>2 DEF SoloInv, NeverAhead
<1> QED BY <1>1, <1>2, <1>4, <1>5, <1>6, <1>7 DEF SoloInv

\* Steps from one point of writing to the next that leave the disk alone.
LEMMA SoloOn ==
  ASSUME Serial, SoloInv, TypeInv', NEW p \in Appliers,
         UNCHANGED <<disk, locals, broken>>, pc[p] \in Writing, pc'[p] \in Writing,
         Holding(p)'
  PROVE  SoloInv'
<1>1. \A q \in Appliers : q = p
  BY DEF Serial
<1>2. Applied' = Applied /\ UNCHANGED <<got, payload, at, upto>>
  BY DEF locals, Applied
<1>3. Landing(p)' = Landing(p)
  BY <1>2 DEF Landing
<1>4. Ready(p)'
  BY DEF Ready, Writing
<1>5. Replacing(p)'
  BY <1>2 DEF SoloInv, Replacing, Older
<1>6. Following(p)'
  BY <1>2, <1>3 DEF SoloInv, Following
<1>7. LandedWhole'
  BY <1>1, <1>2, <1>3 DEF SoloInv, LandedWhole
<1>8. NeverAhead'
  BY <1>2 DEF SoloInv, NeverAhead
<1> QED BY <1>1, <1>4, <1>5, <1>6, <1>7, <1>8 DEF SoloInv

LEMMA SoloRename ==
  ASSUME Serial, SoloInv, TypeInv', NEW p \in Appliers, Rename(p)
  PROVE  SoloInv'
<1>1. \A q \in Appliers : q = p
  BY DEF Serial
<1>2. /\ pc[p] = "rename" /\ tmp[at[p]] = Content(p) /\ fd[p] = "none"
      /\ pc[p] \in Writing
  BY DEF Rename, SoloInv, Holding, Writing
<1>3. /\ disk \in [Files -> Contents] /\ at[p] \in Files /\ at[p] \in Nat
      /\ upto[p] \in {0, DimCount} /\ at[p] <= upto[p] /\ got[p] \in Bundles /\ 0 \in Files
  BY <1>2, ConfigAssumption DEF SoloInv, TypeInv, TypeOK, Local, Files
<1>4. disk'[at[p]] = Content(p) /\ \A f \in Files : f # at[p] => disk'[f] = disk[f]
  BY <1>2, <1>3 DEF Rename
<1>5. fd'[p] = "none"
  BY <1>2 DEF Rename, Carried
<1>6. CASE at[p] = upto[p]
  <2>1. pc'[p] = "idle"
    BY <1>6 DEF Rename, Exit, Goto, SoloInv, TypeInv, TypeOK
  <2>2. Ready(p)' /\ Holding(p)' /\ Replacing(p)' /\ Following(p)' /\ ~Landing(p)'
    BY <1>5, <2>1 DEF Ready, Holding, Replacing, Following, Landing, Writing
  <2>3. /\ Applied' = Applied /\ Content(p).of \in Bundles
        /\ at[p] # 0 => Content(p).of = Applied
        /\ at[p] = 0 => Content(p).of = Applied
    <3>1. CASE at[p] = 0
      BY <1>2, <1>4, <1>6, <3>1 DEF SoloInv, Replacing, Content, Applied
    <3>2. CASE at[p] # 0
      BY <1>2, <1>3, <1>4, <3>2 DEF SoloInv, Following, Landing, Content, Applied, Section
    <3> QED BY <3>1, <3>2
  <2>4. \A f \in Files : disk'[f].of = disk[f].of \/ disk'[f].of = Applied
    BY <1>4, <2>3
  <2>5. \A f \in Files : disk'[f].of # "torn"
    BY <1>4, <2>3, ConfigAssumption DEF SoloInv
  <2>6. NeverAhead'
    <3>1. Applied \in Bundles => Time[Applied] <= Time[Applied]
      BY ConfigAssumption
    <3> QED BY <2>3, <2>4, <3>1 DEF SoloInv, NeverAhead
  <2>7. LandedWhole'
    <3>1. CASE at[p] = 0
      <4>1. broken' = broken /\ ~Landing(p)
        BY <1>6, <3>1 DEF Rename, Landing, SoloInv, TypeInv, TypeOK
      <4> QED BY <1>1, <2>2, <2>3, <2>4, <4>1 DEF SoloInv, LandedWhole
    <3>2. CASE at[p] # 0
      <4>1. at[p] = DimCount /\ Landing(p)
        BY <1>2, <1>3, <1>6, <3>2 DEF Landing
      <4>2. \A f \in Files : f = at[p] \/ f < at[p]
        BY <4>1, ConfigAssumption DEF Files
      <4>3. \A f \in Files : disk'[f].of = Applied
        BY <1>4, <2>3, <3>2, <4>1, <4>2 DEF SoloInv, Following
      <4> QED BY <2>3, <4>3 DEF LandedWhole
    <3> QED BY <3>1, <3>2
  <2> QED BY <1>1, <2>2, <2>5, <2>6, <2>7 DEF SoloInv
<1>7. CASE at[p] # upto[p]
  <2>1. /\ pc'[p] = "open" /\ at'[p] = at[p] + 1 /\ UNCHANGED <<got, payload, upto>>
        /\ upto[p] = DimCount
    BY <1>3, <1>7 DEF Rename, Goto, SoloInv, TypeInv, TypeOK
  <2>2. Landing(p)' /\ Ready(p)' /\ Holding(p)' /\ Replacing(p)'
    BY <1>3, <1>5, <2>1 DEF Ready, Holding, Replacing, Landing, Writing
  <2>3. Content(p).of = got[p] /\ Applied' = got[p]
    <3>1. CASE at[p] = 0
      BY <1>2, <1>4, <1>7, <3>1 DEF SoloInv, Replacing, Content, Applied
    <3>2. CASE at[p] # 0
      BY <1>2, <1>3, <1>4, <3>2 DEF SoloInv, Following, Landing, Content, Applied, Section
    <3> QED BY <3>1, <3>2
  <2>4. \A f \in Files : f # at[p] => disk'[f].of = disk[f].of
    BY <1>4
  <2>5. \A f \in Files : disk'[f].of # "torn"
    BY <1>3, <1>4, <2>3, ConfigAssumption DEF SoloInv
  <2>6. \A f \in Files : f < at[p] + 1 => disk'[f].of = got[p]
    <3>1. CASE at[p] = 0
      <4>1. \A f \in Files : f < 1 => f = 0
        BY ConfigAssumption DEF Files
      <4> QED BY <1>4, <2>3, <3>1, <4>1
    <3>2. CASE at[p] # 0
      <4>1. Landing(p)
        BY <1>2, <1>3, <3>2 DEF Landing
      <4>2. \A f \in Files : f < at[p] + 1 => f = at[p] \/ f < at[p]
        BY <1>3, ConfigAssumption DEF Files
      <4> QED BY <1>4, <2>3, <2>4, <4>1, <4>2 DEF SoloInv, Following
    <3> QED BY <3>1, <3>2
  <2>7. Following(p)'
    BY <2>1, <2>3, <2>6 DEF Following
  <2>8. Applied \in Bundles => Time[Applied] <= Time[got[p]]
    <3>1. CASE at[p] = 0
      BY <1>2, <1>3, <1>7, <3>1, ConfigAssumption DEF SoloInv, Replacing, Older
    <3>2. CASE at[p] # 0
      BY <1>2, <1>3, <3>2, ConfigAssumption DEF SoloInv, Following, Landing
    <3> QED BY <3>1, <3>2
  <2>9. NeverAhead'
    <3> SUFFICES ASSUME NEW f \in Files, disk'[f].of \in Bundles
                 PROVE  Time[disk'[f].of] <= Time[got[p]]
      BY <1>3, <2>3 DEF NeverAhead
    <3>1. CASE f = at[p]
      BY <1>3, <1>4, <2>3, <3>1, ConfigAssumption
    <3>2. CASE f # at[p]
      <4>1. Applied \in Bundles /\ Time[disk[f].of] <= Time[Applied]
        BY <2>4, <3>2 DEF SoloInv, NeverAhead
      <4>2. Time[disk[f].of] \in Nat /\ Time[Applied] \in Nat /\ Time[got[p]] \in Nat
        BY <1>3, <2>4, <3>2, <4>1, ConfigAssumption
      <4> QED BY <2>4, <2>8, <3>2, <4>1, <4>2
    <3> QED BY <3>1, <3>2
  <2>10. LandedWhole'
    BY <2>2 DEF LandedWhole
  <2> QED BY <1>1, <2>2, <2>5, <2>7, <2>9, <2>10 DEF SoloInv
<1> QED BY <1>6, <1>7

LEMMA SoloStop ==
  ASSUME Serial, SoloInv, TypeInv', NEW p \in Appliers, Stop(p)
  PROVE  SoloInv'
<1>1. pc'[p] = "idle" /\ fd'[p] = "none" /\ UNCHANGED files
  BY DEF Stop, Exit, Goto, SoloInv, TypeInv, TypeOK
<1>2. (~Landing(p) => broken' = broken) /\ (Landing(p) => broken')
  BY DEF Stop, SoloInv, TypeInv, TypeOK
<1> QED BY <1>1, <1>2, SoloAway DEF Writing

LEMMA SoloLand ==
  ASSUME Serial, SoloInv, TypeInv', NEW p \in Appliers, NEW e \in Statuses, Land(p, e),
         UNCHANGED <<files, got, fd, broken>>, ~Older(got[p]),
         pc[p] \in {"compare", "head", "recheck"}
  PROVE  SoloInv'
<1>1. got[p] \in Bundles
  BY DEF SoloInv, TypeInv, Local
<1>2. pc'[p] = "open" /\ at'[p] = 0 /\ upto'[p] = DimCount /\ payload'[p] = Landed(got[p], e)
  BY LandWrites DEF Write, Goto, SoloInv, TypeInv, TypeOK
<1>3. payload'[p].of = got[p]
  BY <1>1, <1>2, LandedContents
<1>4. fd'[p] = "none" /\ pc[p] \notin Writing
  BY DEF SoloInv, Holding, Writing
<1> QED BY <1>1, <1>2, <1>3, <1>4, SoloBegin, ConfigAssumption

LEMMA SoloStep == Serial => (SoloInv /\ [Next]_vars => SoloInv')
<1> SUFFICES ASSUME Serial, SoloInv, [Next]_vars PROVE SoloInv'
  OBVIOUS
<1>1. TypeInv'
  BY TypeStep DEF SoloInv
<1>2. CASE UNCHANGED <<files, pc, locals, fd, broken>>
  BY <1>1, <1>2 DEF files, locals, SoloInv, Ready, Older, Applied, Holding, Content,
                    Replacing, Following, Landing, NeverAhead, LandedWhole
<1>3. ASSUME NEW p \in Appliers, Step(p) PROVE SoloInv'
  <2>0. /\ pc[p] \in Points /\ pc \in [Appliers -> Points]
        /\ pc[p] # "fill" => fd[p] = "none"
    BY DEF SoloInv, TypeInv, TypeOK, Holding
  <2>1. CASE ReadBundle(p)
    <3>1. pc'[p] = "compare" /\ fd'[p] = "none" /\ ~Landing(p)
      BY <2>0, <2>1 DEF ReadBundle, Goto, Landing, Writing
    <3> QED BY <1>1, <2>1, <3>1, SoloAway DEF ReadBundle, Writing
  <2>2. CASE Skip(p)
    <3>1. pc'[p] = "idle" /\ fd'[p] = "none" /\ ~Landing(p)
      BY <2>0, <2>2 DEF Skip, Exit, Goto, Landing, Writing
    <3> QED BY <1>1, <2>2, <3>1, SoloAway DEF Skip, Writing
  <2>3. CASE WarnStale(p)
    <3> DEFINE c == [disk[0] EXCEPT !.warnings = @ \cup StaleMark(got[p])]
    <3>1. disk[0] \in Contents /\ Applied \in Bundles
      <4>1. 0 \in Files /\ disk \in [Files -> Contents]
        BY ConfigAssumption DEF SoloInv, TypeInv, TypeOK, Files
      <4> QED BY <2>3, <4>1 DEF WarnStale, Older
    <3>2. c.of = Applied
      BY <3>1 DEF Contents, Applied
    <3>3. pc'[p] = "open" /\ at'[p] = 0 /\ upto'[p] = 0 /\ payload'[p] = c
      BY <2>3 DEF WarnStale, Write, Goto, SoloInv, TypeInv, TypeOK
    <3> HIDE DEF c
    <3>4. fd'[p] = "none" /\ pc[p] \notin Writing /\ UNCHANGED <<files, broken>>
      BY <2>0, <2>3 DEF WarnStale, Writing
    <3> QED BY <1>1, <3>1, <3>2, <3>3, <3>4, SoloBegin
  <2>4. CASE Proceed(p)
    <3>1. CASE Land(p, "unavailable")
      BY <1>1, <2>4, <3>1, SoloLand DEF Proceed, Statuses
    <3>2. CASE Goto(p, "head")
      <4>1. pc'[p] = "head" /\ fd'[p] = "none" /\ ~Landing(p)
        BY <2>0, <2>4, <3>2 DEF Proceed, Goto, Landing, Writing
      <4> QED BY <1>1, <2>4, <4>1, SoloAway DEF Proceed, Writing
    <3> QED BY <2>4, <3>1, <3>2 DEF Proceed
  <2>5. CASE CheckHead(p)
    <3>0. ~Older(got[p])
      BY <2>5 DEF CheckHead, SoloInv, Ready
    <3>1. CASE Land(p, "applied")
      BY <1>1, <2>5, <3>0, <3>1, SoloLand DEF CheckHead, Statuses
    <3>2. CASE Goto(p, "pull")
      <4>1. pc'[p] = "pull" /\ fd'[p] = "none" /\ ~Landing(p)
        BY <2>0, <2>5, <3>2 DEF CheckHead, Goto, Landing, Writing
      <4> QED BY <1>1, <2>5, <3>0, <4>1, SoloAway DEF CheckHead, Writing
    <3> QED BY <2>5, <3>1, <3>2 DEF CheckHead
  <2>6. CASE Pull(p)
    <3>0. ~Older(got[p])
      BY <2>6 DEF Pull, SoloInv, Ready
    <3>1. pc'[p] = "recheck" /\ fd'[p] = "none" /\ ~Landing(p) /\ got' = got
      BY <2>0, <2>6 DEF Pull, Goto, Landing, Writing, locals
    <3> QED BY <1>1, <2>6, <3>0, <3>1, SoloAway DEF Pull, Writing
  <2>7. CASE Recheck(p)
    <3>0. ~Older(got[p])
      BY <2>7 DEF Recheck, SoloInv, Ready
    <3>1. PICK e \in Statuses : Land(p, e)
      BY <2>7 DEF Recheck, Statuses
    <3> QED BY <1>1, <2>7, <3>0, <3>1, SoloLand DEF Recheck
  <2>8. CASE OpenTmp(p)
    <3>1. at[p] \in Files /\ tmp \in [Files -> Contents] /\ fd \in [Appliers -> Places]
      BY DEF SoloInv, TypeInv, TypeOK
    <3>2. pc'[p] = "fill" /\ fd'[p] = "tmp" /\ at' = at /\ tmp'[at[p]] = Torn
      BY <2>0, <2>8, <3>1 DEF OpenTmp, Goto, locals
    <3>3. Holding(p)'
      BY <3>2 DEF Holding
    <3> QED BY <1>1, <2>8, <3>2, <3>3, SoloOn DEF OpenTmp, Writing
  <2>9. CASE FillTmp(p)
    <3>1. at[p] \in Files /\ tmp \in [Files -> Contents] /\ fd \in [Appliers -> Places]
      BY DEF SoloInv, TypeInv, TypeOK
    <3>2. fd[p] = "tmp" /\ tmp[at[p]] = Torn
      BY <2>9 DEF FillTmp, SoloInv, Holding
    <3>3. tmp' = [tmp EXCEPT ![at[p]] = Content(p)] /\ disk' = disk
      BY <2>9, <3>2 DEF FillTmp, Over
    <3>4. pc'[p] = "rename" /\ fd'[p] = "none" /\ UNCHANGED <<locals, broken>>
      BY <2>0, <2>9, <3>1 DEF FillTmp, Goto
    <3>5. Content(p)' = Content(p) /\ at' = at
      BY <3>4 DEF Content, locals
    <3>6. Holding(p)'
      BY <3>1, <3>3, <3>4, <3>5 DEF Holding
    <3> QED BY <1>1, <2>9, <3>3, <3>4, <3>6, SoloOn DEF FillTmp, Writing
  <2>10. CASE Rename(p)
    BY <1>1, <2>10, SoloRename
  <2>11. CASE RenameFails(p)
    BY <1>1, <2>11, SoloStop DEF RenameFails
  <2> QED BY <1>3, <2>1, <2>2, <2>3, <2>4, <2>5, <2>6, <2>7, <2>8, <2>9, <2>10, <2>11 DEF Step
<1>4. ASSUME NEW p \in Appliers, Crash(p) PROVE SoloInv'
  BY <1>1, <1>4, SoloStop DEF Crash
<1> QED BY <1>2, <1>3, <1>4 DEF Next, Publish, CompanyCommit, vars

LEMMA SoloInit == Init => SoloInv
<1> SUFFICES ASSUME Init PROVE SoloInv
  OBVIOUS
<1>1. /\ \A f \in Files : disk[f].of = "none" /\ "none" \notin Bundles
      /\ Applied = "none"
  BY ConfigAssumption DEF Init, Missing, Applied, Files
<1>2. \A p \in Appliers : pc[p] = "idle" /\ fd[p] = "none"
  BY DEF Init
<1>3. \A p \in Appliers : Ready(p) /\ Holding(p) /\ Replacing(p) /\ Following(p)
  BY <1>2 DEF Ready, Holding, Replacing, Following, Landing, Writing
<1>4. NeverAhead /\ LandedWhole
  BY <1>1 DEF NeverAhead, LandedWhole
<1> QED BY <1>1, <1>3, <1>4, InitTypes DEF SoloInv

\* With one applier SoloInv is an invariant.
LEMMA SoloInvariant == Serial => (Spec => []SoloInv)
<1> SUFFICES ASSUME Serial PROVE Spec => []SoloInv
  OBVIOUS
<1>1. SoloInv /\ [Next]_vars => SoloInv'
  BY SoloStep
<1> QED BY <1>1, SoloInit, PTL DEF Spec

\* With one applier, whatever dies, no file of init-sync is ever half-written.
THEOREM FilesAreWhole == Serial => (Spec => []FilesWhole)
<1>1. SoloInv => FilesWhole
  BY DEF SoloInv, FilesWhole, Torn, Missing
<1> QED BY <1>1, SoloInvariant, PTL

\* With one applier no section is ever of a newer bundle than applied.json says.
THEOREM SectionsNeverAhead == Serial => (Spec => []NeverAhead)
<1>1. SoloInv => NeverAhead
  BY DEF SoloInv
<1> QED BY <1>1, SoloInvariant, PTL

\* With one applier, unless a landing stopped half-way, what is landed is one bundle.
THEOREM LandingsAreWhole == Serial => (Spec => []LandedWhole)
<1>1. SoloInv => LandedWhole
  BY DEF SoloInv
<1> QED BY <1>1, SoloInvariant, PTL

\* With one applier the applied version is never lost and never goes back.
THEOREM AppliedNeverGoesBack == Serial => (Spec => AppliedMonotone)
<1> SUFFICES ASSUME Serial PROVE Spec => AppliedMonotone
  OBVIOUS
<1>1. SoloInv /\ [Next]_vars => [Forward]_vars
  <2> SUFFICES ASSUME SoloInv, Next, Applied \in Bundles
               PROVE  Applied' \in Bundles /\ Time[Applied] <= Time[Applied']
    BY DEF Forward
  <2>0. Time[Applied] \in Nat /\ 0 \in Files /\ disk \in [Files -> Contents]
    BY ConfigAssumption DEF SoloInv, TypeInv, TypeOK, Files
  <2>1. CASE disk' = disk
    BY <2>0, <2>1 DEF Applied
  <2>2. ASSUME NEW p \in Appliers, FillTmp(p)
        PROVE  disk' = disk
    BY <2>2 DEF FillTmp, SoloInv, Holding
  <2>3. ASSUME NEW p \in Appliers, Rename(p)
        PROVE  Applied' \in Bundles /\ Time[Applied] <= Time[Applied']
    <3>1. at[p] \in Files /\ tmp[at[p]] = Content(p) /\ pc[p] \in Writing
      BY <2>3 DEF Rename, SoloInv, TypeInv, TypeOK, Holding, Writing
    <3>2. CASE at[p] # 0
      BY <2>0, <2>3, <3>1, <3>2 DEF Rename, Applied
    <3>3. CASE at[p] = 0
      <4>1. Applied' = payload[p].of
        BY <2>0, <2>3, <3>1, <3>3 DEF Rename, Applied, Content
      <4>2. Replacing(p)
        BY DEF SoloInv
      <4>3. /\ payload[p].of \in Bundles
            /\ payload[p].of = Applied \/ ~(Time[payload[p].of] < Time[Applied])
        BY <3>1, <3>3, <4>2 DEF Replacing, Older
      <4>4. Time[payload[p].of] \in Nat
        BY <4>3, ConfigAssumption
      <4> QED BY <2>0, <4>1, <4>3, <4>4
    <3> QED BY <3>2, <3>3
  <2> QED BY <2>1, <2>2, <2>3 DEF Next, Publish, CompanyCommit, Step, ReadBundle, Skip,
             WarnStale, Proceed, CheckHead, Pull, Recheck, OpenTmp, RenameFails, Crash,
             Stop, files
<1> QED BY <1>1, SoloInvariant, PTL DEF Spec, AppliedMonotone

---------------------------------------------------------------------------
\* The refinement of BundleStore.  What an applier is about to write to applied.json:
\* the one there is with one warning more, on account of an older bundle, or a new one
\* with the warnings it is applied with.
Meant(p) ==
  /\ pc[p] \in {"head", "pull", "recheck"} => got[p] # Applied /\ got[p] \notin NoEmployees
  /\ (pc[p] \in Writing /\ at[p] = 0) =>
       IF upto[p] = 0
         THEN /\ \E b \in Bundles : Older(b)
              /\ \E w \in {"hash", "source"} :
                   payload[p] = [disk[0] EXCEPT !.warnings = @ \cup {w}]
         ELSE /\ got[p] # Applied
              /\ \E e \in {"applied", "warning", "unavailable"} :
                   /\ (e = "unavailable") <=> (got[p] \in NoEmployees)
                   /\ payload[p] = Landed(got[p], e)

MeantInv == \A p \in Appliers : Meant(p)

LEMMA MeantLand ==
  ASSUME Serial, SoloInv, NEW p \in Appliers,
         NEW e \in {"applied", "warning", "unavailable"}, Land(p, e),
         (e = "unavailable") <=> (got[p] \in NoEmployees),
         got[p] # Applied, UNCHANGED <<got, files>>
  PROVE  MeantInv'
<1>1. /\ pc'[p] = "open" /\ upto'[p] = DimCount /\ payload'[p] = Landed(got[p], e)
      /\ Applied' = Applied
  BY LandWrites DEF Write, Goto, SoloInv, TypeInv, TypeOK, files, Applied
<1>2. Meant(p)'
  <2>1. DimCount # 0
    BY ConfigAssumption
  <2>2. Landed(got[p], e)' = Landed(got[p], e)
    BY DEF Landed
  <2> QED BY <1>1, <2>1, <2>2 DEF Meant, Landed
<1> QED BY <1>2 DEF MeantInv, Serial

LEMMA MeantStep == Serial => (SoloInv /\ MeantInv /\ [Next]_vars => MeantInv')
<1> SUFFICES ASSUME Serial, SoloInv, MeantInv, [Next]_vars PROVE MeantInv'
  OBVIOUS
<1>0. ASSUME NEW p \in Appliers
      PROVE pc[p] \in Points /\ pc \in [Appliers -> Points] /\ (\A q \in Appliers : q = p)
            /\ Meant(p)
  BY DEF SoloInv, TypeInv, TypeOK, Serial, MeantInv
<1>1. CASE UNCHANGED <<files, pc, locals>>
  BY <1>1 DEF files, locals, MeantInv, Meant, Older, Applied, Landed
<1>2. ASSUME NEW p \in Appliers, pc'[p] \in {"idle", "compare"} PROVE MeantInv'
  BY <1>0, <1>2 DEF MeantInv, Meant, Writing
<1>3. ASSUME NEW p \in Appliers, UNCHANGED <<disk, locals>>, pc[p] \in Writing, pc'[p] \in Writing
      PROVE MeantInv'
  <2>1. /\ Applied' = Applied /\ UNCHANGED <<got, payload, at, upto>>
        /\ pc'[p] \notin {"head", "pull", "recheck"}
    BY <1>3 DEF Applied, locals, Writing
  <2> QED BY <1>0, <1>3, <2>1 DEF MeantInv, Meant, Older, Landed
<1>4. ASSUME NEW p \in Appliers, UNCHANGED <<disk, got>>, pc'[p] \in {"head", "pull", "recheck"},
             got[p] # Applied, got[p] \notin NoEmployees
      PROVE MeantInv'
  <2>1. Applied' = Applied /\ pc'[p] \notin Writing
    BY <1>4 DEF Applied, Writing
  <2> QED BY <1>0, <1>4, <2>1 DEF MeantInv, Meant
<1>5. ASSUME NEW p \in Appliers, Step(p) PROVE MeantInv'
  <2>0. pc[p] \in Points /\ pc \in [Appliers -> Points] /\ Meant(p)
    BY <1>0
  <2>1. CASE ReadBundle(p) \/ Skip(p) \/ RenameFails(p)
    BY <1>2, <2>0, <2>1 DEF ReadBundle, Skip, RenameFails, Stop, Exit, Goto
  <2>2. CASE WarnStale(p)
    <3>1. PICK w \in {"hash", "source"} : StaleMark(got[p]) = {w}
      BY <2>2 DEF WarnStale, StaleMark
    <3>2. /\ pc'[p] = "open" /\ upto'[p] = 0
          /\ payload'[p] = [disk[0] EXCEPT !.warnings = @ \cup {w}]
      BY <2>2, <3>1 DEF WarnStale, Write, Goto, SoloInv, TypeInv, TypeOK
    <3>3. got[p] \in Bundles /\ Older(got[p]) /\ Older(got[p])' /\ disk' = disk /\ got' = got
      BY <2>2 DEF WarnStale, SoloInv, TypeInv, Local, files, Older, Applied
    <3>4. Meant(p)'
      BY <3>2, <3>3 DEF Meant, Older
    <3> QED BY <1>0, <3>4 DEF MeantInv
  <2>3. CASE Proceed(p)
    <3>1. CASE got[p] \in NoEmployees
      BY <2>3, <3>1, MeantLand DEF Proceed
    <3>2. CASE got[p] \notin NoEmployees
      <4>1. pc'[p] = "head"
        BY <2>0, <2>3, <3>2 DEF Proceed, Goto
      <4> QED BY <1>4, <2>3, <3>2, <4>1 DEF Proceed, files
    <3> QED BY <3>1, <3>2
  <2>4. CASE CheckHead(p)
    <3>1. got[p] # Applied /\ got[p] \notin NoEmployees
      BY <2>0, <2>4 DEF CheckHead, Meant
    <3>2. CASE Land(p, "applied")
      BY <2>4, <3>1, <3>2, MeantLand DEF CheckHead
    <3>3. CASE Goto(p, "pull")
      <4>1. pc'[p] = "pull"
        BY <2>0, <3>3 DEF Goto
      <4> QED BY <1>4, <2>4, <3>1, <4>1 DEF CheckHead, files
    <3> QED BY <2>4, <3>2, <3>3 DEF CheckHead
  <2>5. CASE Pull(p)
    <3>1. got[p] # Applied /\ got[p] \notin NoEmployees /\ pc'[p] = "recheck"
      BY <2>0, <2>5 DEF Pull, Meant, Goto
    <3> QED BY <1>4, <2>5, <3>1 DEF Pull, files, locals
  <2>6. CASE Recheck(p)
    <3>1. got[p] # Applied /\ got[p] \notin NoEmployees
      BY <2>0, <2>6 DEF Recheck, Meant
    <3>2. PICK e \in {"applied", "warning"} : Land(p, e)
      BY <2>6 DEF Recheck
    <3> QED BY <2>6, <3>1, <3>2, MeantLand DEF Recheck
  <2>7. CASE OpenTmp(p)
    <3>1. pc'[p] = "fill"
      BY <2>0, <2>7 DEF OpenTmp, Goto
    <3> QED BY <1>3, <2>7, <3>1 DEF OpenTmp, Writing
  <2>8. CASE FillTmp(p)
    <3>1. fd[p] = "tmp" /\ pc'[p] = "rename"
      BY <2>0, <2>8 DEF FillTmp, Goto, SoloInv, Holding
    <3> QED BY <1>3, <2>8, <3>1 DEF FillTmp, Writing
  <2>9. CASE Rename(p)
    <3>1. CASE at[p] = upto[p]
      BY <1>2, <2>0, <2>9, <3>1 DEF Rename, Exit, Goto
    <3>2. CASE at[p] # upto[p]
      <4>1. pc'[p] = "open" /\ at'[p] # 0
        BY <2>0, <2>9, <3>2 DEF Rename, Goto, SoloInv, TypeInv, TypeOK, Files
      <4> QED BY <1>0, <4>1 DEF MeantInv, Meant
    <3> QED BY <3>1, <3>2
  <2> QED BY <1>5, <2>1, <2>2, <2>3, <2>4, <2>5, <2>6, <2>7, <2>8, <2>9 DEF Step
<1>6. ASSUME NEW p \in Appliers, Crash(p) PROVE MeantInv'
  BY <1>0, <1>2, <1>6 DEF Crash, Stop, Exit, Goto
<1> QED BY <1>1, <1>5, <1>6 DEF Next, Publish, CompanyCommit, vars

\* The rename of applied.json, and that of a section.
LEMMA StoreRename ==
  ASSUME Serial, SoloInv, MeantInv, NEW p \in Appliers, Rename(p)
  PROVE  Store!Next
<1>1. /\ pc[p] = "rename" /\ pc[p] \in Writing /\ tmp[at[p]] = Content(p)
      /\ disk' = [disk EXCEPT ![at[p]] = Content(p)]
  BY DEF Rename, SoloInv, Holding, Writing
<1>2. /\ disk \in [Files -> Contents] /\ at[p] \in Files /\ got[p] \in Bundles /\ 0 \in Files
      /\ \A i \in 1..DimCount : i \in Files /\ i # 0
  BY <1>1, ConfigAssumption DEF SoloInv, TypeInv, TypeOK, Local, Files
<1>3. CASE at[p] = 0
  <2>1. /\ disk'[0] = payload[p]
        /\ [i \in 1..DimCount |-> disk'[i].of] = [i \in 1..DimCount |-> disk[i].of]
    BY <1>1, <1>2, <1>3 DEF Content
  <2>2. CASE upto[p] = 0
    <3>1. PICK w \in {"hash", "source"} : payload[p] = [disk[0] EXCEPT !.warnings = @ \cup {w}]
      BY <1>1, <1>3, <2>2 DEF MeantInv, Meant
    <3>2. \E b \in Bundles : Store!Outdated(b)
      BY <1>1, <1>3, <2>2 DEF MeantInv, Meant, Older, Applied, Store!Outdated
    <3>3. Store!Warn(w)
      BY <2>1, <3>1, <3>2 DEF Store!Warn
    <3> QED BY <3>3 DEF Store!Next
  <2>3. CASE upto[p] # 0
    <3>1. PICK e \in {"applied", "warning", "unavailable"} :
            /\ (e = "unavailable") <=> (got[p] \in NoEmployees)
            /\ payload[p] = Landed(got[p], e)
      BY <1>1, <1>3, <2>3 DEF MeantInv, Meant
    <3>2. got[p] # Applied /\ ~Older(got[p])
      BY <1>1, <1>3, <2>3 DEF MeantInv, Meant, SoloInv, Replacing
    <3>3. Store!Apply(got[p], e)
      BY <2>1, <3>1, <3>2 DEF Store!Apply, Store!Outdated, Store!Notes, Older, Applied, Landed
    <3> QED BY <1>2, <3>1, <3>3 DEF Store!Next
  <2> QED BY <2>2, <2>3
<1>4. CASE at[p] # 0
  <2>1. Landing(p) /\ at[p] \in 1..DimCount
    BY <1>1, <1>2, <1>4, ConfigAssumption DEF Landing, Files
  <2>2. Applied = got[p] /\ \A f \in Files : f < at[p] => disk[f].of = Applied
    BY <2>1 DEF SoloInv, Following
  <2>3. disk'[0] = disk[0]
    BY <1>1, <1>2, <1>4
  <2>4. Content(p).of = Applied
    BY <1>4, <2>2 DEF Content, Section, Missing
  <2>5. [i \in 1..DimCount |-> disk'[i].of]
          = [[i \in 1..DimCount |-> disk[i].of] EXCEPT ![at[p]] = Applied]
    BY <1>1, <1>2, <2>4
  <2>6. ASSUME NEW i \in 1..DimCount, i = at[p] PROVE Store!Follow(i)
    BY <1>2, <2>1, <2>2, <2>3, <2>5, <2>6 DEF Store!Follow, Applied
  <2> QED BY <2>1, <2>6 DEF Store!Next
<1> QED BY <1>3, <1>4

LEMMA StoreStep ==
  Serial => (SoloInv /\ MeantInv /\ [Next]_vars => [Store!Next]_(Store!vars))
<1> SUFFICES ASSUME Serial, SoloInv, MeantInv, [Next]_vars
             PROVE  Store!Next \/ UNCHANGED Store!vars
  OBVIOUS
<1>1. CASE disk' = disk
  BY <1>1 DEF Store!vars
<1>2. ASSUME NEW p \in Appliers, FillTmp(p) PROVE disk' = disk
  BY <1>2 DEF FillTmp, SoloInv, Holding
<1> QED BY <1>1, <1>2, StoreRename DEF Next, Publish, CompanyCommit, Step, ReadBundle, Skip,
           WarnStale, Proceed, CheckHead, Pull, Recheck, OpenTmp, RenameFails, Crash,
           Stop, files, vars

LEMMA MeantInvariant == Serial => (Spec => [](SoloInv /\ MeantInv))
<1> SUFFICES ASSUME Serial PROVE Spec => [](SoloInv /\ MeantInv)
  OBVIOUS
<1>1. Init => MeantInv
  BY DEF Init, MeantInv, Meant, Writing
<1>2. SoloInv /\ MeantInv /\ [Next]_vars => SoloInv' /\ MeantInv'
  BY SoloStep, MeantStep
<1> QED BY <1>1, <1>2, SoloInit, PTL DEF Spec

\* With one applier, whatever dies and whatever git does, init-sync changes as
\* BundleStore says: applied.json at a stroke, then the sections in order.
THEOREM AppliesAreAtAStroke == Serial => (Spec => StoreSpec)
<1> SUFFICES ASSUME Serial PROVE Spec => StoreSpec
  OBVIOUS
<1>1. Init => Store!Init
  <2> SUFFICES ASSUME Init PROVE Store!Init
    OBVIOUS
  <2>1. \A f \in Files : disk[f] = Missing
    BY DEF Init
  <2>2. 0 \in Files /\ \A i \in 1..DimCount : i \in Files
    BY ConfigAssumption DEF Files
  <2> QED BY <2>1, <2>2 DEF Store!Init, Missing
<1>2. SoloInv /\ MeantInv /\ [Next]_vars => [Store!Next]_(Store!vars)
  BY StoreStep
<1> QED BY <1>1, <1>2, MeantInvariant, PTL DEF Spec, StoreSpec, Store!Spec

---------------------------------------------------------------------------
\* The server's cache.  An applier only ever writes what a file says.
WritesInv == TypeInv /\ \A p \in Appliers : pc[p] \in Writing => payload[p].of \in Bundles

LEMMA WritesStep == WritesInv /\ [Next]_vars => WritesInv'
<1> SUFFICES ASSUME WritesInv, [Next]_vars PROVE WritesInv'
  OBVIOUS
<1>1. TypeInv /\ TypeInv' /\ pc \in [Appliers -> Points] /\ payload \in [Appliers -> Contents]
  BY TypeStep DEF WritesInv, TypeInv, TypeOK
<1>2. ASSUME UNCHANGED <<pc, payload>> PROVE WritesInv'
  BY <1>1, <1>2 DEF WritesInv
<1>3. ASSUME NEW p \in Appliers, NEW l \in Points, Goto(p, l), l \notin Writing,
             \A q \in Appliers : q # p => payload'[q] = payload[q]
      PROVE WritesInv'
  BY <1>1, <1>3 DEF WritesInv, Goto
<1>4. ASSUME NEW p \in Appliers, NEW l \in Points, Goto(p, l), pc[p] \in Writing,
             payload' = payload
      PROVE WritesInv'
  BY <1>1, <1>4 DEF WritesInv, Goto
<1>5. ASSUME NEW p \in Appliers, NEW c, NEW l, Write(p, c, l), c.of \in Bundles PROVE WritesInv'
  BY <1>1, <1>5 DEF WritesInv, Write, Goto
<1>6. ASSUME NEW p \in Appliers, Exit(p) PROVE WritesInv'
  BY <1>1, <1>3, <1>6 DEF Exit, Points, Writing
<1>7. ASSUME NEW p \in Appliers, pc[p] # "idle", NEW e \in Statuses, Land(p, e) PROVE WritesInv'
  <2>1. got[p] \in Bundles
    BY <1>7 DEF WritesInv, TypeInv, Local
  <2> QED BY <1>5, <1>7, <2>1, LandWrites, LandedContents
<1>8. ASSUME NEW p \in Appliers, Step(p) PROVE WritesInv'
  <2>1. CASE ReadBundle(p)
    BY <1>3, <2>1 DEF ReadBundle, Points, Writing
  <2>2. CASE Skip(p) \/ RenameFails(p)
    BY <1>6, <2>2 DEF Skip, RenameFails, Stop
  <2>3. CASE WarnStale(p)
    <3> DEFINE c == [disk[0] EXCEPT !.warnings = @ \cup StaleMark(got[p])]
    <3>1. disk[0] \in Contents /\ Applied \in Bundles
      <4>1. 0 \in Files /\ disk \in [Files -> Contents]
        BY <1>1, ConfigAssumption DEF TypeInv, TypeOK, Files
      <4> QED BY <2>3, <4>1 DEF WarnStale, Older
    <3>2. c.of \in Bundles
      BY <3>1 DEF Contents, Applied
    <3>3. Write(p, c, 0)
      BY <2>3 DEF WarnStale
    <3> HIDE DEF c
    <3> QED BY <1>5, <3>2, <3>3
  <2>4. CASE Proceed(p)
    BY <1>3, <1>7, <2>4 DEF Proceed, Points, Writing, Statuses
  <2>5. CASE CheckHead(p)
    BY <1>3, <1>7, <2>5 DEF CheckHead, Points, Writing, Statuses
  <2>6. CASE Pull(p)
    BY <1>3, <2>6 DEF Pull, Points, Writing, locals
  <2>7. CASE Recheck(p)
    BY <1>7, <2>7 DEF Recheck, Statuses
  <2>8. CASE OpenTmp(p)
    BY <1>4, <2>8 DEF OpenTmp, Points, Writing, locals
  <2>9. CASE FillTmp(p)
    BY <1>4, <2>9 DEF FillTmp, Points, Writing, locals
  <2>10. CASE Rename(p)
    <3>1. CASE at[p] = upto[p]
      BY <1>6, <2>10, <3>1 DEF Rename
    <3>2. CASE at[p] # upto[p]
      BY <1>4, <2>10, <3>2 DEF Rename, Points, Writing
    <3> QED BY <3>1, <3>2
  <2> QED BY <1>8, <2>1, <2>2, <2>3, <2>4, <2>5, <2>6, <2>7, <2>8, <2>9, <2>10 DEF Step
<1>9. CASE Publish \/ CompanyCommit \/ UNCHANGED vars
  BY <1>2, <1>9 DEF Publish, CompanyCommit, vars, locals
<1> QED BY <1>6, <1>8, <1>9 DEF Next, Crash, Stop

\* A file is never missing again.
LEMMA FilesStay ==
  ASSUME WritesInv, [Next]_vars, NEW f \in Files, disk'[f] # disk[f]
  PROVE  disk'[f] # Missing
<1>1. PICK p \in Appliers : FillTmp(p) \/ Rename(p)
  BY DEF Next, Publish, CompanyCommit, Step, ReadBundle, Skip, WarnStale, Proceed, CheckHead,
         Pull, Recheck, OpenTmp, RenameFails, Crash, Stop, files, vars
<1>2. disk \in [Files -> Contents] /\ at[p] \in Files
  BY DEF WritesInv, TypeInv, TypeOK
<1>3. CASE Rename(p)
  BY <1>2, <1>3 DEF Rename
<1>4. CASE FillTmp(p)
  <2>1. fd[p] = "disk"
    BY <1>4 DEF FillTmp, files
  <2>2. disk'[f] \in {Content(p), Torn}
    BY <1>2, <1>4, <2>1 DEF FillTmp, Over
  <2>3. Missing.of = "none" /\ Torn.of = "torn" /\ "none" \notin Bundles
    BY ConfigAssumption DEF Missing, Torn
  <2>4. Content(p).of \in Bundles
    <3>1. pc[p] \in Writing /\ pc[p] # "idle"
      BY <1>4 DEF FillTmp, Writing
    <3>2. payload[p].of \in Bundles /\ got[p] \in Bundles
      BY <3>1 DEF WritesInv, TypeInv, Local
    <3> QED BY <3>2 DEF Content, Section, Missing
  <2> QED BY <2>2, <2>3, <2>4
<1> QED BY <1>1, <1>3, <1>4

\* The null of a read that failed under that modification time.
Lost(s, v) == v = Null /\ s \in unread

\* An entry, kept or about to be, of the file's own modification time is what the file
\* is, and serves every request that found that time: it was read after their stat, or
\* nothing changed in between, or it could not be read.
Sound(s, v) ==
  \/ Lost(s, v)
  \/ /\ (s = stamp /\ s # NoFile /\ s \notin shared) => v = version
     /\ \A r \in Readers :
          (rpc[r] = "check" /\ mark[r] = s /\ s # NoFile /\ s \notin shared) => v >= since[r]

FileInv == (disk[Cached] = Missing \/ stamp = NoFile) => version = 0

CacheInv ==
  /\ CacheTypeOK /\ WritesInv /\ FileInv
  /\ Sound(cache.stamp, cache.version)
  /\ \A r \in Readers :
       /\ rpc[r] = "check" /\ mark[r] = NoFile => since[r] = 0
       /\ rpc[r] = "store" => /\ held[r] >= since[r] \/ Lost(mark[r], held[r])
                              /\ Sound(mark[r], held[r])
  /\ AnswersCurrent

LEMMA CacheInitial == Init /\ CacheInit => CacheInv
<1> SUFFICES ASSUME Init, CacheInit PROVE CacheInv
  OBVIOUS
<1>1. CacheTypeOK
  BY CacheAssumption DEF CacheInit, CacheTypeOK, NoFile, Empty, Null
<1>2. WritesInv
  BY InitTypes DEF Init, WritesInv, Writing
<1>3. FileInv /\ AnswersCurrent
  BY DEF CacheInit, FileInv, AnswersCurrent
<1>4. Sound(cache.stamp, cache.version)
  BY DEF CacheInit, Sound, Empty
<1> QED BY <1>1, <1>2, <1>3, <1>4 DEF CacheInv, CacheInit

\* A new version: entries of the modification time before no longer match, or the time
\* is shared.
LEMMA CacheApply ==
  ASSUME CacheInv, ApplySide
  PROVE  CacheInv'
<1>1. WritesInv'
  BY WritesStep DEF CacheInv, ApplySide
<1>2. UNCHANGED <<cache, rpc, mark, held, since, unread>>
  BY DEF ApplySide, reads
<1>3. CASE disk'[Cached] = disk[Cached]
  <2>1. UNCHANGED <<version, stamp, shared>>
    BY <1>3 DEF ApplySide, file
  <2> QED BY <1>1, <1>2, <1>3, <2>1
          DEF CacheInv, CacheTypeOK, FileInv, Sound, Lost, AnswersCurrent
<1>4. CASE disk'[Cached] # disk[Cached]
  <2>1. /\ version < MaxVersions /\ version' = version + 1
        /\ stamp' \in {stamp, stamp + 1} /\ stamp' # NoFile
        /\ shared' = IF stamp' = stamp THEN shared \cup {stamp} ELSE shared
    BY <1>4 DEF ApplySide, Replace
  <2>2. CacheTypeOK
    BY DEF CacheInv
  <2>3. /\ version \in Nat /\ stamp \in Nat /\ stamp <= version /\ shared \subseteq 0..stamp
        /\ cache \in [stamp : 0..stamp, version : 0..version]
        /\ \A r \in Readers : mark[r] \in 0..stamp /\ held[r] \in 0..version
                                /\ since[r] \in 0..version
        /\ unread \subseteq 0..stamp
    BY <2>2, CacheAssumption DEF CacheTypeOK
  <2>4. CacheTypeOK'
    <3>1. version' \in 0..MaxVersions /\ stamp' \in 0..version' /\ shared' \subseteq 0..stamp'
      BY <2>1, <2>3, CacheAssumption
    <3>2. 0..stamp \subseteq 0..stamp' /\ 0..version \subseteq 0..version'
      BY <2>1, <2>3
    <3>3. unread' \subseteq 0..stamp'
      BY <1>2, <2>3, <3>2
    <3>4. /\ cache' \in [stamp : 0..stamp', version : 0..version'] /\ mark' \in [Readers -> 0..stamp']
          /\ held' \in [Readers -> 0..version'] /\ since' \in [Readers -> 0..version']
      BY <1>2, <2>2, <3>2 DEF CacheTypeOK
    <3> QED BY <1>2, <2>2, <3>1, <3>3, <3>4 DEF CacheTypeOK
  <2>5. ASSUME NEW s \in 0..stamp, NEW v, Sound(s, v) PROVE Sound(s, v)'
    BY <1>2, <2>1, <2>3, <2>5 DEF Sound, Lost
  <2>6. FileInv'
    <3>1. disk'[Cached] # Missing
      BY <1>4, FilesStay, CacheAssumption DEF CacheInv, ApplySide
    <3> QED BY <2>1, <3>1 DEF FileInv, NoFile
  <2>7. Sound(cache.stamp, cache.version)'
    BY <1>2, <2>3, <2>5 DEF CacheInv
  <2>8. ASSUME NEW r \in Readers, rpc[r] = "store" PROVE Sound(mark[r], held[r])'
    BY <1>2, <2>3, <2>5, <2>8 DEF CacheInv
  <2>9. AnswersCurrent'
    BY <1>2, <2>1 DEF CacheInv, AnswersCurrent
  <2>10. ASSUME NEW r \in Readers, rpc[r] = "store"
         PROVE  held'[r] >= since'[r] \/ Lost(mark[r], held[r])'
    BY <1>2, <2>10 DEF CacheInv, Lost
  <2> QED BY <1>1, <1>2, <2>4, <2>6, <2>7, <2>8, <2>9, <2>10 DEF CacheInv
<1> QED BY <1>3, <1>4

\* A read neither writes nor changes the file.
LEMMA CacheRead ==
  ASSUME CacheInv, NEW r \in Readers, ReadSide(r)
  PROVE  CacheInv'
<1>1. UNCHANGED <<vars, file>> /\ UNCHANGED <<version, stamp, shared, disk>>
  BY DEF ReadSide, Stat, Absent, Hit, ReadFile, Keep, file, vars, files
<1>2. WritesInv' /\ FileInv'
  <2>1. WritesInv'
    BY <1>1, WritesStep DEF CacheInv
  <2> QED BY <1>1, <2>1 DEF CacheInv, FileInv
<1>3. /\ version \in Nat /\ stamp \in Nat /\ stamp \in 0..version
      /\ cache \in [stamp : 0..stamp, version : 0..version]
      /\ rpc \in [Readers -> {"told", "check", "store"}]
      /\ mark \in [Readers -> 0..stamp]
      /\ held \in [Readers -> 0..version] /\ since \in [Readers -> 0..version]
      /\ unread \subseteq 0..stamp
  BY CacheAssumption DEF CacheInv, CacheTypeOK
<1>4. CASE Stat(r)
  <2>1. /\ rpc' = [rpc EXCEPT ![r] = "check"] /\ held' = [held EXCEPT ![r] = 0]
        /\ mark' = [mark EXCEPT ![r] = IF disk[Cached] = Missing THEN NoFile ELSE stamp]
        /\ since' = [since EXCEPT ![r] = version] /\ cache' = cache /\ unread' = unread
    BY <1>4 DEF Stat, GoOn
  <2>2. CacheTypeOK'
    <3>1. 0 \in 0..stamp /\ stamp \in 0..stamp /\ 0 \in 0..version /\ version \in 0..version
      BY <1>3
    <3> QED BY <1>1, <1>3, <2>1, <3>1 DEF CacheInv, CacheTypeOK, NoFile
  <2>3. ASSUME NEW s, NEW v, Sound(s, v) PROVE Sound(s, v)'
    BY <1>1, <1>3, <2>1, <2>3 DEF Sound, Lost
  <2>4. mark'[r] = NoFile => since'[r] = 0
    BY <1>3, <2>1 DEF CacheInv, FileInv
  <2>5. AnswersCurrent'
    BY <1>1, <1>3, <2>1 DEF CacheInv, AnswersCurrent
  <2>6. Sound(cache.stamp, cache.version)'
    BY <2>1, <2>3 DEF CacheInv
  <2>7. ASSUME NEW q \in Readers
        PROVE  /\ rpc'[q] = "check" /\ mark'[q] = NoFile => since'[q] = 0
               /\ rpc'[q] = "store" => /\ held'[q] >= since'[q] \/ Lost(mark[q], held[q])'
                                       /\ Sound(mark[q], held[q])'
    BY <1>3, <2>1, <2>3, <2>4 DEF CacheInv, Lost
  <2> QED BY <1>2, <2>2, <2>5, <2>6, <2>7 DEF CacheInv
<1>5. CASE Absent(r) \/ Hit(r)
  <2>1. /\ rpc[r] = "check" /\ rpc' = [rpc EXCEPT ![r] = "told"]
        /\ \E v \in 0..version :
             /\ held' = [held EXCEPT ![r] = v]
             /\ v >= since[r] \/ Lost(mark[r], v) \/ mark[r] \in shared
        /\ cache' \in {cache, Empty} /\ UNCHANGED <<mark, since, unread>>
    <3>1. CASE Absent(r)
      <4>1. since[r] = 0 /\ 0 \in 0..version /\ 0 >= 0
        BY <1>3, <3>1 DEF Absent, CacheInv
      <4>2. /\ rpc[r] = "check" /\ rpc' = [rpc EXCEPT ![r] = "told"]
            /\ held' = [held EXCEPT ![r] = 0]
            /\ cache' \in {cache, Empty} /\ UNCHANGED <<mark, since, unread>>
        BY <3>1 DEF Absent, GoOn
      <4> QED BY <4>1, <4>2
    <3>2. CASE Hit(r)
      <4>1. /\ cache.version \in 0..version
            /\ cache.version >= since[r] \/ Lost(mark[r], cache.version) \/ mark[r] \in shared
        BY <1>3, <3>2 DEF Hit, CacheInv, Sound, Lost
      <4>2. /\ rpc[r] = "check" /\ rpc' = [rpc EXCEPT ![r] = "told"]
            /\ held' = [held EXCEPT ![r] = cache.version]
            /\ cache' = cache /\ UNCHANGED <<mark, since, unread>>
        BY <3>2 DEF Hit, GoOn
      <4> QED BY <4>1, <4>2
    <3> QED BY <1>5, <3>1, <3>2
  <2>2. PICK v \in 0..version : /\ held' = [held EXCEPT ![r] = v]
                                /\ v >= since[r] \/ Lost(mark[r], v) \/ mark[r] \in shared
    BY <2>1
  <2>3. CacheTypeOK'
    <3>1. Empty \in [stamp : 0..stamp, version : 0..version]
      BY <1>3 DEF Empty, NoFile, Null
    <3> QED BY <1>1, <1>3, <2>1, <2>2, <3>1 DEF CacheInv, CacheTypeOK
  <2>4. ASSUME NEW s, NEW w, Sound(s, w) PROVE Sound(s, w)'
    BY <1>1, <1>3, <2>1, <2>4 DEF Sound, Lost
  <2>5. Sound(cache.stamp, cache.version)'
    <3>1. Sound(Empty.stamp, Empty.version)
      BY DEF Sound, Empty
    <3> QED BY <2>1, <2>4, <3>1 DEF CacheInv
  <2>6. AnswersCurrent'
    BY <1>1, <1>3, <2>1, <2>2 DEF CacheInv, AnswersCurrent, Lost
  <2>7. ASSUME NEW q \in Readers
        PROVE  /\ rpc'[q] = "check" /\ mark'[q] = NoFile => since'[q] = 0
               /\ rpc'[q] = "store" => /\ held'[q] >= since'[q] \/ Lost(mark[q], held[q])'
                                       /\ Sound(mark[q], held[q])'
    BY <1>3, <2>1, <2>2, <2>4 DEF CacheInv, Lost
  <2> QED BY <1>2, <2>3, <2>5, <2>6, <2>7 DEF CacheInv
<1>6. CASE ReadFile(r)
  <2>1. /\ rpc[r] = "check" /\ mark[r] # NoFile /\ rpc' = [rpc EXCEPT ![r] = "store"]
        /\ \/ held' = [held EXCEPT ![r] = version] /\ unread' = unread
           \/ held' = [held EXCEPT ![r] = Null] /\ unread' = unread \cup {mark[r]}
        /\ UNCHANGED <<cache, mark, since>>
    BY <1>6 DEF ReadFile, GoOn
  <2>2. CacheTypeOK'
    <3>1. version \in 0..version /\ Null \in 0..version /\ mark[r] \in 0..stamp
      BY <1>3 DEF Null
    <3>2. held' \in [Readers -> 0..version] /\ unread' \subseteq 0..stamp
      BY <1>3, <2>1, <3>1
    <3> QED BY <1>1, <1>3, <2>1, <3>2 DEF CacheInv, CacheTypeOK
  <2>3. ASSUME NEW s, NEW v, Sound(s, v) PROVE Sound(s, v)'
    BY <1>1, <1>3, <2>1, <2>3 DEF Sound, Lost
  <2>4. Sound(mark[r], held[r])' /\ (held'[r] >= since'[r] \/ Lost(mark[r], held[r])')
    <3>1. \A q \in Readers : version >= since[q]
      BY <1>3
    <3> QED BY <1>1, <1>3, <2>1, <3>1 DEF Sound, Lost
  <2>5. AnswersCurrent'
    BY <1>1, <1>3, <2>1 DEF CacheInv, AnswersCurrent
  <2>6. Sound(cache.stamp, cache.version)'
    BY <2>1, <2>3 DEF CacheInv
  <2>7. ASSUME NEW q \in Readers
        PROVE  /\ rpc'[q] = "check" /\ mark'[q] = NoFile => since'[q] = 0
               /\ rpc'[q] = "store" => /\ held'[q] >= since'[q] \/ Lost(mark[q], held[q])'
                                       /\ Sound(mark[q], held[q])'
    BY <1>3, <2>1, <2>3, <2>4 DEF CacheInv, Lost
  <2> QED BY <1>2, <2>2, <2>5, <2>6, <2>7 DEF CacheInv
<1>7. CASE Keep(r)
  <2>1. /\ rpc[r] = "store" /\ rpc' = [rpc EXCEPT ![r] = "told"]
        /\ cache' = [stamp |-> mark[r], version |-> held[r]]
        /\ UNCHANGED <<mark, held, since, unread>>
    BY <1>7 DEF Keep, GoOn
  <2>2. CacheTypeOK'
    BY <1>1, <1>3, <2>1 DEF CacheInv, CacheTypeOK
  <2>3. ASSUME NEW s, NEW v, Sound(s, v) PROVE Sound(s, v)'
    BY <1>1, <1>3, <2>1, <2>3 DEF Sound, Lost
  <2>4. Sound(mark[r], held[r]) /\ (held[r] >= since[r] \/ Lost(mark[r], held[r]))
    BY <2>1 DEF CacheInv
  <2>5. AnswersCurrent'
    BY <1>1, <1>3, <2>1, <2>4 DEF CacheInv, AnswersCurrent, Lost
  <2>6. Sound(cache.stamp, cache.version)'
    BY <2>1, <2>3, <2>4
  <2>7. ASSUME NEW q \in Readers
        PROVE  /\ rpc'[q] = "check" /\ mark'[q] = NoFile => since'[q] = 0
               /\ rpc'[q] = "store" => /\ held'[q] >= since'[q] \/ Lost(mark[q], held[q])'
                                       /\ Sound(mark[q], held[q])'
    BY <1>3, <2>1, <2>3 DEF CacheInv, Lost
  <2> QED BY <1>2, <2>2, <2>5, <2>6, <2>7 DEF CacheInv
<1> QED BY <1>4, <1>5, <1>6, <1>7 DEF ReadSide

LEMMA CacheInvariant == ServedSpec => []CacheInv
<1>1. CacheInv /\ [ServedNext]_allVars => CacheInv'
  <2> SUFFICES ASSUME CacheInv, [ServedNext]_allVars PROVE CacheInv'
    OBVIOUS
  <2>1. CASE UNCHANGED allVars
    <3>1. UNCHANGED vars /\ UNCHANGED <<version, stamp, shared, cache, rpc, mark, held, since, unread>>
          /\ UNCHANGED disk
      BY <2>1 DEF allVars, file, reads, vars, files
    <3>2. WritesInv'
      BY <3>1, WritesStep DEF CacheInv
    <3> QED BY <3>1, <3>2 DEF CacheInv, CacheTypeOK, FileInv, Sound, Lost, AnswersCurrent
  <2> QED BY <2>1, CacheApply, CacheRead DEF ServedNext
<1> QED BY <1>1, CacheInitial, PTL DEF ServedSpec

\* Requests that read beside the appliers do not disturb them: what is proved of
\* ConfigSync holds of the two together.
THEOREM ReadersDoNotDisturb == ServedSpec => Spec
<1>1. [ServedNext]_allVars => [Next]_vars
  BY DEF ServedNext, ApplySide, ReadSide, Stat, Absent, Hit, ReadFile, Keep, allVars
<1> QED BY <1>1, PTL DEF ServedSpec, Spec

\* The cache's variables keep their types.
THEOREM CacheTypeCorrect == ServedSpec => []CacheTypeOK
<1>1. CacheInv => CacheTypeOK
  BY DEF CacheInv
<1> QED BY <1>1, CacheInvariant, PTL

\* Every answer was current while its request was served, for any number of requests
\* and of replacements, unless two versions had one modification time.
THEOREM AnswersAreCurrent == ServedSpec => []AnswersCurrent
<1>1. CacheInv => AnswersCurrent
  BY DEF CacheInv
<1> QED BY <1>1, CacheInvariant, PTL
=============================================================================
