--------------------------- MODULE AppliedCache ----------------------------
(***************************************************************************)
(* The server's side of the configuration sync: it reads a file of         *)
(* init-sync through a cache that goes by modification time and age        *)
(* (readAppliedManifest in src/config-sync/status.ts, readAppliedModel in  *)
(* default-model.ts), while appliers, other processes, replace the file.   *)
(*                                                                         *)
(* Requests interleave at the two awaits of a read, stat and readFile, and *)
(* each of these looks at the file at some moment before its promise       *)
(* settles.  What a file says is the number of the version it is; version  *)
(* 0 is no file, and the answer null.  Content that does not parse or has  *)
(* not the shape is what its version says.  A readFile may fail though the *)
(* stat before it did not: null is answered then, and kept.  Two versions  *)
(* may have one modification time, if they follow each other closely; it   *)
(* never goes back, which one applier sees to, since it fills its          *)
(* temporary files in the order it renames them.                           *)
(***************************************************************************)
EXTENDS ConfigSync

CONSTANTS
  Readers,     \* requests served at the same time
  Cached,      \* the file: 0 for applied.json, i for the i-th section
  MaxVersions, \* bound: versions of the file
  MaxUnread    \* bound: modification times under which a read fails

ASSUME CacheAssumption == Cached \in Files /\ MaxVersions \in Nat /\ MaxUnread \in Nat

VARIABLES
  version,  \* the version the file is
  stamp,    \* its modification time
  shared,   \* history: modification times of more than one version
  cache,    \* the entry kept, if any: a modification time and a version
  rpc,      \* where each read is
  mark,     \* the modification time its stat found
  held,     \* the version it has read
  since,    \* history: the version the file was at its stat
  unread    \* history: modification times under which a readFile failed

file    == <<version, stamp, shared>>
reads   == <<cache, rpc, mark, held, since, unread>>
allVars == <<vars, file, reads>>

NoFile == 0  \* stands for the modification time of no file
Null   == 0  \* the version of no file, and the answer when there is none to read
Empty  == [stamp |-> NoFile, version |-> Null]

CacheInit ==
  /\ version = 0 /\ stamp = NoFile /\ shared = {}
  /\ cache = Empty
  /\ rpc = [r \in Readers |-> "told"]
  /\ mark = [r \in Readers |-> NoFile]
  /\ held = [r \in Readers |-> 0]
  /\ since = [r \in Readers |-> 0]
  /\ unread = {}

---------------------------------------------------------------------------
\* A step of the appliers, of git or of the world, and what it does to the file.
Replace ==
  /\ version < MaxVersions
  /\ version' = version + 1
  /\ stamp' \in {stamp, stamp + 1} \ {NoFile}
  /\ shared' = IF stamp' = stamp THEN shared \cup {stamp} ELSE shared

ApplySide ==
  /\ Next
  /\ IF disk'[Cached] # disk[Cached] THEN Replace ELSE UNCHANGED file
  /\ UNCHANGED reads

---------------------------------------------------------------------------
GoOn(r, l) == rpc' = [rpc EXCEPT ![r] = l]

\* A request asks for the file's modification time.
Stat(r) ==
  /\ rpc[r] = "told"
  /\ GoOn(r, "check")
  /\ mark' = [mark EXCEPT ![r] = IF disk[Cached] = Missing THEN NoFile ELSE stamp]
  /\ held' = [held EXCEPT ![r] = 0]
  /\ since' = [since EXCEPT ![r] = version]
  /\ UNCHANGED <<vars, file, cache, unread>>

\* No file: the answer is null, and the entry for applied.json is dropped.
Absent(r) ==
  /\ rpc[r] = "check" /\ mark[r] = NoFile
  /\ GoOn(r, "told")
  /\ held' = [held EXCEPT ![r] = 0]
  /\ cache' = IF Cached = 0 THEN Empty ELSE cache
  /\ UNCHANGED <<vars, file, mark, since, unread>>

\* The entry has the file's modification time and is less than 10 s old.
Hit(r) ==
  /\ rpc[r] = "check" /\ mark[r] # NoFile
  /\ cache.stamp = mark[r]
  /\ GoOn(r, "told")
  /\ held' = [held EXCEPT ![r] = cache.version]
  /\ UNCHANGED <<vars, file, cache, mark, since, unread>>

\* It has not, or it is older: the file is read, at some moment after that turn, or
\* cannot be.
ReadFile(r) ==
  /\ rpc[r] = "check" /\ mark[r] # NoFile
  /\ GoOn(r, "store")
  /\ \/ held' = [held EXCEPT ![r] = version] /\ unread' = unread
     \/ /\ held' = [held EXCEPT ![r] = Null]
        /\ unread' = unread \cup {mark[r]} /\ Cardinality(unread') <= MaxUnread
  /\ UNCHANGED <<vars, file, cache, mark, since>>

KeepRestamped(r) ==  \* mutant: the modification time is asked for after the read
  /\ rpc[r] = "store"
  /\ GoOn(r, "told")
  /\ cache' = [stamp |-> stamp, version |-> held[r]]
  /\ UNCHANGED <<vars, file, mark, held, since, unread>>

\* The turn that answers keeps what was read, the null of a failed read too, under the
\* time found before it.
Keep(r) ==
  /\ rpc[r] = "store"
  /\ GoOn(r, "told")
  /\ cache' = [stamp |-> mark[r], version |-> held[r]]
  /\ UNCHANGED <<vars, file, mark, held, since, unread>>

ReadSide(r) ==
  Stat(r) \/ Absent(r) \/ Hit(r) \/ ReadFile(r) \/ Keep(r)

ServedNext == ApplySide \/ \E r \in Readers : ReadSide(r)
ServedSpec == Init /\ CacheInit /\ [][ServedNext]_allVars

---------------------------------------------------------------------------
\* Every variable keeps its type.
CacheTypeOK ==
  /\ version \in 0..MaxVersions /\ stamp \in 0..version
  /\ shared \subseteq 0..stamp
  /\ cache \in [stamp : 0..stamp, version : 0..version]
  /\ rpc \in [Readers -> {"told", "check", "store"}]
  /\ mark \in [Readers -> 0..stamp]
  /\ held \in [Readers -> 0..version] /\ since \in [Readers -> 0..version]
  /\ unread \subseteq 0..stamp

\* Whatever appliers and other requests do meanwhile, an answer is what the file
\* said at some moment while the request was served, however old the entry it came
\* from is, unless the file's modification time was that of two versions; and null
\* is answered for a file that is there only if a read failed under the very
\* modification time that the request found (readAppliedManifest: stat before
\* readFile, and an entry under the time of the stat).
AnswersCurrent ==
  \A r \in Readers :
    rpc[r] = "told" =>
      \/ held[r] >= since[r]
      \/ held[r] = Null /\ mark[r] \in unread
      \/ mark[r] \in shared
=============================================================================
