------------------------------ MODULE IndexCache ------------------------------
(***************************************************************************)
(* The package index on disk and who uses it.                              *)
(*                                                                         *)
(* A cache root holds one file for each harvested package version and      *)
(* meta.json, which names the current version of each package.  `arity     *)
(* index` and the language server's background harvest both extend it      *)
(* (rindex/build.rs, rindex/cache.rs), without a lock: each file is        *)
(* replaced atomically, meta.json is read, extended and replaced.  A       *)
(* process may die between any two steps.                                  *)
(*                                                                         *)
(* The server's lint thread keeps one provider installed and knows it by   *)
(* the root and the stamp of the meta.json it was loaded from              *)
(* (lint_thread.rs ensure_index); a harvest hands over a provider of its   *)
(* own.  The stamp moves with every rewrite.                               *)
(***************************************************************************)
EXTENDS Naturals, Sequences, FiniteSets

CONSTANTS
  Packages,
  Roots,        \* cache roots: each document is configured with one
  Server, Clis, \* the processes
  None,         \* absent: no provider, no lint in progress
  MaxInstalled, \* the highest version a library may hold
  MaxBuilds,    \* `arity index` runs
  MaxFaults     \* crashes, restarts of the server, wipes, changes of the library

Procs == {Server} \union Clis

ASSUME IndexAssumption ==
  /\ Server \notin Clis /\ None \notin Roots
  /\ MaxInstalled \in Nat \ {0} /\ MaxBuilds \in Nat /\ MaxFaults \in Nat

VARIABLES
  library,  \* installed version of each package, 0 when there is none
  files,    \* package files under each root: <<package, version>>
  meta,     \* meta.json of each root: version of each package, 0 when not named
  stamp,    \* its modification time and length
  build,    \* the build each process runs
  \* the server
  jobs,     \* builds queued for the index pool, which has one thread
  attempts, \* packages tried in this session
  provider, \* what the installed provider was loaded from: a meta, or None
  install,  \* the identity it is known by, or None
  lint,     \* the identity a lint is loading, or None
  built,    \* providers handed over by builds and not yet installed
  \* only for properties
  recorded, \* packages recorded under each root and not wiped
  overlap,  \* two processes extended one meta.json at the same time
  late,     \* the installed provider came from a build and was outdated by then
  wiped,
  budget

disk == <<library, files, meta, stamp>>
server == <<jobs, attempts, provider, install, lint, built>>
ghosts == <<recorded, overlap, late, wiped>>
vars == <<disk, build, server, ghosts, budget>>

Idle == [phase |-> "idle", root |-> None, todo |-> {}, newly |-> {}, base |-> <<>>]
NoMeta == [p \in Packages |-> 0]

Init ==
  /\ library = [p \in Packages |-> 1]
  /\ files = [r \in Roots |-> {}]
  /\ meta = [r \in Roots |-> NoMeta]
  /\ stamp = [r \in Roots |-> 0]
  /\ build = [q \in Procs |-> Idle]
  /\ jobs = <<>> /\ attempts = {} /\ built = <<>>
  /\ provider = None /\ install = None /\ lint = None
  /\ recorded = [r \in Roots |-> {}]
  /\ overlap = FALSE /\ late = FALSE /\ wiped = FALSE
  /\ budget = [builds |-> MaxBuilds, faults |-> MaxFaults]

-------------------------------------------------------------------------------
(* build_index.                                                            *)

Started(r, ps) == [Idle EXCEPT !.phase = "harvest", !.root = r, !.todo = ps]

StartCli(q, r, ps) ==
  /\ build[q] = Idle /\ budget.builds > 0
  /\ build' = [build EXCEPT ![q] = Started(r, ps)]
  /\ budget' = [budget EXCEPT !.builds = @ - 1]
  /\ UNCHANGED <<disk, server, ghosts>>

\* The index pool has one thread.
StartServer ==
  /\ jobs # <<>> /\ build[Server] = Idle
  /\ build' = [build EXCEPT ![Server] = Started(Head(jobs).root, Head(jobs).todo)]
  /\ jobs' = Tail(jobs)
  /\ UNCHANGED <<disk, attempts, provider, install, lint, built, ghosts, budget>>

\* (wrong) meta.json names a package before its file is written.
HarvestDeferred(q, p) ==
  /\ build[q].phase = "harvest" /\ p \in build[q].todo
  /\ LET v == library[p]
         indexed == v # 0 /\ meta[build[q].root][p] # v
     IN  build' = [build EXCEPT ![q].todo = @ \ {p},
                                ![q].newly = @ \union IF indexed THEN {<<p, v>>} ELSE {}]
  /\ UNCHANGED <<disk, server, ghosts, budget>>

\* One package, in any order: not installed or failed, up to date, or written
\* to a file of its own.
Harvest(q, p) ==
  /\ build[q].phase = "harvest" /\ p \in build[q].todo
  /\ LET r == build[q].root
         v == library[p]
         indexed == v # 0 /\ meta[r][p] # v
     IN  /\ files' = IF indexed THEN [files EXCEPT ![r] = @ \union {<<p, v>>}] ELSE files
         /\ build' = [build EXCEPT ![q].todo = @ \ {p},
                                   ![q].newly = @ \union IF indexed THEN {<<p, v>>} ELSE {}]
  /\ UNCHANGED <<library, meta, stamp, server, ghosts, budget>>

HarvestFails(q, p) ==
  /\ build[q].phase = "harvest" /\ p \in build[q].todo
  /\ build' = [build EXCEPT ![q].todo = @ \ {p}]
  /\ UNCHANGED <<disk, server, ghosts, budget>>

\* record_indexed reads meta.json; a build that indexed nothing is over.
ReadMeta(q) ==
  /\ build[q].phase = "harvest" /\ build[q].todo = {}
  /\ LET r == build[q].root
         others == {o \in Procs \ {q} : build[o].phase = "record" /\ build[o].root = r}
     IN  IF build[q].newly = {}
         THEN build' = [build EXCEPT ![q] = Idle] /\ UNCHANGED overlap
         ELSE /\ build' = [build EXCEPT ![q].phase = "record", ![q].base = meta[r]]
              /\ overlap' = (overlap \/ others # {})
  /\ UNCHANGED <<disk, server, recorded, late, wiped, budget>>

\* (wrong) meta.json is written from this build's packages only.
ExtendedFresh(base, newly) ==
  [p \in Packages |-> IF \E v \in 1..MaxInstalled : <<p, v>> \in newly
                      THEN CHOOSE v \in 1..MaxInstalled : <<p, v>> \in newly
                      ELSE 0]

Extended(base, newly) ==
  [p \in Packages |-> IF \E v \in 1..MaxInstalled : <<p, v>> \in newly
                      THEN CHOOSE v \in 1..MaxInstalled : <<p, v>> \in newly
                      ELSE base[p]]

\* ... and replaces it.
WriteMeta(q) ==
  /\ build[q].phase = "record"
  /\ LET r == build[q].root
     IN  /\ meta' = [meta EXCEPT ![r] = Extended(build[q].base, build[q].newly)]
         /\ stamp' = [stamp EXCEPT ![r] = @ + 1]
         /\ recorded' = [recorded EXCEPT ![r] = @ \union {x[1] : x \in build[q].newly}]
  /\ build' = [build EXCEPT ![q].phase = IF q = Server THEN "hand over" ELSE "idle",
                            ![q].root = IF q = Server THEN @ ELSE None,
                            ![q].newly = {}, ![q].base = <<>>]
  /\ UNCHANGED <<library, files, server, overlap, late, wiped, budget>>

\* A build of the server that indexed something loads a provider from the
\* cache it wrote and sends it to the lint thread.
HandOver ==
  /\ build[Server].phase = "hand over"
  /\ built' = Append(built, meta[build[Server].root])
  /\ build' = [build EXCEPT ![Server] = Idle]
  /\ UNCHANGED <<disk, jobs, attempts, provider, install, lint, ghosts, budget>>

-------------------------------------------------------------------------------
(* The lint thread.                                                        *)

\* (wrong) A provider is known by its root alone.
IdentityOfRoot(r) == [root |-> r, stamp |-> 0]

Identity(r) == [root |-> r, stamp |-> stamp[r]]

\* has_package: the file meta.json named when the provider was loaded is there.
Has(prov, r, p) == prov[p] # 0 /\ <<p, prov[p]>> \in files[r]

\* packages_to_build marks what it returns as attempted.
Plan(r, prov, want) ==
  LET todo == {p \in want : ~Has(prov, r, p)} \ attempts
  IN  /\ attempts' = attempts \union todo
      /\ jobs' = IF todo = {} THEN jobs ELSE Append(jobs, [root |-> r, todo |-> todo])

\* A lint of a document that refers to the packages `want`, while the provider
\* installed is known to be that of its root.
LintWarm(r, want) ==
  /\ lint = None /\ install = Identity(r)
  /\ Plan(r, provider, want)
  /\ UNCHANGED <<disk, build, provider, install, lint, built, ghosts, budget>>

\* Otherwise ensure_index takes the stamp first
LintStat(r) ==
  /\ lint = None /\ install # Identity(r)
  /\ lint' = Identity(r)
  /\ UNCHANGED <<disk, build, jobs, attempts, provider, install, built, ghosts, budget>>

\* ... and reads meta.json then.
LintLoad(want) ==
  /\ lint # None
  /\ provider' = meta[lint.root]
  /\ install' = lint
  /\ late' = FALSE
  /\ Plan(lint.root, meta[lint.root], want)
  /\ lint' = None
  /\ UNCHANGED <<disk, build, built, recorded, overlap, wiped, budget>>

\* The lint thread installs what a build loaded, and re-lints everything.
InstallBuilt ==
  /\ built # <<>> /\ lint = None
  /\ provider' = Head(built)
  /\ built' = Tail(built)
  /\ late' = (install # None /\ Head(built) # meta[install.root])
  /\ UNCHANGED <<disk, build, jobs, attempts, install, lint, recorded, overlap, wiped, budget>>

-------------------------------------------------------------------------------
(* The rest of the world.                                                  *)

\* install.packages, remove.packages
Library(p, v) ==
  /\ v # library[p] /\ v \in {0, library[p] + 1} /\ budget.faults > 0
  /\ library' = [library EXCEPT ![p] = v]
  /\ budget' = [budget EXCEPT !.faults = @ - 1]
  /\ UNCHANGED <<files, meta, stamp, build, server, ghosts>>

Crash(q) ==
  /\ q \in Clis /\ build[q] # Idle /\ budget.faults > 0
  /\ build' = [build EXCEPT ![q] = Idle]
  /\ budget' = [budget EXCEPT !.faults = @ - 1]
  /\ UNCHANGED <<disk, server, ghosts>>

\* The server dies and starts again.
Restart ==
  /\ budget.faults > 0
  /\ build' = [build EXCEPT ![Server] = Idle]
  /\ jobs' = <<>> /\ attempts' = {} /\ built' = <<>>
  /\ provider' = None /\ install' = None /\ lint' = None /\ late' = FALSE
  /\ budget' = [budget EXCEPT !.faults = @ - 1]
  /\ UNCHANGED <<disk, recorded, overlap, wiped>>

\* Somebody clears the cache; gc_old_schema_dirs of another release does too.
Wipe(r) ==
  /\ budget.faults > 0
  /\ files' = [files EXCEPT ![r] = {}]
  /\ meta' = [meta EXCEPT ![r] = NoMeta]
  /\ stamp' = [stamp EXCEPT ![r] = @ + 1]
  /\ recorded' = [recorded EXCEPT ![r] = {}]
  /\ wiped' = TRUE
  /\ budget' = [budget EXCEPT !.faults = @ - 1]
  /\ UNCHANGED <<library, build, server, overlap, late>>

BuildStep(q) ==
  \/ \E p \in Packages : Harvest(q, p) \/ HarvestFails(q, p)
  \/ ReadMeta(q) \/ WriteMeta(q)

Next ==
  \/ \E q \in Clis, r \in Roots, ps \in SUBSET Packages \ {{}} : StartCli(q, r, ps)
  \/ StartServer
  \/ \E q \in Procs : BuildStep(q) \/ Crash(q)
  \/ HandOver
  \/ \E r \in Roots : LintStat(r) \/ Wipe(r)
  \/ \E want \in SUBSET Packages : LintLoad(want) \/ \E r \in Roots : LintWarm(r, want)
  \/ InstallBuilt
  \/ \E p \in Packages, v \in 0..MaxInstalled : Library(p, v)
  \/ Restart

Spec == Init /\ [][Next]_vars

-------------------------------------------------------------------------------
(* Properties.                                                             *)

\* meta.json never names a package file that is not there: it is written last,
\* so a process that dies before, between or during its two kinds of writes, and
\* any number of others beside it, leave an index that can be read whole.
EntriesHaveTheirFiles ==
  wiped \/ \A r \in Roots, p \in Packages : meta[r][p] # 0 => <<p, meta[r][p]>> \in files[r]

\* A recorded package stays recorded, as long as no two processes extend one
\* meta.json at the same time: the server's own harvests never do.
RecordedStaysRecorded ==
  overlap \/ wiped \/ \A r \in Roots : \A p \in recorded[r] : meta[r][p] # 0

\* The same whatever other processes do.
RecordedStaysRecordedAlways ==
  wiped \/ \A r \in Roots : \A p \in recorded[r] : meta[r][p] # 0

\* When the server believes its provider to be that of a meta.json and the file
\* has not moved since, it is, unless a build's provider was installed late.
IdentityIsTrue ==
  install # None /\ install = Identity(install.root) =>
    provider = meta[install.root] \/ late

\* ensure_index: "without it nothing would ever re-read meta.json".  What the
\* server believes about its provider is true.
IdentityIsAlwaysTrue ==
  install # None /\ install = Identity(install.root) /\ built = <<>> =>
    provider = meta[install.root]
===============================================================================
