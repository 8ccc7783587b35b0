--------------------------- MODULE IndexCacheProofs ---------------------------
(***************************************************************************)
(* The package index stays readable, whichever processes build it and      *)
(* wherever they die; what one process at a time records is not lost; and  *)
(* the server's provider is what its identity says.  For any packages,     *)
(* roots, processes and numbers of builds and faults.                      *)
(***************************************************************************)
EXTENDS IndexCache, TLAPS

PackageFiles == Packages \X (1 .. MaxInstalled)
Manifests == [Packages -> 0 .. MaxInstalled]
Identities == [root : Roots, stamp : Nat]
HarvestJobs == [root : Roots, todo : SUBSET Packages]

BuildRecords ==
  [phase : {"idle", "harvest", "record", "hand over"}, root : Roots \union {None},
   todo : SUBSET Packages, newly : SUBSET PackageFiles, base : {<<>>} \union Manifests]
Builds ==
  {b \in BuildRecords : /\ b.phase # "idle" => b.root \in Roots
                        /\ b.phase = "record" => b.base \in Manifests}

Typed ==
  /\ library \in Manifests
  /\ files \in [Roots -> SUBSET PackageFiles]
  /\ meta \in [Roots -> Manifests]
  /\ stamp \in [Roots -> Nat]
  /\ build \in [Procs -> Builds]
  /\ jobs \in Seq(HarvestJobs)
  /\ install \in Identities \union {None}
  /\ lint \in Identities \union {None}
  /\ recorded \in [Roots -> SUBSET Packages]
  /\ overlap \in BOOLEAN /\ wiped \in BOOLEAN

\* What record_indexed writes: the entries of this build over those it read.
LEMMA ExtendedManifest ==
  ASSUME NEW base \in Manifests, NEW newly \in SUBSET PackageFiles
  PROVE  /\ Extended(base, newly) \in Manifests
         /\ \A p \in Packages : \/ <<p, Extended(base, newly)[p]>> \in newly
                                \/ Extended(base, newly)[p] = base[p]
         /\ \A p \in Packages : base[p] # 0 => Extended(base, newly)[p] # 0
         /\ \A x \in newly : x[1] \in Packages /\ Extended(base, newly)[x[1]] # 0
<1>1. ASSUME NEW p \in Packages, NEW v \in 1 .. MaxInstalled, <<p, v>> \in newly
      PROVE  /\ Extended(base, newly)[p] \in 1 .. MaxInstalled
             /\ <<p, Extended(base, newly)[p]>> \in newly
  BY <1>1 DEF Extended
<1>2. ASSUME NEW p \in Packages, ~\E v \in 1 .. MaxInstalled : <<p, v>> \in newly
      PROVE  Extended(base, newly)[p] = base[p]
  BY <1>2 DEF Extended
<1>3. \A p \in Packages : Extended(base, newly)[p] \in 0 .. MaxInstalled
  <2> SUFFICES ASSUME NEW p \in Packages PROVE Extended(base, newly)[p] \in 0 .. MaxInstalled
    OBVIOUS
  <2>1. base[p] \in 0 .. MaxInstalled
    BY DEF Manifests
  <2>2. 1 .. MaxInstalled \subseteq 0 .. MaxInstalled
    BY IndexAssumption
  <2> QED BY <2>1, <2>2, <1>1, <1>2
<1>4. Extended(base, newly) \in Manifests
  BY <1>3 DEF Extended, Manifests
<1>5. ASSUME NEW x \in newly PROVE x[1] \in Packages /\ Extended(base, newly)[x[1]] # 0
  <2>1. x[1] \in Packages /\ x[2] \in 1 .. MaxInstalled /\ x = <<x[1], x[2]>>
    BY DEF PackageFiles
  <2>2. Extended(base, newly)[x[1]] \in 1 .. MaxInstalled
    BY <2>1, <1>1
  <2> QED BY <2>1, <2>2, IndexAssumption
<1>6. ASSUME NEW p \in Packages, base[p] # 0 PROVE Extended(base, newly)[p] # 0
  <2>1. CASE \E v \in 1 .. MaxInstalled : <<p, v>> \in newly
    <3>1. Extended(base, newly)[p] \in 1 .. MaxInstalled
      BY <1>1, <2>1
    <3> QED BY <3>1
  <2>2. CASE ~\E v \in 1 .. MaxInstalled : <<p, v>> \in newly
    BY <1>2, <1>6, <2>2
  <2> QED BY <2>1, <2>2
<1> QED
  BY <1>1, <1>2, <1>4, <1>5, <1>6

LEMMA IdleIsABuild == Idle \in Builds
BY DEF Idle, Builds, BuildRecords

LEMMA InitTyped == Init => Typed
<1> SUFFICES ASSUME Init PROVE Typed
  OBVIOUS
<1>1. 1 \in 0 .. MaxInstalled /\ 0 \in 0 .. MaxInstalled
  BY IndexAssumption
<1>2. build \in [Procs -> Builds]
  BY IdleIsABuild DEF Init
<1>3. /\ library \in Manifests /\ meta \in [Roots -> Manifests]
      /\ stamp \in [Roots -> Nat]
  BY <1>1 DEF Init, Manifests, NoMeta
<1>4. files \in [Roots -> SUBSET PackageFiles] /\ recorded \in [Roots -> SUBSET Packages]
  BY DEF Init
<1>5. jobs \in Seq(HarvestJobs)
  BY DEF Init
<1> QED
  BY <1>2, <1>3, <1>4, <1>5 DEF Init, Typed

\* One process goes on to another build.
LEMMA PutBuild ==
  ASSUME Typed, NEW q \in Procs, NEW b \in Builds, build' = [build EXCEPT ![q] = b]
  PROVE  build' \in [Procs -> Builds]
BY DEF Typed

\* A lint asks for a build of the packages it misses.
LEMMA PlanTyped ==
  ASSUME Typed, NEW r \in Roots, NEW prov, NEW want \in SUBSET Packages, Plan(r, prov, want)
  PROVE  jobs' \in Seq(HarvestJobs)
<1> DEFINE todo == {p \in want : ~Has(prov, r, p)} \ attempts
<1>1. [root |-> r, todo |-> todo] \in HarvestJobs
  BY DEF HarvestJobs
<1>2. jobs' = IF todo = {} THEN jobs ELSE Append(jobs, [root |-> r, todo |-> todo])
  BY DEF Plan
<1> HIDE DEF todo
<1>3. jobs \in Seq(HarvestJobs)
  BY DEF Typed
<1> QED
  BY <1>1, <1>2, <1>3

LEMMA StepTyped == Typed /\ [Next]_vars => Typed'
<1> SUFFICES ASSUME Typed, [Next]_vars PROVE Typed'
  OBVIOUS
<1>a. Server \in Procs /\ Clis \subseteq Procs
  BY DEF Procs
<1>1. ASSUME NEW q \in Clis, NEW r \in Roots, NEW ps \in SUBSET Packages, StartCli(q, r, ps)
      PROVE  Typed'
  <2>1. Started(r, ps) \in Builds
    BY DEF Started, Idle, Builds, BuildRecords
  <2>2. build' = [build EXCEPT ![q] = Started(r, ps)]
    BY <1>1 DEF StartCli
  <2> QED
    BY <1>1, <1>a, <2>1, <2>2, PutBuild DEF StartCli, Typed, disk, server, ghosts
<1>2. ASSUME StartServer PROVE Typed'
  <2> DEFINE job == Head(jobs)
  <2>1. /\ job.root \in Roots /\ job.todo \in SUBSET Packages
        /\ jobs' \in Seq(HarvestJobs)
    <3>1. jobs # <<>> /\ jobs' = Tail(jobs) /\ jobs \in Seq(HarvestJobs)
      BY <1>2 DEF StartServer, Typed
    <3>2. Head(jobs) \in HarvestJobs
      BY <3>1
    <3>3. Tail(jobs) \in Seq(HarvestJobs)
      BY <3>1
    <3> QED BY <3>1, <3>2, <3>3 DEF HarvestJobs
  <2>2. build' = [build EXCEPT ![Server] = Started(job.root, job.todo)]
    BY <1>2 DEF StartServer
  <2> HIDE DEF job
  <2>3. Started(job.root, job.todo) \in Builds
    BY <2>1 DEF Started, Idle, Builds, BuildRecords
  <2> QED
    BY <1>2, <1>a, <2>1, <2>2, <2>3, PutBuild DEF StartServer, Typed, disk, ghosts
<1>3. ASSUME NEW q \in Procs, NEW p \in Packages, Harvest(q, p) PROVE Typed'
  <2> DEFINE r == build[q].root
             v == library[p]
             indexed == v # 0 /\ meta[r][p] # v
             found == IF indexed THEN {<<p, v>>} ELSE {}
  <2>1. /\ build[q] \in Builds /\ build[q].phase = "harvest" /\ r \in Roots
        /\ build' = [build EXCEPT ![q] = [build[q] EXCEPT !.todo = @ \ {p},
                                                            !.newly = @ \union found]]
        /\ files' = IF indexed THEN [files EXCEPT ![r] = @ \union {<<p, v>>}] ELSE files
    BY <1>3 DEF Harvest, Typed, Builds
  <2>2. v \in 0 .. MaxInstalled
    BY DEF Typed, Manifests
  <2> HIDE DEF v, r
  <2>3. indexed => <<p, v>> \in PackageFiles
    BY <2>2, IndexAssumption DEF PackageFiles
  <2>4. found \in SUBSET PackageFiles
    BY <2>3
  <2>5. files' \in [Roots -> SUBSET PackageFiles]
    BY <2>1, <2>3 DEF Typed
  <2> HIDE DEF found
  <2>6. [build[q] EXCEPT !.todo = @ \ {p}, !.newly = @ \union found] \in Builds
    BY <2>1, <2>4 DEF Builds, BuildRecords
  <2> QED
    BY <1>3, <2>1, <2>5, <2>6, PutBuild DEF Harvest, Typed, server, ghosts
<1>4. ASSUME NEW q \in Procs, NEW p \in Packages, HarvestFails(q, p) PROVE Typed'
  <2>1. [build[q] EXCEPT !.todo = @ \ {p}] \in Builds
    BY DEF Typed, Builds, BuildRecords
  <2>2. build' = [build EXCEPT ![q] = [build[q] EXCEPT !.todo = @ \ {p}]]
    BY <1>4 DEF HarvestFails
  <2> QED
    BY <1>4, <2>1, <2>2, PutBuild DEF HarvestFails, Typed, disk, server, ghosts
<1>5. ASSUME NEW q \in Procs, ReadMeta(q) PROVE Typed'
  <2> DEFINE r == build[q].root
             b == [build[q] EXCEPT !.phase = "record", !.base = meta[r]]
  <2>1. build[q] \in Builds /\ build[q].phase = "harvest" /\ r \in Roots /\ meta[r] \in Manifests
    BY <1>5 DEF ReadMeta, Typed, Builds
  <2>2. b \in Builds
    BY <2>1 DEF Builds, BuildRecords
  <2>3. build' = [build EXCEPT ![q] = Idle] \/ build' = [build EXCEPT ![q] = b]
    BY <1>5 DEF ReadMeta
  <2>4. overlap' \in BOOLEAN
    BY <1>5 DEF ReadMeta, Typed
  <2> HIDE DEF b
  <2>5. build' \in [Procs -> Builds]
    BY <2>2, <2>3, IdleIsABuild, PutBuild
  <2> QED
    BY <1>5, <2>4, <2>5 DEF ReadMeta, Typed, disk, server
<1>6. ASSUME NEW q \in Procs, WriteMeta(q) PROVE Typed'
  <2> DEFINE r == build[q].root
             new == Extended(build[q].base, build[q].newly)
             b == [build[q] EXCEPT !.phase = IF q = Server THEN "hand over" ELSE "idle",
                                   !.root = IF q = Server THEN @ ELSE None,
                                   !.newly = {}, !.base = <<>>]
  <2>1. /\ build[q] \in Builds
        /\ r \in Roots /\ build[q].base \in Manifests /\ build[q].newly \in SUBSET PackageFiles
    BY <1>6 DEF WriteMeta, Typed, Builds, BuildRecords
  <2>2. new \in Manifests /\ {x[1] : x \in build[q].newly} \subseteq Packages
    <3>1. new \in Manifests /\ \A x \in build[q].newly : x[1] \in Packages
      BY <2>1, ExtendedManifest
    <3> QED BY <3>1
  <2>3. /\ meta' = [meta EXCEPT ![r] = new] /\ stamp' = [stamp EXCEPT ![r] = @ + 1]
        /\ recorded' = [recorded EXCEPT ![r] = @ \union {x[1] : x \in build[q].newly}]
        /\ build' = [build EXCEPT ![q] = b]
    BY <1>6 DEF WriteMeta
  <2>4. b \in Builds
    BY <2>1 DEF Builds, BuildRecords
  <2> HIDE DEF new, b, r
  <2>5. meta' \in [Roots -> Manifests] /\ stamp' \in [Roots -> Nat]
    BY <2>1, <2>2, <2>3 DEF Typed
  <2>6. recorded' \in [Roots -> SUBSET Packages]
    BY <2>1, <2>2, <2>3 DEF Typed
  <2>7. build' \in [Procs -> Builds]
    BY <2>3, <2>4, PutBuild
  <2> QED
    BY <1>6, <2>5, <2>6, <2>7 DEF WriteMeta, Typed, server
<1>7. ASSUME NEW q \in Procs, Crash(q) PROVE Typed'
  BY <1>7, IdleIsABuild, PutBuild DEF Crash, Typed, disk, server, ghosts
<1>8. ASSUME HandOver PROVE Typed'
  BY <1>8, <1>a, IdleIsABuild, PutBuild DEF HandOver, Typed, disk, ghosts
<1>9. ASSUME NEW r \in Roots, LintStat(r) PROVE Typed'
  BY <1>9 DEF LintStat, Typed, disk, ghosts, Identity, Identities
<1>10. ASSUME NEW r \in Roots, Wipe(r) PROVE Typed'
  <2>1. NoMeta \in Manifests
    BY IndexAssumption DEF NoMeta, Manifests
  <2>2. /\ files' \in [Roots -> SUBSET PackageFiles] /\ meta' \in [Roots -> Manifests]
        /\ stamp' \in [Roots -> Nat] /\ recorded' \in [Roots -> SUBSET Packages]
    BY <1>10, <2>1 DEF Wipe, Typed
  <2> QED
    BY <1>10, <2>2 DEF Wipe, Typed, server
<1>11. ASSUME NEW want \in SUBSET Packages, LintLoad(want) PROVE Typed'
  <2>1. lint \in Identities /\ lint.root \in Roots
    BY <1>11 DEF LintLoad, Typed, Identities
  <2>2. jobs' \in Seq(HarvestJobs)
    BY <1>11, <2>1, PlanTyped DEF LintLoad
  <2> QED
    BY <1>11, <2>1, <2>2 DEF LintLoad, Typed, disk
<1>12. ASSUME NEW want \in SUBSET Packages, NEW r \in Roots, LintWarm(r, want) PROVE Typed'
  <2>1. jobs' \in Seq(HarvestJobs)
    BY <1>12, PlanTyped DEF LintWarm
  <2> QED
    BY <1>12, <2>1 DEF LintWarm, Typed, disk, ghosts
<1>13. ASSUME InstallBuilt PROVE Typed'
  BY <1>13 DEF InstallBuilt, Typed, disk
<1>14. ASSUME NEW p \in Packages, NEW v \in 0 .. MaxInstalled, Library(p, v) PROVE Typed'
  BY <1>14 DEF Library, Typed, server, ghosts, Manifests
<1>15. ASSUME Restart PROVE Typed'
  BY <1>15, <1>a, IdleIsABuild, PutBuild DEF Restart, Typed, disk
<1>16. CASE UNCHANGED vars
  BY <1>16 DEF vars, Typed, disk, server, ghosts
<1> QED
  BY <1>1, <1>2, <1>3, <1>4, <1>5, <1>6, <1>7, <1>8, <1>9, <1>10, <1>11, <1>12, <1>13, <1>14,
     <1>15, <1>16 DEF Next, BuildStep

------------------------------------------------------------------------------
(* Every manifest in memory or on disk names files that are there.         *)

Backed(f, r, m) == \A p \in Packages : m[p] # 0 => <<p, m[p]>> \in f[r]

BuildBacked(f, b) ==
  /\ b.phase \in {"harvest", "record"} => b.newly \subseteq f[b.root]
  /\ b.phase = "record" => Backed(f, b.root, b.base)

FilesKnown ==
  wiped \/ /\ \A r \in Roots : Backed(files, r, meta[r])
           /\ \A q \in Procs : BuildBacked(files, build[q])

\* One build moves on, and no file goes away.
LEMMA MoveBuild ==
  ASSUME Typed, FilesKnown, ~wiped, NEW q \in Procs, NEW b, BuildBacked(files', b),
         build' = [build EXCEPT ![q] = b], meta' = meta,
         \A r \in Roots : files[r] \subseteq files'[r]
  PROVE  FilesKnown'
<1>1. ASSUME NEW r \in Roots, NEW m, Backed(files, r, m) PROVE Backed(files', r, m)
  BY <1>1 DEF Backed
<1>2. \A r \in Roots : Backed(files', r, meta'[r])
  BY <1>1 DEF FilesKnown
<1>3. ASSUME NEW o \in Procs PROVE BuildBacked(files', build'[o])
  <2>1. CASE o = q
    BY <2>1 DEF Typed
  <2>2. CASE o # q
    <3>1. build'[o] = build[o] /\ build[o] \in Builds /\ BuildBacked(files, build[o])
      BY <2>2 DEF Typed, FilesKnown
    <3>2. build[o].phase # "idle" => build[o].root \in Roots
      BY <3>1 DEF Builds
    <3>3. BuildBacked(files', build'[o])
      BY <3>1, <3>2, <1>1 DEF BuildBacked
    <3> QED BY <3>3
  <2> QED BY <2>1, <2>2
<1> QED
  BY <1>2, <1>3 DEF FilesKnown

LEMMA QuietFiles ==
  ASSUME FilesKnown, ~wiped, files' = files, meta' = meta, build' = build
  PROVE  FilesKnown'
BY DEF FilesKnown

LEMMA IdleIsBacked == BuildBacked(files', Idle)
BY DEF BuildBacked, Idle

LEMMA InitFiles == Init => FilesKnown
BY DEF Init, FilesKnown, Backed, BuildBacked, Idle, NoMeta

LEMMA StepFiles == Typed /\ FilesKnown /\ [Next]_vars => FilesKnown'
<1> SUFFICES ASSUME Typed, FilesKnown, [Next]_vars, ~wiped' PROVE FilesKnown'
  BY DEF FilesKnown
<1>b. ~wiped
  BY DEF Typed, Next, vars, disk, server, ghosts, BuildStep, StartCli, StartServer, Harvest,
         HarvestFails, ReadMeta, WriteMeta, Crash, HandOver, LintStat, Wipe, LintLoad, LintWarm,
         InstallBuilt, Library, Restart
<1>a. Server \in Procs /\ Clis \subseteq Procs
  BY DEF Procs
<1>1. ASSUME NEW q \in Clis, NEW r \in Roots, NEW ps \in SUBSET Packages, StartCli(q, r, ps)
      PROVE  FilesKnown'
  <2>1. BuildBacked(files', Started(r, ps))
    BY DEF BuildBacked, Started, Idle
  <2> QED
    BY <1>1, <1>a, <2>1, <1>b, MoveBuild DEF StartCli, disk
<1>2. ASSUME StartServer PROVE FilesKnown'
  <2> DEFINE b == Started(Head(jobs).root, Head(jobs).todo)
  <2>1. b.phase = "harvest" /\ b.newly = {}
    BY DEF Started, Idle
  <2>2. build' = [build EXCEPT ![Server] = b] /\ meta' = meta /\ files' = files
    BY <1>2 DEF StartServer, disk
  <2> HIDE DEF b
  <2>3. BuildBacked(files', b)
    BY <2>1 DEF BuildBacked
  <2> QED
    BY <1>a, <2>2, <2>3, <1>b, MoveBuild
<1>3. ASSUME NEW q \in Procs, NEW p \in Packages, Harvest(q, p) PROVE FilesKnown'
  <2> DEFINE r == build[q].root
             v == library[p]
             indexed == v # 0 /\ meta[r][p] # v
             found == IF indexed THEN {<<p, v>>} ELSE {}
             b == [build[q] EXCEPT !.todo = @ \ {p}, !.newly = @ \union found]
  <2>1. /\ build[q] \in Builds /\ build[q].phase = "harvest" /\ r \in Roots
        /\ build' = [build EXCEPT ![q] = b]
        /\ files' = IF indexed THEN [files EXCEPT ![r] = @ \union {<<p, v>>}] ELSE files
        /\ meta' = meta
    BY <1>3 DEF Harvest, Typed, Builds
  <2>2. build[q].newly \subseteq files[r]
    BY <1>b, <2>1 DEF FilesKnown, BuildBacked
  <2>3. b.phase = "harvest" /\ b.root = r /\ b.newly = build[q].newly \union found
    BY <2>1 DEF Builds, BuildRecords
  <2> HIDE DEF b, r, indexed, v
  <2>4. files'[r] = files[r] \union found
    BY <2>1 DEF Typed
  <2>5. \A s \in Roots : files[s] \subseteq files'[s]
    BY <2>1 DEF Typed
  <2> HIDE DEF found
  <2>6. b.newly \subseteq files'[b.root] /\ b.phase # "record"
    BY <2>2, <2>3, <2>4
  <2>7. BuildBacked(files', b)
    BY <2>6 DEF BuildBacked
  <2> QED
    BY <2>1, <2>5, <2>7, <1>b, MoveBuild
<1>4. ASSUME NEW q \in Procs, NEW p \in Packages, HarvestFails(q, p) PROVE FilesKnown'
  <2> DEFINE b == [build[q] EXCEPT !.todo = @ \ {p}]
  <2>1. /\ build[q] \in Builds /\ build[q].phase = "harvest" /\ build' = [build EXCEPT ![q] = b]
        /\ files' = files /\ meta' = meta
    BY <1>4 DEF HarvestFails, Typed, disk
  <2>2. b.phase = "harvest" /\ b.root = build[q].root /\ b.newly = build[q].newly
    BY <2>1 DEF Builds, BuildRecords
  <2>3. BuildBacked(files, build[q])
    BY <1>b DEF FilesKnown
  <2>4. BuildBacked(files', b)
    BY <2>1, <2>2, <2>3 DEF BuildBacked
  <2> QED
    BY <2>1, <2>4, <1>b, MoveBuild
<1>5. ASSUME NEW q \in Procs, ReadMeta(q) PROVE FilesKnown'
  <2> DEFINE r == build[q].root
             b == [build[q] EXCEPT !.phase = "record", !.base = meta[r]]
  <2>1. /\ build[q] \in Builds /\ build[q].phase = "harvest" /\ r \in Roots
        /\ files' = files /\ meta' = meta
        /\ build' = [build EXCEPT ![q] = Idle] \/ build' = [build EXCEPT ![q] = b]
    BY <1>5 DEF ReadMeta, Typed, Builds, disk
  <2>2. b.phase = "record" /\ b.root = r /\ b.newly = build[q].newly /\ b.base = meta[r]
    BY <2>1 DEF Builds, BuildRecords
  <2>3. BuildBacked(files, build[q]) /\ Backed(files, r, meta[r])
    BY <1>b, <2>1 DEF FilesKnown
  <2> HIDE DEF b, r
  <2>4. b.newly \subseteq files'[b.root] /\ Backed(files', b.root, b.base)
    <3>1. build[q].newly \subseteq files[r]
      BY <2>1, <2>3 DEF BuildBacked, r
    <3> QED BY <3>1, <2>1, <2>2, <2>3
  <2>5. BuildBacked(files', b)
    BY <2>4 DEF BuildBacked
  <2> QED
    BY <2>1, <2>5, IdleIsBacked, <1>b, MoveBuild
<1>6. ASSUME NEW q \in Procs, WriteMeta(q) PROVE FilesKnown'
  <2> DEFINE r == build[q].root
             new == Extended(build[q].base, build[q].newly)
             b == [build[q] EXCEPT !.phase = IF q = Server THEN "hand over" ELSE "idle",
                                   !.root = IF q = Server THEN @ ELSE None,
                                   !.newly = {}, !.base = <<>>]
  <2>1. /\ build[q] \in Builds /\ build[q].phase = "record"
        /\ r \in Roots /\ build[q].base \in Manifests /\ build[q].newly \in SUBSET PackageFiles
        /\ meta' = [meta EXCEPT ![r] = new] /\ files' = files
        /\ build' = [build EXCEPT ![q] = b]
    BY <1>6 DEF WriteMeta, Typed, Builds, BuildRecords
  <2>2. Backed(files, r, build[q].base) /\ build[q].newly \subseteq files[r]
    BY <1>b, <2>1 DEF FilesKnown, BuildBacked
  <2>3. b.phase \notin {"harvest", "record"}
    BY <2>1 DEF Builds, BuildRecords
  <2>4. \A p \in Packages : <<p, new[p]>> \in build[q].newly \/ new[p] = build[q].base[p]
    BY <2>1, ExtendedManifest
  <2> HIDE DEF new, b, r
  <2>5. Backed(files, r, new)
    BY <2>2, <2>4 DEF Backed
  <2>6. \A s \in Roots : Backed(files, s, meta'[s])
    BY <1>b, <2>1, <2>5 DEF FilesKnown, Typed
  <2>7. \A s \in Roots : Backed(files', s, meta'[s])
    BY <2>1, <2>6 DEF Backed
  <2>8. \A o \in Procs : BuildBacked(files, build'[o])
    BY <1>b, <2>1, <2>3 DEF FilesKnown, Typed, BuildBacked
  <2>9. \A o \in Procs : BuildBacked(files', build'[o])
    BY <2>1, <2>8 DEF BuildBacked, Backed
  <2> QED
    BY <2>7, <2>9 DEF FilesKnown
<1>7. ASSUME NEW q \in Procs, Crash(q) PROVE FilesKnown'
  BY <1>7, IdleIsBacked, <1>b, MoveBuild DEF Crash, disk
<1>8. ASSUME HandOver PROVE FilesKnown'
  BY <1>8, <1>a, IdleIsBacked, <1>b, MoveBuild DEF HandOver, disk
<1>9. ASSUME NEW r \in Roots, LintStat(r) PROVE FilesKnown'
  BY <1>9, <1>b, QuietFiles DEF LintStat, disk
<1>10. ASSUME NEW r \in Roots, Wipe(r) PROVE FilesKnown'
  BY <1>10 DEF Wipe
<1>11. ASSUME NEW want \in SUBSET Packages, LintLoad(want) PROVE FilesKnown'
  BY <1>11, <1>b, QuietFiles DEF LintLoad, disk
<1>12. ASSUME NEW want \in SUBSET Packages, NEW r \in Roots, LintWarm(r, want) PROVE FilesKnown'
  BY <1>12, <1>b, QuietFiles DEF LintWarm, disk
<1>13. ASSUME InstallBuilt PROVE FilesKnown'
  BY <1>13, <1>b, QuietFiles DEF InstallBuilt, disk
<1>14. ASSUME NEW p \in Packages, NEW v \in 0 .. MaxInstalled, Library(p, v) PROVE FilesKnown'
  BY <1>14, <1>b, QuietFiles DEF Library
<1>15. ASSUME Restart PROVE FilesKnown'
  BY <1>15, <1>a, IdleIsBacked, <1>b, MoveBuild DEF Restart, disk
<1>16. CASE UNCHANGED vars
  BY <1>16, <1>b, QuietFiles DEF vars, disk
<1> QED
  BY <1>1, <1>2, <1>3, <1>4, <1>5, <1>6, <1>7, <1>8, <1>9, <1>10, <1>11, <1>12, <1>13, <1>14,
     <1>15, <1>16 DEF Next, BuildStep

\* meta.json names no file that is not there, wherever a build was cut off
\* (record_indexed, write_package_file).
THEOREM IndexIsReadable == Spec => []EntriesHaveTheirFiles
<1>1. FilesKnown => EntriesHaveTheirFiles
  BY DEF FilesKnown, EntriesHaveTheirFiles, Backed
<1> QED
  BY <1>1, InitTyped, InitFiles, StepTyped, StepFiles, PTL DEF Spec

------------------------------------------------------------------------------
(* While builds record one after the other, what each read is still there. *)

Records(b, r) == b.phase = "record" /\ b.root = r

RecordedKnown ==
  overlap \/ wiped \/
    /\ \A r \in Roots : \A p \in recorded[r] : meta[r][p] # 0
    /\ \A q \in Procs, r \in Roots : Records(build[q], r) => build[q].base = meta[r]
    /\ \A q \in Procs, o \in Procs, r \in Roots :
         Records(build[q], r) /\ Records(build[o], r) => q = o

\* A build moves on to one that does not record, and the disk stays as it is.
LEMMA LeaveRecords ==
  ASSUME Typed, RecordedKnown, ~overlap, ~wiped, NEW q \in Procs, NEW b, b.phase # "record",
         build' = [build EXCEPT ![q] = b], meta' = meta, recorded' = recorded
  PROVE  RecordedKnown'
<1>1. ASSUME NEW o \in Procs, build'[o].phase = "record" PROVE o # q /\ build'[o] = build[o]
  BY <1>1 DEF Typed
<1> QED
  BY <1>1 DEF RecordedKnown, Records

LEMMA QuietRecords ==
  ASSUME RecordedKnown, ~overlap, ~wiped, build' = build, meta' = meta, recorded' = recorded
  PROVE  RecordedKnown'
BY DEF RecordedKnown

LEMMA InitRecorded == Init => RecordedKnown
BY DEF Init, RecordedKnown, Records, Idle

LEMMA StepRecorded == Typed /\ RecordedKnown /\ [Next]_vars => RecordedKnown'
<1> SUFFICES ASSUME Typed, RecordedKnown, [Next]_vars, ~overlap', ~wiped' PROVE RecordedKnown'
  BY DEF RecordedKnown
<1>b. ~wiped /\ ~overlap
  BY DEF Typed, Next, vars, disk, server, ghosts, BuildStep, StartCli, StartServer, Harvest,
         HarvestFails, ReadMeta, WriteMeta, Crash, HandOver, LintStat, Wipe, LintLoad, LintWarm,
         InstallBuilt, Library, Restart
<1>a. Server \in Procs /\ Clis \subseteq Procs /\ Idle.phase # "record"
  BY DEF Procs, Idle
<1>1. ASSUME NEW q \in Clis, NEW r \in Roots, NEW ps \in SUBSET Packages, StartCli(q, r, ps)
      PROVE  RecordedKnown'
  <2>1. Started(r, ps).phase # "record"
    BY DEF Started, Idle
  <2> QED
    BY <1>1, <1>a, <1>b, <2>1, LeaveRecords DEF StartCli, disk, ghosts
<1>2. ASSUME StartServer PROVE RecordedKnown'
  <2>1. Started(Head(jobs).root, Head(jobs).todo).phase # "record"
    BY DEF Started, Idle
  <2> QED
    BY <1>2, <1>a, <1>b, <2>1, LeaveRecords DEF StartServer, disk, ghosts
<1>3. ASSUME NEW q \in Procs, NEW p \in Packages, Harvest(q, p) PROVE RecordedKnown'
  <2> DEFINE found == IF library[p] # 0 /\ meta[build[q].root][p] # library[p]
                      THEN {<<p, library[p]>>} ELSE {}
             b == [build[q] EXCEPT !.todo = @ \ {p}, !.newly = @ \union found]
  <2>1. /\ build[q] \in Builds /\ build[q].phase = "harvest"
        /\ build' = [build EXCEPT ![q] = b] /\ meta' = meta /\ recorded' = recorded
    BY <1>3 DEF Harvest, Typed, ghosts
  <2>2. b.phase # "record"
    BY <2>1 DEF Builds, BuildRecords
  <2> QED
    BY <1>b, <2>1, <2>2, LeaveRecords
<1>4. ASSUME NEW q \in Procs, NEW p \in Packages, HarvestFails(q, p) PROVE RecordedKnown'
  <2> DEFINE b == [build[q] EXCEPT !.todo = @ \ {p}]
  <2>1. /\ build[q] \in Builds /\ build[q].phase = "harvest"
        /\ build' = [build EXCEPT ![q] = b] /\ meta' = meta /\ recorded' = recorded
    BY <1>4 DEF HarvestFails, Typed, disk, ghosts
  <2>2. b.phase # "record"
    BY <2>1 DEF Builds, BuildRecords
  <2> QED
    BY <1>b, <2>1, <2>2, LeaveRecords
<1>5. ASSUME NEW q \in Procs, ReadMeta(q) PROVE RecordedKnown'
  <2> DEFINE r == build[q].root
             b == [build[q] EXCEPT !.phase = "record", !.base = meta[r]]
             others == {o \in Procs \ {q} : Records(build[o], r)}
  <2>1. build[q] \in Builds /\ meta' = meta /\ recorded' = recorded
    BY <1>5 DEF ReadMeta, Typed, disk
  <2>2. CASE build' = [build EXCEPT ![q] = Idle]
    BY <1>a, <1>b, <2>1, <2>2, LeaveRecords
  <2>3. CASE build' = [build EXCEPT ![q] = b] /\ others = {}
    <3>1. b.base = meta[r] /\ b.root = r
      BY <2>1 DEF Builds, BuildRecords
    <3>2. build'[q] = b /\ \A o \in Procs \ {q} : build'[o] = build[o]
      BY <2>3 DEF Typed
    <3>3. \A o \in Procs \ {q} : ~Records(build[o], r)
      BY <2>3
    <3> HIDE DEF b, r, others
    <3>4. \A o \in Procs, s \in Roots : Records(build'[o], s) => build'[o].base = meta[s]
      BY <1>b, <3>1, <3>2 DEF RecordedKnown, Records
    <3>5. \A x \in Procs, o \in Procs, s \in Roots :
            Records(build'[x], s) /\ Records(build'[o], s) => x = o
      BY <1>b, <3>1, <3>2, <3>3 DEF RecordedKnown, Records
    <3> QED BY <1>b, <2>1, <3>4, <3>5 DEF RecordedKnown, Records
  <2>4. \/ build' = [build EXCEPT ![q] = Idle]
        \/ build' = [build EXCEPT ![q] = b] /\ others = {}
    BY <1>5 DEF ReadMeta, Records
  <2> QED BY <2>2, <2>3, <2>4
<1>6. ASSUME NEW q \in Procs, WriteMeta(q) PROVE RecordedKnown'
  <2> DEFINE r == build[q].root
             named == {x[1] : x \in build[q].newly}
             new == Extended(build[q].base, build[q].newly)
             b == [build[q] EXCEPT !.phase = IF q = Server THEN "hand over" ELSE "idle",
                                   !.root = IF q = Server THEN @ ELSE None,
                                   !.newly = {}, !.base = <<>>]
  <2>1. /\ build[q] \in Builds /\ Records(build[q], r)
        /\ r \in Roots /\ build[q].base \in Manifests /\ build[q].newly \in SUBSET PackageFiles
        /\ meta' = [meta EXCEPT ![r] = new]
        /\ recorded' = [recorded EXCEPT ![r] = @ \union named]
        /\ build' = [build EXCEPT ![q] = b]
    BY <1>6 DEF WriteMeta, Typed, Builds, BuildRecords, Records
  <2>2. b.phase # "record"
    BY <2>1 DEF Builds, BuildRecords
  <2>3. build[q].base = meta[r]
    BY <1>b, <2>1 DEF RecordedKnown
  <2>4. /\ \A p \in Packages : meta[r][p] # 0 => new[p] # 0
        /\ \A x \in build[q].newly : new[x[1]] # 0
    BY <2>1, <2>3, ExtendedManifest
  <2>5. \A p \in named : new[p] # 0
    BY <2>4
  <2> HIDE DEF new, b, r, named
  <2>6. /\ \A s \in Roots : s # r => meta'[s] = meta[s] /\ recorded'[s] = recorded[s]
        /\ meta'[r] = new /\ recorded'[r] = recorded[r] \union named
        /\ recorded[r] \subseteq Packages
    BY <2>1 DEF Typed
  <2>7. \A s \in Roots : \A p \in recorded'[s] : meta'[s][p] # 0
    BY <1>b, <2>1, <2>4, <2>5, <2>6 DEF RecordedKnown
  <2>8. \A o \in Procs : build'[o].phase = "record" => o # q /\ build'[o] = build[o]
    BY <2>1, <2>2 DEF Typed
  <2>9. \A o \in Procs, s \in Roots :
          Records(build'[o], s) => s # r /\ Records(build[o], s) /\ build'[o] = build[o]
    BY <1>b, <2>1, <2>8 DEF RecordedKnown, Records
  <2>10. \A o \in Procs, s \in Roots : Records(build'[o], s) => build'[o].base = meta'[s]
    BY <1>b, <2>6, <2>9 DEF RecordedKnown
  <2>11. \A x \in Procs, o \in Procs, s \in Roots :
           Records(build'[x], s) /\ Records(build'[o], s) => x = o
    BY <1>b, <2>9 DEF RecordedKnown
  <2> QED BY <2>7, <2>10, <2>11 DEF RecordedKnown, Records
<1>7. ASSUME NEW q \in Procs, Crash(q) PROVE RecordedKnown'
  BY <1>7, <1>a, <1>b, LeaveRecords DEF Crash, disk, ghosts
<1>8. ASSUME HandOver PROVE RecordedKnown'
  BY <1>8, <1>a, <1>b, LeaveRecords DEF HandOver, disk, ghosts
<1>9. ASSUME NEW r \in Roots, LintStat(r) PROVE RecordedKnown'
  BY <1>9, <1>b, QuietRecords DEF LintStat, disk, ghosts
<1>10. ASSUME NEW r \in Roots, Wipe(r) PROVE RecordedKnown'
  BY <1>10 DEF Wipe
<1>11. ASSUME NEW want \in SUBSET Packages, LintLoad(want) PROVE RecordedKnown'
  BY <1>11, <1>b, QuietRecords DEF LintLoad, disk
<1>12. ASSUME NEW want \in SUBSET Packages, NEW r \in Roots, LintWarm(r, want) PROVE RecordedKnown'
  BY <1>12, <1>b, QuietRecords DEF LintWarm, disk, ghosts
<1>13. ASSUME InstallBuilt PROVE RecordedKnown'
  BY <1>13, <1>b, QuietRecords DEF InstallBuilt, disk
<1>14. ASSUME NEW p \in Packages, NEW v \in 0 .. MaxInstalled, Library(p, v) PROVE RecordedKnown'
  BY <1>14, <1>b, QuietRecords DEF Library, ghosts
<1>15. ASSUME Restart PROVE RecordedKnown'
  BY <1>15, <1>a, <1>b, LeaveRecords DEF Restart, disk
<1>16. CASE UNCHANGED vars
  BY <1>16, <1>b, QuietRecords DEF vars, disk, ghosts
<1> QED
  BY <1>1, <1>2, <1>3, <1>4, <1>5, <1>6, <1>7, <1>8, <1>9, <1>10, <1>11, <1>12, <1>13, <1>14,
     <1>15, <1>16 DEF Next, BuildStep

\* Builds that extend meta.json one at a time lose no package, however many run,
\* die or start again in between (record_indexed).
THEOREM RecordedIsKept == Spec => []RecordedStaysRecorded
<1>1. RecordedKnown => RecordedStaysRecorded
  BY DEF RecordedKnown, RecordedStaysRecorded
<1> QED
  BY <1>1, InitTyped, InitRecorded, StepTyped, StepRecorded, PTL DEF Spec

------------------------------------------------------------------------------
(* What the server believes of its provider.                               *)

StampsKnown ==
  /\ install # None =>
       /\ install.stamp <= stamp[install.root]
       /\ install.stamp = stamp[install.root] => provider = meta[install.root] \/ late
  /\ lint # None => lint.stamp <= stamp[lint.root]

\* A rewritten meta.json has a stamp of its own.
LEMMA Rewrite ==
  ASSUME Typed, StampsKnown, NEW r \in Roots, NEW m,
         meta' = [meta EXCEPT ![r] = m], stamp' = [stamp EXCEPT ![r] = @ + 1],
         UNCHANGED <<install, lint, provider, late>>
  PROVE  StampsKnown'
<1>1. ASSUME NEW i \in Identities, i.stamp <= stamp[i.root]
      PROVE  /\ i.stamp <= stamp'[i.root]
             /\ i.stamp = stamp'[i.root] => i.stamp = stamp[i.root] /\ meta'[i.root] = meta[i.root]
  <2>1. i.root \in Roots /\ i.stamp \in Nat /\ stamp[i.root] \in Nat
    BY DEF Identities, Typed
  <2>2. CASE i.root = r
    <3>1. stamp'[i.root] = stamp[i.root] + 1
      BY <2>1, <2>2 DEF Typed
    <3> QED BY <1>1, <2>1, <3>1
  <2>3. CASE i.root # r
    <3>1. stamp'[i.root] = stamp[i.root] /\ meta'[i.root] = meta[i.root]
      BY <2>1, <2>3 DEF Typed
    <3> QED BY <1>1, <2>1, <3>1
  <2> QED BY <2>2, <2>3
<1>2. (install # None => install \in Identities) /\ (lint # None => lint \in Identities)
  BY DEF Typed
<1> QED
  BY <1>1, <1>2 DEF StampsKnown

LEMMA InitStamps == Init => StampsKnown
BY DEF Init, StampsKnown

LEMMA StepStamps == Typed /\ StampsKnown /\ [Next]_vars => StampsKnown'
<1> SUFFICES ASSUME Typed, StampsKnown, [Next]_vars PROVE StampsKnown'
  OBVIOUS
<1>1. ASSUME UNCHANGED <<meta, stamp, install, lint, provider, late>> PROVE StampsKnown'
  BY <1>1 DEF StampsKnown
<1>2. ASSUME NEW q \in Procs, WriteMeta(q) PROVE StampsKnown'
  <2>1. build[q].root \in Roots
    BY <1>2 DEF WriteMeta, Typed, Builds
  <2> QED BY <1>2, <2>1, Rewrite DEF WriteMeta, server
<1>3. ASSUME NEW r \in Roots, Wipe(r) PROVE StampsKnown'
  BY <1>3, Rewrite DEF Wipe, server
<1>4. ASSUME NEW r \in Roots, LintStat(r) PROVE StampsKnown'
  <2>1. Identity(r).root = r /\ Identity(r).stamp = stamp[r] /\ stamp[r] \in Nat
    BY DEF Identity, Typed
  <2> QED BY <1>4, <2>1 DEF LintStat, StampsKnown, disk, ghosts
<1>5. ASSUME NEW want \in SUBSET Packages, LintLoad(want) PROVE StampsKnown'
  BY <1>5 DEF LintLoad, StampsKnown, disk
<1>6. CASE InstallBuilt
  BY <1>6 DEF InstallBuilt, StampsKnown, disk
<1>7. CASE Restart
  BY <1>7 DEF Restart, StampsKnown
<1>8. ASSUME NEW q \in Clis, NEW r \in Roots, NEW ps \in SUBSET Packages, StartCli(q, r, ps)
      PROVE  StampsKnown'
  BY <1>8, <1>1 DEF StartCli, disk, server, ghosts
<1>9. ASSUME NEW q \in Procs, NEW p \in Packages, Harvest(q, p) \/ HarvestFails(q, p)
      PROVE  StampsKnown'
  BY <1>9, <1>1 DEF Harvest, HarvestFails, disk, server, ghosts
<1>10. ASSUME NEW q \in Procs, ReadMeta(q) \/ Crash(q) PROVE StampsKnown'
  BY <1>10, <1>1 DEF ReadMeta, Crash, disk, server, ghosts
<1>11. CASE StartServer \/ HandOver
  BY <1>11, <1>1 DEF StartServer, HandOver, disk, server, ghosts
<1>12. ASSUME NEW want \in SUBSET Packages, NEW r \in Roots, LintWarm(r, want) PROVE StampsKnown'
  BY <1>12, <1>1 DEF LintWarm, disk, ghosts
<1>13. ASSUME NEW p \in Packages, NEW v \in 0 .. MaxInstalled, Library(p, v) PROVE StampsKnown'
  BY <1>13, <1>1 DEF Library, server, ghosts
<1>14. CASE UNCHANGED vars
  BY <1>14, <1>1 DEF vars, disk, server, ghosts
<1> QED
  BY <1>2, <1>3, <1>4, <1>5, <1>6, <1>7, <1>8, <1>9, <1>10, <1>11, <1>12, <1>13, <1>14
     DEF Next, BuildStep

\* As long as no build's provider is installed late, the provider is the one its
\* identity names, with any number of roots (ensure_index, install_provider).
THEOREM IdentityHolds == Spec => []IdentityIsTrue
<1>1. StampsKnown => IdentityIsTrue
  <2> SUFFICES ASSUME StampsKnown, install # None, install = Identity(install.root)
               PROVE  provider = meta[install.root] \/ late
    BY DEF IdentityIsTrue
  <2>1. install.stamp = stamp[install.root]
    BY DEF Identity
  <2> QED BY <2>1 DEF StampsKnown
<1> QED
  BY <1>1, InitTyped, InitStamps, StepTyped, StepStamps, PTL DEF Spec
==============================================================================
