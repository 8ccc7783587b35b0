---------------------------- MODULE LintPipeline ----------------------------
(***************************************************************************)
(* The diagnostics pipeline of the arity language server.                  *)
(*                                                                         *)
(*   client --didOpen/didChange/...--> main loop --LintMsg--> lint thread  *)
(*   lint thread --snapshot--> read pool --Outbound--> main loop --> client*)
(*                                                                         *)
(* The main loop (GlobalState) owns the buffers and the cached findings.   *)
(* The lint thread (LintWorker) is the only writer of the salsa database:  *)
(* it coalesces requests per URI, runs one analyze at a time on the read   *)
(* pool against a snapshot, and every database write cancels the snapshots *)
(* that are still live.  The harvest job of the index pool posts a fresh   *)
(* provider back to it.                                                    *)
(*                                                                         *)
(* The documents are the R files of one package and its DESCRIPTION.  A    *)
(* text stands for the bytes of a buffer; the record of a finding keeps    *)
(* what it was computed from (text, configuration, database view) instead  *)
(* of the diagnostics themselves.                                          *)
(***************************************************************************)
EXTENDS Naturals, Sequences, FiniteSets

CONSTANTS
  RDocs,            \* URIs of the package's R documents
  Desc,             \* URI of its DESCRIPTION
  Texts,            \* the bytes a buffer or a file may hold
  InitialText,      \* what every file holds on disk at startup
  Broken,           \* the texts the R parser rejects
  Digest,           \* [Texts -> Nat]: texts whose findings serialize equally
  BadConfigs,       \* the configuration revisions naming an unknown rule
  None,             \* no request, no analyze, no findings, no report
  NoText,           \* the text of a file the database does not track
  PullMode,         \* the client negotiated the pull diagnostic model
  AutoBuild,        \* the index.auto-build setting
  RestartVersions,  \* a reopened document counts its versions from 1 again
  Seeded,           \* the client announced the package's folder at startup
  EventKinds,       \* watcher events that occur: "changed", "created"
  JobIds,           \* names of the analyze jobs whose `done` is outstanding
  MaxVersion,       \* the highest version a client gives a document
  MaxOpens,         \* [Docs -> Nat], how often a document is opened
  MaxEdits,         \* didChange notifications, over all documents
  MaxConfigs,       \* arity.toml edits
  MaxDiskWrites,    \* file writes the watcher reports
  MaxSeeds,         \* workspace folders added
  MaxExternal,      \* `arity index` runs beside the server
  MaxPanics         \* analyze jobs that panic

Docs == RDocs \cup {Desc}

ASSUME DocsAssumption ==
  /\ IsFiniteSet(RDocs) /\ Desc \notin RDocs
  /\ InitialText \in Texts
  /\ Broken \subseteq Texts
  /\ Digest \in [Texts -> Nat]
  /\ NoText \notin Texts /\ None \notin [uri : Docs, version : Nat]
  /\ {PullMode, AutoBuild, RestartVersions, Seeded} \subseteq BOOLEAN
  /\ EventKinds \subseteq {"changed", "created"}

ASSUME BoundsAssumption ==
  /\ MaxOpens \in [Docs -> Nat]
  /\ {MaxVersion, MaxEdits, MaxConfigs, MaxDiskWrites,
      MaxSeeds, MaxExternal, MaxPanics} \subseteq Nat

VARIABLES
  \* main loop: GlobalState
  version,      \* version of each open document, 0 when closed
  lastVersion,  \* the highest version the client ever gave a document
  buffer,       \* text of each document's buffer
  findings,     \* cached findings of the last accepted lint
  parked,       \* previous result ids of the parked pull requests
  \* client
  held,         \* the report the client shows for each document
  toPull,       \* documents the client is about to pull
  \* channels
  lintQ,        \* main loop -> lint thread
  outQ,         \* lint thread and read pool -> main loop
  dones,        \* analyze jobs that dropped their snapshot, `done` undelivered
  built,        \* index pool -> lint thread
  \* lint thread: LintWorker
  pc,           \* "select", "drain" or "dispatch"
  pending,      \* coalesced request of each document
  inflight,     \* the slot: uri and version of the running analyze
  db,           \* the salsa inputs
  installed,    \* meta.json stamp the provider was loaded at, None at first
  attempted,    \* texts whose packages were handed to a harvest
  \* pools
  pool,         \* analyze jobs holding a snapshot
  harvests,     \* harvest jobs queued or running
  \* environment
  disk,         \* bytes of each file
  config,       \* revision of arity.toml
  stamp,        \* stamp of the package cache's meta.json
  budget        \* how much of each bound is left

mainVars   == <<version, lastVersion, buffer, findings, parked>>
clientVars == <<held, toPull>>
lintVars   == <<pc, pending, inflight, db, installed, attempted>>
envVars    == <<disk, config, stamp, budget>>
vars == <<mainVars, clientVars, lintQ, outQ, dones, built, lintVars,
          pool, harvests, envVars>>

-----------------------------------------------------------------------------
(* Records and messages.                                                   *)

IsOpen(d) == version[d] > 0
OpenDocs == {d \in Docs : IsOpen(d)}

\* send_lint: the document's buffer and version, under configuration `revision`.
Request(d, atVersion, text, revision) ==
  [type |-> "request", uri |-> d, version |-> atVersion, text |-> text,
   config |-> revision]

\* What a lint of request r computes when it reads the database as `view`.
Finding(r, view) == [version |-> r.version, text |-> r.text,
                     config |-> r.config, view |-> view]

Diagnostics(r, view) == [type |-> "diagnostics", uri |-> r.uri,
                         found |-> Finding(r, view)]
RelintAll == [type |-> "relintAll"]

\* content_result_id: findings that serialize equally share their id.  They
\* depend on the document's own text only as far as Digest tells.
ResultId(d, f) == <<Digest[f.text], f.config, [f.view EXCEPT !.text[d] = NoText]>>
PreviousId(d) == IF held[d] = None THEN None ELSE ResultId(d, held[d])

OneIf(condition, message) == IF condition THEN <<message>> ELSE <<>>

-----------------------------------------------------------------------------
(* The salsa inputs, as functions from database to database.  Each setter  *)
(* skips the write when nothing changes.                                   *)

\* upsert_file for R files S with their bytes on disk; the roxygen markdown
\* default is resolved from disk when the first file is tracked.
UpsertFromDisk(S, base) ==
  [base EXCEPT !.text = [d \in Docs |-> IF d \in S THEN disk[d] ELSE @[d]],
               !.markdown = IF @ = NoText /\ S # {} THEN disk[Desc] ELSE @]

UpsertBuffer(d, t, base) ==
  [base EXCEPT !.text[d] = t,
               !.markdown = IF @ = NoText THEN disk[Desc] ELSE @]

\* set_workspace_members, and the refresh_package_graph it cascades into,
\* which re-reads the DESCRIPTION of every package root from disk.
SetMembers(members, roots, base) ==
  IF members = base.members /\ roots = base.roots
  THEN base
  ELSE [base EXCEPT !.members = members, !.roots = roots,
                    !.text[Desc] = IF members = {} THEN @ ELSE disk[Desc]]

\* refresh_roxygen_markdown: from disk, for the files tracked by now.
RefreshMarkdown(base) ==
  [base EXCEPT !.markdown = IF @ = NoText THEN @ ELSE disk[Desc]]

\* LintWorker::seed_workspace.
SeedWorkspace(roots, base) ==
  SetMembers(RDocs, roots, UpsertFromDisk(RDocs, base))

\* ensure_workspace_for: walk the package only when d is not a member yet.
EnsureWorkspaceFor(d, base) ==
  IF d \in base.members
  THEN base
  ELSE SetMembers(RDocs, base.roots \cup {"package"},
                  UpsertFromDisk(RDocs \ {d}, base))

\* ensure_index: reload the provider when meta.json moved.
EnsureIndex(base) ==
  IF installed = stamp THEN base ELSE [base EXCEPT !.index = stamp]

-----------------------------------------------------------------------------
(* The main loop sends; the client and the database writes react.          *)

Orders(S) == {order \in [1 .. Cardinality(S) -> S] :
                \A i, j \in 1 .. Cardinality(S) : i # j => order[i] # order[j]}

\* Every live snapshot unwinds at a salsa write (or trigger_cancellation): its
\* job drops it, publishes nothing and still owes the lint thread its `done`.
Done(job) == [id |-> job.id, uri |-> job.uri, version |-> job.version]
Unwound(cancelled) == dones \cup {Done(job) : job \in cancelled}
CancelIf(condition) == IF condition THEN pool ELSE {}

Spend(bound) == /\ budget[bound] > 0
                /\ budget' = [budget EXCEPT ![bound] = @ - 1]

-----------------------------------------------------------------------------
Init ==
  /\ version = [d \in Docs |-> 0]
  /\ lastVersion = [d \in Docs |-> 0]
  /\ buffer = [d \in Docs |-> InitialText]
  /\ findings = [d \in Docs |-> None]
  /\ parked = [d \in Docs |-> {}]
  /\ held = [d \in Docs |-> None]
  /\ toPull = {}
  /\ lintQ = <<>> /\ outQ = <<>> /\ built = <<>> /\ dones = {}
  /\ pc = "select"
  /\ pending = [d \in Docs |-> None]
  /\ inflight = None
  /\ disk = [d \in Docs |-> InitialText]
  /\ db = IF Seeded
          THEN [text |-> disk, markdown |-> InitialText, members |-> RDocs,
                roots |-> {"initial"}, index |-> 0]
          ELSE [text |-> [d \in Docs |-> NoText], markdown |-> NoText,
                members |-> {}, roots |-> {}, index |-> 0]
  /\ installed = None
  /\ attempted = {}
  /\ pool = {} /\ harvests = 0
  /\ config = 0
  /\ stamp = 1
  /\ budget = [opens |-> MaxOpens, edits |-> MaxEdits, configs |-> MaxConfigs,
               writes |-> MaxDiskWrites, seeds |-> MaxSeeds,
               external |-> MaxExternal, panics |-> MaxPanics]

-----------------------------------------------------------------------------
(* The client, and the main-loop handler that answers in the same step.    *)

ClientReads(d) == toPull' = IF PullMode THEN toPull \cup {d} ELSE toPull

\* The editor opens a document with the bytes on disk.
DidOpen(d) ==
  /\ ~IsOpen(d)
  /\ budget.opens[d] > 0
  /\ budget' = [budget EXCEPT !.opens[d] = @ - 1]
  /\ LET first == IF RestartVersions THEN 1 ELSE lastVersion[d] + 1
     IN  /\ first <= MaxVersion
         /\ version' = [version EXCEPT ![d] = first]
         /\ lastVersion' = [lastVersion EXCEPT ![d] = IF first > @ THEN first ELSE @]
  /\ buffer' = [buffer EXCEPT ![d] = disk[d]]
  /\ lintQ' = Append(lintQ, Request(d, version'[d], buffer'[d], config))
  /\ ClientReads(d)
  /\ UNCHANGED <<findings, parked, held, outQ, dones, built, lintVars, pool,
                 harvests, disk, config, stamp>>

DidChange(d, text) ==
  /\ IsOpen(d)
  /\ version[d] < MaxVersion
  /\ Spend("edits")
  /\ version' = [version EXCEPT ![d] = @ + 1]
  /\ lastVersion' = [lastVersion EXCEPT ![d] = IF version'[d] > @ THEN version'[d] ELSE @]
  /\ buffer' = [buffer EXCEPT ![d] = text]
  /\ lintQ' = Append(lintQ, Request(d, version'[d], buffer'[d], config))
  /\ ClientReads(d)
  /\ UNCHANGED <<findings, parked, held, outQ, dones, built, lintVars, pool,
                 harvests, disk, config, stamp>>

\* (wrong) Closing a document forgets the pulls parked on it.
DidCloseLeavingParked(d) ==
  /\ IsOpen(d)
  /\ version' = [version EXCEPT ![d] = 0]
  /\ findings' = [findings EXCEPT ![d] = None]
  /\ held' = [held EXCEPT ![d] = None]
  /\ toPull' = toPull \ {d}
  /\ lintQ' = lintQ \o OneIf(d = Desc, [type |-> "closeDescription", uri |-> d])
  /\ UNCHANGED <<lastVersion, buffer, parked, outQ, dones, built, lintVars, pool,
                 harvests, envVars>>

\* The parked pulls are answered with an empty report; a pushing server clears
\* the client's list.  Only a DESCRIPTION tells the lint thread.
DidClose(d) ==
  /\ IsOpen(d)
  /\ version' = [version EXCEPT ![d] = 0]
  /\ findings' = [findings EXCEPT ![d] = None]
  /\ parked' = [parked EXCEPT ![d] = {}]
  /\ held' = [held EXCEPT ![d] = None]
  /\ toPull' = toPull \ {d}
  /\ lintQ' = lintQ \o OneIf(d = Desc, [type |-> "closeDescription", uri |-> d])
  /\ UNCHANGED <<lastVersion, buffer, outQ, dones, built, lintVars, pool,
                 harvests, envVars>>

IsWarm(d) == findings[d] # None /\ findings[d].version = version[d]

\* on_document_diagnostic, warm: `unchanged` when the ids match.
PullWarm(d) ==
  /\ d \in toPull /\ IsWarm(d)
  /\ held' = IF PreviousId(d) = ResultId(d, findings[d])
             THEN held ELSE [held EXCEPT ![d] = findings[d]]
  /\ toPull' = toPull \ {d}
  /\ UNCHANGED <<mainVars, lintQ, outQ, dones, built, lintVars, pool,
                 harvests, envVars>>

\* on_document_diagnostic, cold: park the pull and ask for a lint.
PullCold(d) ==
  /\ d \in toPull /\ ~IsWarm(d)
  /\ parked' = [parked EXCEPT ![d] = @ \cup {PreviousId(d)}]
  /\ lintQ' = Append(lintQ, Request(d, version[d], buffer[d], config))
  /\ toPull' = toPull \ {d}
  /\ UNCHANGED <<version, lastVersion, buffer, findings, held, outQ, dones,
                 built, lintVars, pool, harvests, envVars>>

\* (wrong) A pull client is asked to pull what is still served warm.
RequestRelintAllWarm(revision) ==
  /\ toPull' = IF PullMode THEN toPull \cup OpenDocs ELSE toPull
  /\ UNCHANGED <<findings, lintQ>>

\* request_relint_all, from an Outbound or from a configuration change.
RequestRelintAll(revision) ==
  IF PullMode
  THEN /\ findings' = [d \in Docs |-> IF IsOpen(d) THEN None ELSE findings[d]]
       /\ toPull' = toPull \cup OpenDocs
       /\ UNCHANGED lintQ
  ELSE /\ \E order \in Orders(OpenDocs) :
            lintQ' = lintQ \o [i \in 1 .. Cardinality(OpenDocs) |->
                                Request(order[i], version[order[i]], buffer[order[i]], revision)]
       /\ UNCHANGED <<findings, toPull>>

\* arity.toml is edited and its watcher event clears the resolved settings.
ConfigChange ==
  /\ Spend("configs")
  /\ config' = config + 1
  /\ RequestRelintAll(config + 1)
  /\ UNCHANGED <<version, lastVersion, buffer, parked, held, outQ, dones, built,
                 lintVars, pool, harvests, disk, stamp>>

\* A file is written (saved or rewritten by a tool) and the watcher reports it.
\* classify_watched_files drops a change under an open buffer, never a create.
DiskWrite(d, text, kind) ==
  /\ Spend("writes")
  /\ disk' = [disk EXCEPT ![d] = text]
  /\ lintQ' = lintQ \o OneIf(kind = "created" \/ ~IsOpen(d),
                            [type |-> kind, uri |-> d])
  /\ UNCHANGED <<mainVars, clientVars, outQ, dones, built, lintVars, pool,
                 harvests, config, stamp>>

\* didChangeWorkspaceFolders adds a folder that contains the package.
AddFolder ==
  /\ Spend("seeds")
  /\ lintQ' = Append(lintQ, [type |-> "seedWorkspace"])
  /\ UNCHANGED <<mainVars, clientVars, outQ, dones, built, lintVars, pool,
                 harvests, disk, config, stamp>>

\* `arity index` rewrites the package cache beside the server.
ExternalIndex ==
  /\ Spend("external")
  /\ stamp' = stamp + 1
  /\ UNCHANGED <<mainVars, clientVars, lintQ, outQ, dones, built, lintVars,
                 pool, harvests, disk, config>>

-----------------------------------------------------------------------------
(* The main loop: on_outbound.                                             *)

Head1(q, type) == q # <<>> /\ Head(q).type = type

\* The version gate: the document is closed or at another version.
DropDiagnostics ==
  /\ Head1(outQ, "diagnostics")
  /\ version[Head(outQ).uri] # Head(outQ).found.version
  /\ outQ' = Tail(outQ)
  /\ UNCHANGED <<mainVars, clientVars, lintQ, dones, built, lintVars, pool,
                 harvests, envVars>>

\* (wrong) Whatever arrives is filed under the version the document has by now.
AcceptDiagnosticsUngated ==
  /\ Head1(outQ, "diagnostics")
  /\ LET d == Head(outQ).uri
         found == [Head(outQ).found EXCEPT !.version = version[d]]
     IN  /\ findings' = [findings EXCEPT ![d] = found]
         /\ held' = [held EXCEPT ![d] = found]
         /\ parked' = [parked EXCEPT ![d] = {}]
  /\ outQ' = Tail(outQ)
  /\ UNCHANGED <<version, lastVersion, buffer, toPull, lintQ, dones, built,
                 lintVars, pool, harvests, envVars>>

AcceptDiagnostics ==
  /\ Head1(outQ, "diagnostics")
  /\ LET d == Head(outQ).uri
         found == Head(outQ).found
         full == IF PullMode THEN \E previous \in parked[d] : previous # ResultId(d, found)
                             ELSE TRUE
     IN  /\ version[d] = found.version
         /\ findings' = [findings EXCEPT ![d] = found]
         /\ parked' = [parked EXCEPT ![d] = {}]
         /\ held' = IF full THEN [held EXCEPT ![d] = found] ELSE held
  /\ outQ' = Tail(outQ)
  /\ UNCHANGED <<version, lastVersion, buffer, toPull, lintQ, dones, built,
                 lintVars, pool, harvests, envVars>>

OnRelintAll ==
  /\ Head1(outQ, "relintAll")
  /\ outQ' = Tail(outQ)
  /\ RequestRelintAll(config)
  /\ UNCHANGED <<version, lastVersion, buffer, parked, held, dones, built,
                 lintVars, pool, harvests, envVars>>

-----------------------------------------------------------------------------
(* The lint thread: messages.  `pc` says where it stands in LintWorker::run:*)
(* at select!, draining the lint channel, or in the loop of try_dispatch.   *)

\* The writes of one step: the database, the snapshots it unwinds, and the
\* messages sent to the main loop.
Write(next, cancelled, messages) ==
  /\ db' = next
  /\ pool' = pool \ cancelled
  /\ dones' = Unwound(cancelled)
  /\ outQ' = outQ \o messages

WriteAndRelint(next, relint) ==
  Write(next, CancelIf(next # db), OneIf(relint, RelintAll))

\* (wrong) The first pending request wins.
EnqueueFirst(r) ==
  /\ pending' = [pending EXCEPT ![r.uri] = IF @ = None THEN r ELSE @]
  /\ UNCHANGED <<db, pool, dones, outQ>>

\* enqueue: the pending request stays unless the new one is strictly newer.
Enqueue(r) ==
  /\ pending' = IF pending[r.uri] # None /\ pending[r.uri].version >= r.version
                THEN pending ELSE [pending EXCEPT ![r.uri] = r]
  /\ UNCHANGED <<db, pool, dones, outQ>>

IsTracked(d) == db.text[d] # NoText

\* on_watched_files for the DESCRIPTION.  A tracked one is re-read; otherwise
\* the graph of a workspace without members is refreshed, which writes only
\* the first time.
ReadDescription ==
  LET read == IF IsTracked(Desc) THEN [db EXCEPT !.text[Desc] = disk[Desc]] ELSE db
      next == RefreshMarkdown(read)
  IN \E graphMoved \in IF IsTracked(Desc) THEN {FALSE} ELSE BOOLEAN :
       Write(next, CancelIf(next # db \/ graphMoved),
             OneIf(next # db \/ graphMoved, RelintAll))

\* (wrong) The queued lint of the closed buffer survives and reinstalls it.
CloseDescriptionKeepingQueue == ReadDescription /\ UNCHANGED pending

CloseDescription ==
  /\ pending' = [pending EXCEPT ![Desc] = None]
  /\ ReadDescription

\* on_watched_files for an R file: `changed` always asks for a re-lint,
\* `created` (apply_r_membership) only when the file was no member.
ReadChanged(d) == WriteAndRelint(UpsertFromDisk({d}, db), TRUE)

ReadCreated(d) ==
  IF db.members = {}
  THEN WriteAndRelint(db, FALSE)
  ELSE WriteAndRelint(SetMembers(db.members \cup {d}, db.roots, UpsertFromDisk({d}, db)),
                      d \notin db.members)

\* handle_lint_msg, for the message that woke select! and for every one that is
\* queued by the time it is done.
HandleMsg ==
  /\ pc \in {"select", "drain"}
  /\ lintQ # <<>>
  /\ LET msg == Head(lintQ)
     IN \/ msg.type = "request" /\ Enqueue(msg)
        \/ msg.type = "closeDescription" /\ CloseDescription
        \/ /\ msg.type = "seedWorkspace"
           /\ WriteAndRelint(SeedWorkspace({"added"}, db), FALSE)
           /\ UNCHANGED pending
        \/ /\ msg.type \in {"changed", "created"} /\ msg.uri = Desc
           /\ ReadDescription
           /\ UNCHANGED pending
        \/ /\ msg.type = "changed" /\ msg.uri # Desc
           /\ ReadChanged(msg.uri)
           /\ UNCHANGED pending
        \/ /\ msg.type = "created" /\ msg.uri # Desc
           /\ ReadCreated(msg.uri)
           /\ UNCHANGED pending
  /\ lintQ' = Tail(lintQ)
  /\ pc' = "drain"
  /\ UNCHANGED <<mainVars, clientVars, built, inflight, installed, attempted,
                 harvests, envVars>>

DrainDone ==
  /\ pc = "drain" /\ lintQ = <<>>
  /\ pc' = "dispatch"
  /\ UNCHANGED <<mainVars, clientVars, lintQ, outQ, dones, built, pending,
                 inflight, db, installed, attempted, pool, harvests, envVars>>

-----------------------------------------------------------------------------
(* The lint thread: try_dispatch.                                          *)

\* (wrong) A request of any document cancels the analyze in flight.
SupersedesAny(d) == inflight # None /\ inflight.uri # d

\* decide: a newer edit of the document in flight, and nothing else, cancels.
Supersedes(d) == /\ inflight # None /\ inflight.uri = d
                 /\ pending[d].version > inflight.version

MayStart(d) == pending[d] # None /\ (inflight = None \/ Supersedes(d))

\* (wrong) Every lint under an installed provider re-lints everything.
CacheMovedAlways == installed # None

\* A stamp that moved under an installed provider re-lints everything.
CacheMoved == installed # None /\ installed # stamp

\* The write phase of start_r: what it leaves in the database and sends.
PrepareR(r) ==
  [db  |-> EnsureWorkspaceFor(r.uri, UpsertBuffer(r.uri, r.text, EnsureIndex(db))),
   out |-> OneIf(CacheMoved, RelintAll)]

\* The write phase of start_description; two texts differ in their facts.
PrepareDescription(r) ==
  LET base  == IF IsTracked(Desc) THEN db ELSE SeedWorkspace({"package"}, db)
      moved == base.text[Desc] # r.text
      wrote == [base EXCEPT !.text[Desc] = r.text]
  IN [db  |-> EnsureIndex(IF moved THEN RefreshMarkdown(wrote) ELSE wrote),
      out |-> OneIf(moved, RelintAll) \o OneIf(CacheMoved, RelintAll)]

Prepare(r) == IF r.uri = Desc THEN PrepareDescription(r) ELSE PrepareR(r)

\* The buffer cannot be linted: an unknown rule, or a syntax error in R.
IsBlocked(r) == r.config \in BadConfigs \/ (r.uri # Desc /\ r.text \in Broken)

\* maybe_build: every text references packages of its own, and the document may
\* use those the tracked DESCRIPTION declares.  Each is attempted once.
Wanted(r, view) == {r.text, view.text[Desc]} \ (attempted \cup {NoText})

MaybeBuild(r, view, reached) ==
  IF AutoBuild /\ reached /\ Wanted(r, view) # {}
  THEN attempted' = attempted \cup Wanted(r, view) /\ harvests' = harvests + 1
  ELSE UNCHANGED <<attempted, harvests>>

\* trigger_cancellation when it supersedes, and every write, unwind the pool.
Unwinds(d, next) == Supersedes(d) \/ next # db \/ installed # stamp

\* No worker: empty or parse diagnostics are published, the loop goes on.  Only
\* start_description reaches maybe_build before it resolves the rules.
DispatchBlocked(d) ==
  /\ pc = "dispatch" /\ MayStart(d)
  /\ IsBlocked(pending[d])
  /\ LET r == pending[d]
         phase == Prepare(r)
     IN /\ Write(phase.db, CancelIf(Unwinds(d, phase.db)),
                 phase.out \o <<Diagnostics(r, phase.db)>>)
        /\ MaybeBuild(r, phase.db, d = Desc)
  /\ pending' = [pending EXCEPT ![d] = None]
  /\ inflight' = None
  /\ installed' = stamp
  /\ UNCHANGED <<mainVars, clientVars, lintQ, built, pc, envVars>>

FreeIds == JobIds \ {job.id : job \in pool \cup dones}

\* spawn_analyze: the slot is taken, the job holds a snapshot of the database.
DispatchSpawn(d) ==
  /\ pc = "dispatch" /\ MayStart(d)
  /\ ~IsBlocked(pending[d])
  /\ FreeIds # {}
  /\ LET r == pending[d]
         phase == Prepare(r)
         cancelled == CancelIf(Unwinds(d, phase.db))
         job == [id |-> CHOOSE id \in FreeIds : TRUE, uri |-> d, version |-> r.version,
                 text |-> r.text, config |-> r.config, view |-> phase.db]
     IN /\ db' = phase.db
        /\ outQ' = outQ \o phase.out
        /\ dones' = Unwound(cancelled)
        /\ pool' = (pool \ cancelled) \cup {job}
        /\ MaybeBuild(r, phase.db, TRUE)
        /\ inflight' = [uri |-> d, version |-> r.version]
  /\ pending' = [pending EXCEPT ![d] = None]
  /\ installed' = stamp
  /\ pc' = "select"
  /\ UNCHANGED <<mainVars, clientVars, lintQ, built, envVars>>

DispatchWait ==
  /\ pc = "dispatch"
  /\ \A d \in Docs : ~MayStart(d)
  /\ pc' = "select"
  /\ UNCHANGED <<mainVars, clientVars, lintQ, outQ, dones, built, pending,
                 inflight, db, installed, attempted, pool, harvests, envVars>>

\* (wrong) Any `done` frees the slot.
OnDoneUnchecked ==
  /\ pc = "select"
  /\ \E done \in dones : dones' = dones \ {done}
  /\ inflight' = None
  /\ pc' = "dispatch"
  /\ UNCHANGED <<mainVars, clientVars, lintQ, outQ, built, pending, db, installed,
                 attempted, pool, harvests, envVars>>

\* (wrong) The freed slot is not offered to the queue.
OnDoneWithoutDispatch ==
  /\ pc = "select"
  /\ \E done \in dones :
       /\ dones' = dones \ {done}
       /\ inflight' = IF inflight = [uri |-> done.uri, version |-> done.version]
                      THEN None ELSE inflight
  /\ UNCHANGED <<mainVars, clientVars, lintQ, outQ, built, pc, pending, db,
                 installed, attempted, pool, harvests, envVars>>

\* `done`, in any order: it frees the slot only for the current analyze.
OnDone ==
  /\ pc = "select"
  /\ \E done \in dones :
       /\ dones' = dones \ {done}
       /\ inflight' = IF inflight = [uri |-> done.uri, version |-> done.version]
                      THEN None ELSE inflight
  /\ pc' = "dispatch"
  /\ UNCHANGED <<mainVars, clientVars, lintQ, outQ, built, pending, db, installed,
                 attempted, pool, harvests, envVars>>

\* (wrong) The new provider is installed and nothing is linted against it.
InstallBuildQuietly ==
  /\ pc = "select" /\ built # <<>>
  /\ Write([db EXCEPT !.index = Head(built)], pool, <<>>)
  /\ built' = Tail(built)
  /\ UNCHANGED <<mainVars, clientVars, lintQ, pc, pending, inflight, installed,
                 attempted, harvests, envVars>>

\* A harvested provider arrives; the installed identity is left alone.
InstallBuild ==
  /\ pc = "select" /\ built # <<>>
  /\ Write([db EXCEPT !.index = Head(built)], pool, <<RelintAll>>)
  /\ built' = Tail(built)
  /\ UNCHANGED <<mainVars, clientVars, lintQ, pc, pending, inflight, installed,
                 attempted, harvests, envVars>>

-----------------------------------------------------------------------------
(* The pools.                                                              *)

\* The read phase ends: findings, then the snapshot, then `done`.
FinishAnalyze(job) ==
  /\ outQ' = Append(outQ, Diagnostics(job, job.view))
  /\ pool' = pool \ {job}
  /\ dones' = Unwound({job})
  /\ UNCHANGED <<mainVars, clientVars, lintQ, built, lintVars, harvests, envVars>>

\* A rule panics: the pool's catch_unwind swallows the job and its `done`.
PanicAnalyze(job) ==
  /\ Spend("panics")
  /\ pool' = pool \ {job}
  /\ UNCHANGED <<mainVars, clientVars, lintQ, outQ, dones, built, lintVars,
                 harvests, disk, config, stamp>>

\* A harvest ends; when it indexed something new the cache's stamp moves and the
\* provider read back from it is sent to the lint thread.
HarvestDone(found) ==
  /\ harvests > 0
  /\ harvests' = harvests - 1
  /\ stamp' = IF found THEN stamp + 1 ELSE stamp
  /\ built' = built \o OneIf(found, stamp')
  /\ UNCHANGED <<mainVars, clientVars, lintQ, outQ, dones, lintVars, pool,
                 disk, config, budget>>

-----------------------------------------------------------------------------
(* Nothing is in a channel, in a pool or about to be pulled.               *)

Idle ==
  /\ lintQ = <<>> /\ outQ = <<>> /\ built = <<>> /\ dones = {}
  /\ toPull = {} /\ pool = {} /\ harvests = 0 /\ pc = "select"

Client ==
  \/ \E d \in Docs : DidOpen(d) \/ DidClose(d)
  \/ \E d \in Docs, text \in Texts : DidChange(d, text)
  \/ ConfigChange
  \/ \E d \in Docs, text \in Texts, kind \in EventKinds : DiskWrite(d, text, kind)
  \/ AddFolder
  \/ ExternalIndex

Pull == \E d \in Docs : PullWarm(d) \/ PullCold(d)

MainLoop == DropDiagnostics \/ AcceptDiagnostics \/ OnRelintAll

LintThread ==
  \/ HandleMsg \/ DrainDone
  \/ \E d \in Docs : DispatchBlocked(d) \/ DispatchSpawn(d)
  \/ DispatchWait
  \/ OnDone \/ InstallBuild

Finish == \E job \in pool : FinishAnalyze(job)
Panic == \E job \in pool : PanicAnalyze(job)
Harvest == \E found \in BOOLEAN : HarvestDone(found)

\* The bounded client may stop; the server then waits for it forever.
Rest == Idle /\ UNCHANGED vars

Next == Client \/ Pull \/ MainLoop \/ LintThread \/ Finish \/ Panic \/ Harvest \/ Rest

Spec == Init /\ [][Next]_vars

\* The threads and the pool workers run; a pull client pulls what it announced.
\* Nothing obliges the user, the watcher or a panic.
Fairness == /\ WF_vars(MainLoop) /\ WF_vars(LintThread)
            /\ WF_vars(Finish) /\ WF_vars(Harvest) /\ WF_vars(Pull)

FairSpec == Spec /\ Fairness

-----------------------------------------------------------------------------
(* Types.                                                                  *)

Database == [text : [Docs -> Texts \cup {NoText}], markdown : Texts \cup {NoText},
             members : SUBSET RDocs, roots : SUBSET {"initial", "package", "added"},
             index : Nat]
FindingType == [version : Nat, text : Texts, config : Nat, view : Database]
ResultIdType == Nat \X Nat \X Database
RequestType == [type : {"request"}, uri : Docs, version : Nat, text : Texts,
                config : Nat]
LintMsgType == RequestType
  \cup [type : {"closeDescription", "changed", "created"}, uri : Docs]
  \cup [type : {"seedWorkspace"}]
OutboundType == [type : {"diagnostics"}, uri : Docs, found : FindingType]
  \cup [type : {"relintAll"}]
JobType == [id : JobIds, uri : Docs, version : Nat, text : Texts, config : Nat,
            view : Database]
DoneType == [id : JobIds, uri : Docs, version : Nat]
BudgetType == [opens : [Docs -> Nat], edits : Nat, configs : Nat, writes : Nat,
               seeds : Nat, external : Nat, panics : Nat]

\* None is not a finding, a request, a result id or a stamp.
ASSUME NoneAssumption == None \notin FindingType \cup RequestType \cup ResultIdType \cup Nat

MainTypes ==
  /\ version \in [Docs -> Nat] /\ lastVersion \in [Docs -> Nat]
  /\ buffer \in [Docs -> Texts]
  /\ findings \in [Docs -> FindingType \cup {None}]
  /\ parked \in [Docs -> SUBSET (ResultIdType \cup {None})]

ClientTypes ==
  /\ held \in [Docs -> FindingType \cup {None}]
  /\ toPull \subseteq Docs

QueueTypes ==
  /\ lintQ \in Seq(LintMsgType) /\ outQ \in Seq(OutboundType)
  /\ dones \subseteq DoneType /\ built \in Seq(Nat)

LintTypes ==
  /\ pc \in {"select", "drain", "dispatch"}
  /\ pending \in [Docs -> RequestType \cup {None}]
  /\ inflight \in [uri : Docs, version : Nat] \cup {None}
  /\ db \in Database
  /\ installed \in Nat \cup {None} /\ attempted \subseteq Texts

PoolTypes == pool \subseteq JobType /\ harvests \in Nat

EnvTypes ==
  /\ disk \in [Docs -> Texts]
  /\ config \in Nat /\ stamp \in Nat /\ budget \in BudgetType

\* Every variable holds values of its type.
TypeOK == /\ MainTypes /\ ClientTypes /\ QueueTypes
          /\ LintTypes /\ PoolTypes /\ EnvTypes

-----------------------------------------------------------------------------
(* Safety.                                                                 *)

\* GlobalState::findings: cached findings whose version is the document's
\* version were computed from the document's text.  on_code_action applies
\* their byte ranges to the buffer, and a warm pull renders them against it.
FindingsMatchText ==
  \A d \in Docs : findings[d] # None /\ findings[d].version = version[d]
                    => findings[d].text = buffer[d]

\* LintWorker::inflight: at most one analyze runs at a time, it is the one the
\* slot names, and its `done` has not been sent.
AtMostOneAnalyze ==
  \A job \in pool : /\ pool = {job}
                    /\ inflight = [uri |-> job.uri, version |-> job.version]
                    /\ \A done \in dones : inflight # [uri |-> done.uri, version |-> done.version]

\* The coalescing queue keeps draining.  When the lint thread goes to sleep,
\* either nothing is pending or the slot is taken by an analyze that still runs
\* or whose `done` is on the way and will wake try_dispatch again.
QueueDrains ==
  pc = "select" =>
    IF inflight = None
    THEN \A d \in Docs : pending[d] = None
    ELSE \E job \in pool \cup dones : inflight = [uri |-> job.uri, version |-> job.version]

\* What the client shows for an open document once everything has settled was
\* computed from the live buffer, the configuration in force, and the package
\* facts and library index in the database.
ShownIsCurrent ==
  Idle => \A d \in OpenDocs :
    /\ held[d] # None
    /\ held[d].text = buffer[d] /\ held[d].config = config
    /\ held[d].view.text[Desc] = db.text[Desc]
    /\ held[d].view.markdown = db.markdown
    /\ held[d].view.index = db.index

\* Open buffers are authoritative: once everything has settled the database
\* holds the buffer of every open document, and of a closed tracked DESCRIPTION
\* the bytes on disk, not an unsaved buffer.
BuffersAreAuthoritative ==
  Idle => /\ \A d \in OpenDocs : db.text[d] = buffer[d]
          /\ ~IsOpen(Desc) /\ IsTracked(Desc) => db.text[Desc] = disk[Desc]

-----------------------------------------------------------------------------
(* Steps.                                                                  *)

\* decide: an analyze is unwound only by a newer request for its own document or
\* by a step that has every open document linted again.  A job that merely ends
\* leaves its diagnostics behind.
NoLintIsLost ==
  [][\A job \in pool \ pool' :
       \/ Len(outQ') > Len(outQ)
       \/ /\ pending[job.uri] # None /\ pending[job.uri].version > job.version
          /\ inflight' = [uri |-> job.uri, version |-> pending[job.uri].version]]_vars

-----------------------------------------------------------------------------
(* Liveness, under FairSpec.                                               *)

\* The re-lints that lints ask for die out: no request, analyze, harvest or
\* message goes round forever.
Settles == <>[]Idle

\* A parked textDocument/diagnostic request is answered, by a lint or by the
\* empty report of didClose.
ParkedPullsAreAnswered == \A d \in Docs : parked[d] # {} ~> parked[d] = {}
-----------------------------------------------------------------------------
(* What comments of the code say and the code does not keep (the README says *)
(* in which situation each one fails).                                      *)

\* WatchedClassification::config_changed: open documents are linted again "so the
\* new settings take effect".
SettingsTakeEffect ==
  Idle => \A d \in OpenDocs : held[d] # None => held[d].config = config

\* DescriptionFile::text: an open DESCRIPTION is authoritative in the database.
OpenDescriptionIsAuthoritative ==
  Idle /\ IsOpen(Desc) => db.text[Desc] = buffer[Desc]

\* WatchedFilesBatch::r_changed: open R buffers are authoritative.
OpenRBuffersAreAuthoritative ==
  Idle => \A d \in OpenDocs \cap RDocs : db.text[d] = buffer[d]

\* start_description: the markdown default R blocks are parsed with follows the
\* Roxygen field of the DESCRIPTION.
MarkdownFollowsDescription ==
  Idle /\ db.markdown # NoText => db.markdown = disk[Desc]

\* content_result_id: an `unchanged` report stands for the items a full one would
\* have delivered, so the report shown is that of the live text.
ShownReportIsOfLiveText ==
  Idle => \A d \in OpenDocs : held[d] # None => held[d].text = buffer[d]

=============================================================================
