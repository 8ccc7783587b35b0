# arity in TLA+

arity is a formatter, linter and language server for R. What keeps state, runs
concurrently and is hard to test is the **language server**: a main loop that
owns the buffers, a lint thread that owns an incremental (salsa) database, two
pools of worker threads, caches on disk shared with other processes, and an
editor that sends whatever it likes at any moment. Beside it stand pure
functions from text to trees, findings or text. Most of the 113 000 lines are
those; where one of them is an algorithm whose boundaries are hard to test (line
indexes, edit recovery, incremental reparse, load order, shared scopes) it is
modelled as well. Paths below are relative to the repository.

## The system

| part | state | operations | talks to |
|---|---|---|---|
| main loop, `src/lsp/state.rs` | open documents and their versions, cached findings, parked pulls, result ids, live read requests, settings cache, progress tokens | notifications (open, change, close, watched files, folders, renames), requests, `on_outbound` | client; lint thread by `LintMsg`; gets `Outbound` from everyone |
| lint thread, `src/lsp/lint_thread.rs` | the database, one pending request per URI, the in-flight slot, the installed provider's identity, packages attempted | `handle_lint_msg`, `try_dispatch`, `done`, index install, sidecar install, minting read snapshots | pools by closures; main loop by `Outbound` |
| database, `src/incremental.rs` | inputs: texts, members, roots, descriptions, roxygen default, library index, remote exports; the last parse and the staged edits of each file | setters that skip equal values; every real write cancels every live snapshot | the linter's tracked queries |
| pools, `src/lsp/task_pool.rs` | queued jobs | run a job, catch its panic | |
| watched files, renames, scope: `watched_files.rs`, `file_rename.rs`, `workspace_scope.rs` | none of their own | classify events; change the member set and the roots | the database |
| read requests, `read_jobs.rs` and `state.rs` | `live_reads` | dispatch, cancel, reply, `ContentModified` | read pool |
| settings, `config.rs`, `state.rs` | cached settings with a fingerprint of files | discover, inherit, validate, clear | disk |
| package index, `src/rindex/` | `meta.json` and one file per package version; the remote sidecar's manifest and its validator | harvest, record, load, stamp, fetch | other arity processes, network |
| formatter cache, `src/formatter/cache.rs` | set of fixed points on disk | load, record, store, collect old versions | other arity processes |
| text, `src/text/`, edits of `parser/reparse.rs` | a buffer and its line index | apply an edit, convert positions, map ranges | |
| parser, `crates/arity-parser` | the last tree of a file | full parse, three kinds of reparse | the database |
| project, `src/project/`, `lsp/navigation.rs` | none that outlives a revision | file facts, relations between files, load order, workspace rename | the database |
| semantic analysis, `src/semantic/` | none that outlives a revision | scopes and bindings, control flow | rules, rename, project facts |
| `arity lint --fix`, `src/linter/`, `src/main.rs` | the file being fixed | lint, suppress, accept, splice, lint again | directives in the file |
| other rules; formatter; roxygen; rest of the command line; wasm; editor extensions | none that outlives a call | | |

What is hard here: messages of the main loop and of the pools cross; a write to
the database unwinds whatever reads it, wherever it is; `done` signals of
unwound jobs arrive after their successors started; versions are the only thing
that ties findings and answers to a text and restart when a document is
reopened; bytes exist three times (buffer, database, disk), and which one wins
depends on who is open; a background harvest replaces the library under open
documents; the disk changes before the server is told; four caches are shared
by processes that may die between two writes; a tree is patched instead of
parsed. `PROJECT.json` lists each hazard at its line, with the properties that
are about it.

What makes the parts correct:

- *main loop*: findings it serves are of the text they are applied to; every
  parked pull and every read request is answered once, about the live buffer.
- *lint thread*: one analyze at a time; the queue never stalls; whatever a lint
  depended on and changed is linted again; the re-lints die out.
- *database*: open buffers win over the disk, closed ones do not outlive their
  close; members and roots are what a fresh seed would find.
- *caches*: a reader never sees half a cache; no entry is lost; a stale one is
  noticed.
- *text and parser*: what is patched equals what is rebuilt.
- *semantic analysis*: what it says of a program holds of every run of it: unused
  is never read, unreachable never runs, a rename changes no binding.
- *fixes and directives*: a turn of `--fix` changes what was reported and nothing
  beside it, and what is left is suppressed as it was.
- *project*: shared tables answer what a comparison of every pair of files would;
  a rename touches the reads that are bound to the name and no other.

## Modules

| module | content | checked by | proved in |
|---|---|---|---|
| `LintPipeline` | main loop, lint thread, database inputs, pools, client, disk and package cache, from a keystroke to the findings the client shows | `MCLintPipeline` | `LintPipelineProofs` |
| `ReadContract` | what a client may expect of a request: asked, answered once or abandoned by a dead job | | |
| `ReadRequests` | `live_reads`, snapshots, cancellation, fallbacks, panics; implements `ReadContract` | `MCReadRequests` | `ReadRequestsProofs` |
| `LineIndex` | buffers, line starts, the three position encodings | `MCTextEdits` | `TextProofs` |
| `EditMaps` | edits, chains, `diff_edit`, mapping a range through an edit | `MCTextEdits` | `TextProofs` |
| `TextEdits` | one document under `didChange`: buffer, index, rename anchor, staged edits, parse | `MCTextEdits` | `TextProofs` |
| `RParser` | lexer, expression, call, block, `if`, function and statement-list parsers with their recovery | `MCReparse` | |
| `Reparse` | the three incremental paths and the fallback | `MCReparse` | |
| `WorkspaceMembership` | members and roots under seeds, watcher batches, rename batches | `MCWorkspaceMembership` | `WorkspaceMembershipProofs` |
| `IndexCache` | `meta.json`, package files, harvests of several processes, the server's provider | `MCDiskCaches` | `IndexCacheProofs` |
| `RemoteSidecar` | the manifest, its validator, conditional requests | `MCDiskCaches` | `DiskCacheProofs` |
| `FormatCache` | fixed points of several runs and versions | `MCDiskCaches` | `DiskCacheProofs` |
| `ConfigCache` | discovery, inheritance, the fingerprint | `MCDiskCaches` | `DiskCacheProofs` |
| `DiskCaches` | the three before it as instances of one module, with what each promises | `MCDiskCaches` | `DiskCacheProofs` |
| `ProjectScope` | relations between files, shared layers of a package | `MCProjectScope` | `ProjectScopeProofs` |
| `LoadOrder` | top-level replay, execution, workspace rename | `MCProjectScope` | `ProjectScopeProofs` |
| `RPrograms` | programs over one variable, and R running them | `MCAnalysis` | |
| `Bindings` | scopes, bindings, reads; unused bindings, rename of a local variable | `MCAnalysis` | |
| `ControlFlow` | the control-flow graph and what it calls unreachable | `MCAnalysis` | |
| `LintFix` | directives, what they suppress, the rules about them; the fix loop | `MCAnalysis` | `LintFixProofs` |

`TextEdits` uses `EditMaps`, which uses `LineIndex`; `Reparse` uses `RParser`;
`MCAnalysis` has both analyses read the program that `RPrograms` then runs, and
holds `LintFix` beside them; it, `MCDiskCaches` and `MCProjectScope` compose modules that share no state: a
behaviour starts with the part it is about and moves that one only, so one run
explores each part's state space without their product.

Definitions marked `(wrong)` are mutations that a bug in the code could amount
to; nothing uses them except the check that each property notices one.

### How `LintPipeline` corresponds to the code

*Data.* Documents are the R files of one package and its DESCRIPTION. A text is
a model value that stands for the bytes; two texts have different package facts
and reference different packages. A finding is not a list of diagnostics but the
record of what it was computed from: version, text, configuration revision and
the view of the database. So "stale" is visible as a difference between that
record and the present. `Digest` says which texts give findings that serialize
equally, which is all that `content_result_id` sees. The library index is the
stamp of the cache it was loaded from.

*Main loop.* `DidOpen`, `DidChange`, `DidClose`, `PullWarm`, `PullCold`,
`ConfigChange`, `DiskWrite`, `AddFolder` are the handlers of `on_notification`
and `on_document_diagnostic` taken together with the client's act that causes
them (the channel from the client is in order and adds nothing).
`DropDiagnostics`, `AcceptDiagnostics` and `OnRelintAll` are `on_outbound`.

*Lint thread.* `pc` says where it is in `LintWorker::run`: at `select!`
(`"select"`), draining the lint channel (`"drain"`), or in the loop of
`try_dispatch` (`"dispatch"`). Between any two of its steps every other actor
may move, as in the code, whose channels are unbounded. `HandleMsg` is
`handle_lint_msg` with `enqueue`, `seed_workspace` and `on_watched_files`;
`DispatchSpawn` and `DispatchBlocked` are one turn of `try_dispatch` with the
write phase of `start_r` or `start_description`, ending in `spawn_analyze` or in
`publish_empty` / `publish_parse_diagnostics`; `decide` iterates a hash map, so
any eligible document may be next. `OnDone` takes the `done` signals in any
order, since the jobs send them from different workers. `InstallBuild` is the
harvested index arriving.

*Database.* Each setter is a function from database to database which skips the
write when nothing changes, as the code's setters do. A write that changes
anything unwinds all jobs of the pool: a job that is cancelled publishes nothing
and still sends `done`. The code's write waits until the last snapshot is
dropped; the model does both in one step, since the thread that waits does
nothing else meanwhile and a job that is being unwound only drops its snapshot.
A job that finishes before it notices is the order in which `FinishAnalyze` comes
first.

*Pools.* A job is in `pool` from the moment it is spawned until it ends
(`FinishAnalyze`), is unwound or panics (`PanicAnalyze`). `HarvestDone(found)`
ends a harvest that indexed something, or nothing.

### How `ReadRequests` corresponds to the code

`AskDirect`, `AskViaLintThread`, `AskPrepare` and `AskDeclined` are the four ways
`on_request` serves a request, `Cancel` is `$/cancelRequest`, `OnReadReply` is
the main loop's gate of that name. `Register` keeps the `(uri, version)` that gate
compares; `VersionRead` is what the handler passes, which is nothing for the kinds
that read no document and nothing for a colorPresentation either, though it answers
with an edit over a range of one. `MintSnapshot` and `HandleLint` are the lint
thread, `FinishWrite` is the end of a write that waited for snapshots. A write
that changes the database cancels every live snapshot, and each kind of job then
does what its code does: answers from a fresh parse of its own text
(`OwnText`), answers from what it holds (`Found`, `Outline`), or unwinds
(`UnwindUnguarded`). The constant `Kinds` says which kinds are in play;
`ReadUnguarded.cfg` states two things that fail on them: that every read is behind
`Cancelled::catch`, and that every result is of the live buffer. An answer carries the text its ranges index instead of the
ranges. `outlines` is the list of cells a document's outline job fills; `cell`
names the one the document now has, so a late job fills a cell nobody reads, as in
the code, where the cell is replaced with the document.

### How `LineIndex`, `EditMaps` and `TextEdits` correspond to the code

A text is a sequence of bytes; `Width` gives the length of the character that
starts at a byte and 0 for a continuation byte, so a two-byte and a four-byte
character (a surrogate pair in UTF-16) are told apart. The index's sorted vectors
are sets. `Patch` is `LineIndex::apply_edit`, `NewIndex` is `LineIndex::new`,
`Splice` and `Clamp` are `TextBuffer::apply_edit`. `ByteAt` says where the walk of
`byte_at_col` ends: `NotPassed` are the wide characters that would take it past the
column, `Stop` is the first of them or the end of the line, and what lies between the
column and that stop is ASCII. `DiffEdit`, `EditsProduce` and
`MapRange` are `diff_edit`, `edits_produce` and `map_range` of `reparse.rs`. In `TextEdits`, one
`didChange` applies its changes in order, records them for the rename that was
prepared (`anchor`) and for the lint request (`request`, which a superseding
request takes over); `Lint` stages and parses. The tree is the set of the text's
names, one to a line: enough to see which bytes a mapped range covers.

### How `RParser` and `Reparse` correspond to the code

A text is a sequence of atoms, an atom standing for a byte. A tree is the event
sequence the parser emits, each token event with its kind and text, so "the same
tree" is equality. Every operator of `RParser` is one function of the parser over
a position in the token sequence; `ParseExpr` is the climber with the binding
powers of `expr.rs`. Diagnostics are kind and span. `Reparse` locates the token,
block or statement that holds an edit by the offsets of the events, relexes or
parses that part alone, and splices its events and diagnostics; `Parsed` is what
`parsed_document` does with a chain of edits. Left out of the fragment: strings,
subsetting, loops, pipes and the other operators (which take the same paths
through the climber), and everything roxygen, whose presence makes
`parsed_document` parse in full. Right-associative `->` is not part of it either.

### How `WorkspaceMembership` corresponds to the code

A path is a directory and a name; `"w"` is the workspace folder, and any directory
may be a root nested in it. The client changes the disk at once; the server hears
of it by messages, a rename batch after it landed and watcher events in order
but cut into batches anywhere. `Seed` is the walk of `scope_members_at`,
`OwningRoot` and `InScope` are `workspace_scope.rs`, `ApplyFileRenames` is
the rename batch: the expansion of directory pairs, the chain map, taken
in the order of the paths as the code's `BTreeMap` is (`SwapOld`), and `rebase_roots`; `ApplyRMembership` is `apply_r_membership`. Two asymmetries of the
code are kept: the seed is the union of the walks of all roots, while an event is
judged by the deepest root that holds it.

### How the cache modules correspond to the code

`IndexCache` has an action for each step that another process can see: package
file written, `meta.json` read, `meta.json` replaced, and the crash of a process
between any two. The server's side is `ensure_index` (root and stamp), the
scheduling of missing packages, `index_attempts` (kept per package, not per
root), and the install of a finished harvest. `RemoteSidecar` has the manifest, the
etag and the fetch time as the separate files they are. `FormatCache` leaves what
the formatter says to a nondeterministic verdict and keeps what decides whether a
stored hash still applies. `ConfigCache` keeps a settings value as the set of
files it was merged from with the state each was in; candidates that do not exist
are in the fingerprint, as in the code, where they are needed only for files
created above the one found.

### How `ProjectScope` and `LoadOrder` correspond to the code

A file's facts are what `file_exports`, `file_free_reads` and the source
extraction give: exports, free reads, qualified and use-only reads, edges. The
shared layers of a package are counts with per-file exceptions, as in
`build_layers`; the pairwise definition beside them is the module's own statement
of what "visible" and "read elsewhere" mean. In `LoadOrder` a file is a sequence of
what its top-level statements do with one name. `Replayed` is
the state of `cross_file_binding`'s pass over `top_level_events` after each
statement (one that is no event leaves it), and `Replay` its end. `Executed` is what R
does with the same file: statements in order, `source()` runs the file now, a
function body runs later; `Run` is that with a number of files within each other, so
a file that sources itself does not end. A `source()`
with `local = TRUE` is taken to load into an environment of its own, at the top
level too.

### How `RPrograms`, `Bindings` and `ControlFlow` correspond to the code

A site of a program stands for the range of a statement: what lies inside what,
and what starts before what, is all the analyses ask of ranges. `BindingAt` is what
`handle_assignment`, `handle_function` and `handle_for` push, with the loop
range of the moment, and `ReadsReached` is `reads_reached_parts` for a name that is
the same everywhere. `ControlFlow` lowers the same programs statement by statement
as `Builder` does; blocks are numbered in the order it makes them. `Build` and
`UnreachableSites` are computed once, before the program runs, from its text
alone. `RPrograms` is not in the repository: it is the part of R the analyses are
about. Conditions go either way, loops run any number of times, functions are
called whenever they exist, handlers run when their function ends; it keeps, with
each value of the variable, the site that bound it, so that a run tells which
binding a read meets.

### How `LintFix` corresponds to the code

A text is a sequence of atoms: statements with the issues a rule would report
there, directives, spaces and line feeds. An offset is a place between two atoms, so
`deletion_span`, `comment_deletion_span` and the sweep of `apply_fixes` are the
code's, boundary by boundary. `Coverage` is what `classify` and `close_regions` set,
`RunRules` the order of `run_rules`: findings, the filter that marks directives
used, then outdated-suppression against that frozen record. `Round` is one turn of
`fix_source_in_project` (`fix_source` and the stdin path have the same loop). What a
rule finds is data: an issue of a statement, which a fix deletes with its statement
or replaces. Statements are siblings, each on lines of its own (`LinesApart`; `;`
between statements is left out), and directives between arguments are not modelled.
`Atoms` has the directives the parser accepts: only a `lint` one that closes nothing
names a rule (`DirectivesOf`).

## Runs

Twelve runs, one per question. Each uses the MC module of the table above.

| run | checks | what it shows |
|---|---|---|
| lint_push | `AtMostOneAnalyze`, `QueueDrains`, `ShownIsCurrent`, `BuffersAreAuthoritative`, `NoLintIsLost` | the opening, edits and close of an R file and of the DESCRIPTION interleave with lints of both and with file writes: the slot is sound, the queue drains, no analyze is cancelled without a successor; at rest what is shown was computed from the live buffers and facts, open buffers have won, and a discarded DESCRIPTION buffer does not come back |
| lint_index | `ShownIsCurrent`, `Settles` | harvests and `arity index` beside the server: all is linted against the installed index, and re-lints die out |
| lint_pull | `ShownIsCurrent`, `ParkedPullsAreAnswered` | a pull client gets its answers, and they are current |
| lint_hazards | `FindingsMatchText` | syntax errors, unknown rules, created files, added folders and panics together |
| read_requests | `AnsweredAtMostOnce`, `LiveReadsAreUnderWay`, `OutlineIsOfLiveBuffer`, `ResultsIndexTheLiveBuffer`, `ImplementsContract` | requests race edits, closes, cancellations, writes and panics: one response each; a result that reaches the client, other than that of a colorPresentation, is of the live buffer; every request whose job lives is answered; the protocol implements `ReadContract` |
| text_edits | `PatchedIndexIsRebuilt`, `PositionsAreConsistent`, `RenameFindsTheName`, `DiffEditIsExact`, `ParseIsOfTheText` | every short edit of every short text with newlines and wide characters; columns count UTF-16 units, as clients have them by default (the theorem has every encoding) |
| reparse | `RecoveredTreesAreLossless`, `CleanEditsAreExact` | every edit of the seed programs, most of which break them: whatever is missing, the tree holds the text byte for byte, but for two recoveries named in the module; when both texts are free of diagnostics, the reparse gives the tree of a full parse |
| reparse_exact | `ReparseIsFullParse` (violated) | without that condition it does not: a diagnostic only the statement list reports is lost |
| membership | `NoStaleMembers`, `RenamedAwayIsDropped`, `MembersAreRead`, `RootsFollow` | rename batches, watcher batches, added folders and disk changes in any order leave no stale member, text or root |
| disk_caches | `EntriesHaveTheirFiles`, `RecordedStaysRecorded`, `IdentityIsTrue`, `StalenessIsBounded`, `CleanMeansFormatted`, `FreshMeansSame` | the four caches, each written by two processes with crashes between any two writes |
| project_scope | `LayersArePairwise`, `ReplayIsExecution`, `RenameIsSoundInReaders` | the layered scope agrees with the pairwise one, the replay of top-level events with an execution, a rename with the reads bound to the name in the files that source it |
| analysis | `UnusedIsNeverRead`, `RenameKeepsBindings`, `NothingDeadRuns`, `OnlyReportedIsChanged`, `SuppressionIsStable` | every short program, run in every way: a binding reported unused is never the one a read meets, renaming a variable takes exactly the reads that meet it, and nothing reported unreachable is reached; every short file under `--fix`: only what was reported changes, lines stay apart, and a finding that stays is suppressed afterwards exactly if it was before |

`ShownIsCurrent` and `BuffersAreAuthoritative` speak of a system at rest (`Idle`:
channels and pools empty, nothing to pull). Under `FairSpec` rest is reached
(`Settles`), so they are not about states that never come.

Some properties carry a condition that the code needs and that its comments do not
state; each is a finding below, and the property without the condition is in the
module: `RecordedStaysRecorded` holds while one process at a time records,
`IdentityIsTrue` unless a provider was installed that is not the manifest of the root in use, `RenameIsSoundInReaders` for the
files that source the defining one, `ResultsIndexTheLiveBuffer` for all kinds of
read but colorPresentation, `RecoveredTreesAreLossless` but for an `if (` without a
condition (`DropsCondition`) and a default value that overruns its list
(`RepeatsDefault`), `UnusedIsNeverRead` and `RenameKeepsBindings` when no binding lies in
nested loops (`LoopsAreFlat`) and no function shadows the variable other than by a
parameter (`ShadowsByParameter`), `NothingDeadRuns` when `break` and `next` are
statements, `SuppressionIsStable` for steps in which no `skip` loses the statement it
stands above.

### What the code's comments say and the code does not keep

`PROJECT.json` quotes the comments. A cfg that is not in the list of runs is kept
to reproduce its counterexample; run TLC on it with the MC module of the
component.

| cfg | statement | how it fails |
|---|---|---|
| `ReparseExact` | `ReparseIsFullParse` | the statement list's own diagnostic (two expressions without a separator) disappears when one of them is reparsed alone: `1 a(a)` to `1 1(a)` |
| `LintReopenFindings` | `FindingsMatchText` | R `didClose` sends nothing to the lint thread; a request or result of the closed document passes for one of the reopened document |
| `LintConfig` | `SettingsTakeEffect` | `enqueue` keeps a pending request of equal version, and with it the old settings |
| `LintFolder` | `OpenDescriptionIsAuthoritative` | adding a folder re-reads an open DESCRIPTION from disk |
| `LintCreated` | `OpenRBuffersAreAuthoritative` | a created event of an open file writes the disk's bytes into the database |
| `LintRoxygen` | `MarkdownFollowsDescription` | the default is read from disk before the save, and the save's event is dropped |
| `LintUnchanged` | `ShownReportIsOfLiveText` | equal byte ranges at different lines give equal ids, so the pull of a newer version is answered `unchanged` |
| `LintPanic` | `QueueDrains` | a panic in a rule is swallowed by the pool together with its `done` |
| `ReadUnguarded` | `CancelledIsCaughtUpstream` | three kinds of read touch the database outside the catch; a write then unwinds the job, and no response is sent |
| `ReadUnguarded` | `EveryResultIndexesTheLiveBuffer` | a colorPresentation's read is registered without a version, so its edit over a range of the old text is delivered after the buffer changed |
| `DiffNeverMisplaces` of `TextEdits` | a range is found again after an edit recovered from two texts | with repeated text the recovered edit is not the one that was made, and a range moves to an equal neighbour; add it to `TextEdits.cfg` |
| `MembershipDrift` | `MembersAreTheSeed` | an added folder replaces the roots; a chain or swap in one batch drops a file that exists |
| `TreesAreLossless` of `Reparse` | the parser's trees tile the text | `if ( )` drops trivia, and what a default value takes from the `)` of its list on is held twice; add it to `ReparseExact.cfg` |
| `ValidatorIsOfTheManifest` of `RemoteSidecar` | an etag on disk belongs to the manifest beside it | one of the two writes fails or two processes cross; every later 304 keeps the old manifest |
| `IdentityIsAlwaysTrue` of `IndexCache` | the provider is the one its recorded identity names | a harvest of another root installs its provider and leaves the identity; needs two `Roots` |
| `RecordedStaysRecordedAlways` of `IndexCache` | entries are never lost | two processes read `meta.json` before either writes it |
| `RenameIsSound` of `LoadOrder` | a rename misses no read | a file that the defining script sources reads the name at run time and is not searched |
| `AnalysisAnywhere` | `UnusedIsNeverReadAnywhere` | a binding in a loop within a loop is read by the outer loop's next turn; a read in `x <- f(x)` resolves to its own target; a conditional assignment or a `<<-` hides the binding further out |
| `AnalysisAnywhere` | `RenameTakesItsRead` | `resolve_local` takes the first binding of the scope, also one after the read, and renames it without the read |
| `AnalysisAnywhere` | `NothingDeadRunsAnywhere` | a `break` inside an expression leaves its `repeat`, and the graph has no edge for it |
| `AnalysisAnywhere` | `SuppressionIsStableAnywhere` | a fix deletes the statement under a `skip`, and the directive silences the one after it |
| (no run) | a dynamic or unanalyzed `source()` poisons later reads | only an unresolved one does; a literal path to a file that is not analyzed leaves the binding as it was (`src/project/scope.rs:833`) |

The same causes have further effects, seen while the passing runs were designed
and excluded from them by their constants: with restarting versions a second
analyze may run beside the first, and a reopened document may not be linted at
all; a seed that cancels an analyze sends no re-lint, so a pull parked on that
document waits until the next edit. Findings of R siblings are not refreshed when
another R file is edited; `ShownIsCurrent` therefore asks for current DESCRIPTION
facts, markdown default and index, not for current sibling texts. An inverted
range of a `didChange` is applied as an empty one but recorded as it was sent;
`TextEdits` sends none.

### Bounds

*lint_\**: `MaxVersion`, `MaxOpens`, `MaxEdits`, `MaxConfigs`, `MaxDiskWrites`,
`MaxSeeds`, `MaxExternal` and `MaxPanics` bound what the environment does;
`budget` counts what is left. The server itself is unbounded: re-lints, lints and
harvests go on as long as the code lets them. `JobIds` are the names of analyze
jobs that hold a snapshot or whose `done` is not taken yet; with three of them the
lint thread may be two cancelled jobs behind. Two texts suffice to tell a stale
text from the live one and to flip back; an opening and edits of a document, with
files written beside them, give every order of supersession, coalescing and late
`done`. A document is opened a second time in `lint_hazards` (versions go on
growing) and in `LintReopenFindings.cfg` (they start again); the theorems hold for
any number of openings whose versions grow.

*read_requests*: one document, two request ids, two texts, versions up to 2, two
opens, one panic: a request may be overtaken by an edit, a cancellation and a
reopening while another is under way. Of the kinds, one for each way a job can
treat the snapshot it holds.

*text_edits*: texts of at most six bytes over a newline, an ASCII letter and
characters of two and four bytes, two of which share their first byte (a carriage
return is a character like another for this code); two changes: an edit at, before and
after each kind of boundary, and one that follows another.

*reparse*: one edit of up to two atoms replaced, anywhere in each seed; the seeds
have each construct of the fragment alone, nested, and followed by another.

*membership*: two directories of two files under a folder, one directory a nested
root, three changes; rename batches of one or two pairs including chains and
swaps, directories renamed with what they hold.

*disk_caches*: two packages, two installed versions, a server and one command
line process, one crash or failed write.

*project_scope*: three files, one package and one name; every table of facts in
which a file exports, reads and sources at most one of each; every triple of
scripts of three, two and one statements.

*analysis*: programs of at most four statements, nested ones counted, over one
variable: every binding form before, after and inside every construct that changes
the order of the text (functions, both kinds of loops, branches, handlers); jumps in
bodies of up to four statements inside a function, each followed by one more.
Two activations at a time and two calls in all: a closure is called while its
maker runs or after it returned. Files of three lines of every kind, indented ones
among them, and of five lines
of statements and region markers, under three selections of rules, with and without
unsafe fixes; one run, since a second starts from a file of the same kind. Two turns
(`MaxFixIterations`; the code has ten), so that a run also ends with fixes left.

`Rest`, where a module has it, lets the system stay at rest when the
environment's budget is spent. `CHECK_DEADLOCK FALSE` is said where the
environment's bound really ends the behaviour.

### Fairness

`FairSpec` of `LintPipeline` assumes weak fairness of the main loop's receiving,
of the lint thread, of the end of an analyze, of the end of a harvest and of the
client's announced pulls. Threads that have a message take it, jobs on a pool run
and end (rules and harvests terminate), and a client that was told to refresh
pulls. Users, watchers, other processes and panics owe nothing. `Settles` and
`ParkedPullsAreAnswered` hold under it in `LintIndex` and `LintPull`, whose
constants exclude panics. `Spec` of `ReadRequests` has the same fairness of the
main loop, the lint thread and each job; `ImplementsContract` is the refinement
with the contract's liveness, where a job that panicked abandons its request.
The other modules state safety only.

## Proofs

The theorems hold for any values of the constants that satisfy the modules'
assumptions: any set of documents, texts, request ids, files and names.

- `TypeCorrect`: `Spec => []TypeOK`, from `DocsAssumption` and
  `BoundsAssumption`, one lemma per action. It also gives the other proofs the
  ranges they need.

- `FindingsAreOfTheText`: `~RestartVersions` implies `Spec => []FindingsMatchText`.
  `FindingsMatchText` compares only the cache with the buffer; what makes it
  inductive is `VersionsNameTexts`, which says the same of every place a version
  goes through. `Stated(last, text, v, t)` says that version `v` is at most the
  last one the client gave, and if it is that one then `t` is the buffer's text;
  the invariant is that statement about the open document (`Opened`), the lint
  channel (`Queued`), the pending requests (`Pending`), the jobs (`Running`), the
  messages to the main loop (`Sent`) and the cached findings (`Cached`). Since a
  new version is always above the last one, a step of the client keeps all older
  statements true whatever is still under way. `LintReopenFindings.cfg` shows that the
  hypothesis is needed.

- `OneAnalyzeAtATime`: `~RestartVersions` implies `Spec => []AtMostOneAnalyze`.
  The invariant `SlotIsSound` adds that requests of a document are queued in the
  order of their versions, none below the pending one (`Ordered`), that a `done`
  which does not name the slot is behind the versions that may still take it
  (`DonesBehind`), and that at most one names it (`DoneIsUnique`). It rests on
  `VersionsNameTexts`. Without the hypothesis a late `done` can name a running
  job.

- `QueueKeepsDraining`: `MaxPanics = 0` implies `Spec => []QueueDrains`. The
  invariant `Draining` says at every step, not only when the thread sleeps, that
  a taken slot is owed a `done` by a job or by a signal under way (`SlotIsOwed`)
  and that a thread at `select!` with a free slot has nothing pending
  (`PendingWaits`). `LintPanic.cfg` shows that the hypothesis is needed.

- `LintsAreSucceeded`, `OpenBuffersWin`, `ShownBecomesCurrent`: `Ordinary` implies
  that no lint is unwound without a successor (`NoLintIsLost`), that open buffers win
  over the disk (`BuffersAreAuthoritative`) and, with `OneReport`, that what the client
  shows at rest is current (`ShownIsCurrent`). The properties speak of rest; the
  invariants say at every step what is under way that will put things right.
  `BuffersWin`: an open document has the buffer's text in the database or a live
  request queued or pending, and no message behind that request reads the disk
  again. `Current`: an open document shows findings of its buffer and of the facts in
  the database, or its lint is queued, pending, running, answered on the channel, to
  be pulled, or ordered by a `relintAll` (`Covered`); findings of older facts are
  followed by such an order (`StaleIsFollowed`). The hypotheses leave out what TLC
  refutes: versions counted again from 1 (`LintReopenFindings.cfg`), a panic
  (`LintPanic.cfg`), a seed over open buffers (`LintFolder.cfg`) or a created event
  of an open file (`LintCreated.cfg`), a change of settings (`LintConfig.cfg`) and two
  texts whose findings have one result id (`LintUnchanged.cfg`). Nothing else is
  assumed: any number of documents, edits, watcher events of changed files, harvests
  and pulls, in push and in pull mode.

- `ReadTypes`, `AtMostOneResponse`: types of `ReadRequests`, and `AnsweredAtMostOnce`.
  What makes the second inductive is that an id is in `live_reads` only while it
  has no response, and that every response is sent by the step that takes the id
  out.

- `ReadsFollowContract`: each step of `ReadRequests` is a step of `ReadContract`
  or leaves its variables alone. The contract's fairness is checked by TLC only.

- `LiveReadsAreExact`: `Spec => []LiveReadsAreUnderWay`. The invariant `Tracked`
  follows an id from the queue to the pool to the reply.

- `OutlinesFollowTheBuffer`: `Spec => []OutlineIsOfLiveBuffer`. The cell of a document
  is replaced with its buffer, while a job may still hold the old one; the invariant
  `OneTextPerCell` says that all who hold a cell, the documents and the jobs, claim
  the same text for it, and that what is in it is that text's outline.

- `ResultsAreOfTheLiveBuffer`: `~RestartVersions /\ Spec => ResultsIndexTheLiveBuffer`,
  an action property: the step that sends a result finds the text the result indexes.
It speaks of every kind but colorPresentation, which registers no version; without
that exception the statement is false (`EveryResultIndexesTheLiveBuffer`).
  The gate compares versions, so the invariant says that whatever carries a version,
  at any stage, carries the text that version names. When versions start again at 1
  the gate lets a result of the closed buffer through, as it does in the code.

- `PatchIsRebuild`: for every text and every edit of it, `Patch` of the index
  is the index of the new text. `MappedRangeKeepsItsBytes`: a range
  the edit does not touch covers the same bytes after mapping. Both are about the
  operators, by cases on where a byte lies relative to the edit.

- `IndexIsRebuilt`, `PositionsConvert`, `RecoveredEditsAreExact`,
  `ParsesAreOfTheText`, `RenamesFindTheName`: the five invariants of the run
  `text_edits`, and `DocumentIsTyped`, under `BytesAssumption` and
  `TextEditsAssumption` only: any alphabet with characters of one to four bytes, any
  texts, insertions, positions and encoding, any number of changes. The inductive
  invariant is `InStep /\ Anchored`. `InStep` says that the index is that of the
  text, that a pending request is for the text of the buffer, and that without one the
  parse is of it; nothing is said of the staged edits, since `ReparseIsExact`
  shows that a parse is of the text it was asked for whatever was staged. `Anchored`
  says of a prepared rename that its edits lead where the buffer went (`Follows`): if
  every edit fits the text before it, the last text is the buffer's, and the range
  mapped through them holds the marked bytes of the name. That is an implication
  because an edit is recorded as the client sent it and taken as the buffer coerced it;
  where the two differ the edit does not fit, and `RenameTarget` looks no further.

  A chain of edits is a fold. `FoldTrace` turns it into a sequence of texts or ranges,
  one after each edit (`IsTrace`), and `FollowsMore` extends two such sequences, the
  one of `edits_produce` and the one of `map_range`, side by side. A column is the
  distance from the line's start minus the `Shortfall` of the wide characters between;
  it is a fold over a set, and `SumSame` shows by induction on the cardinality that it
  does not depend on the order, so that `ShortfallAdd` can take any character out of
  it. With that, columns grow with the offsets of characters, which gives the round
  trip (`RoundTrip`) and where the walk ends (`Resolves`).

- `ScopeTypes`, `LayersHoldTheClique`, `SeeingIsBeingSeen`: the tables of
  `ProjectScope` are well typed; the counted layers answer what the pairwise
  definition does, for any number of files, roots and names; `sees` and `seen_by`
  are inverse.

- `ReplaysAreExecutions`, `RenameReachesReaders`: `LoadOrder` for any scripts of any
  statements. Assumed: there are finitely many scripts, and the markers for "no file", "not
  analysed" and "computed" are no scripts (`LoadAssumption`). `LoadedIsLeast`: what a
  script loads is the least set closed under `source()`, since `Reached` gains a file in
  each step until it is closed. `RunsAreGood`, by induction on the depth of a run and along the
  text: a run that ends leaves the definition of one of the files it loads that define
  the name, or what was live before if none does. The invariant between replay and run is
  `Agree`: after each statement the replay names what is live or gives it up as
  ambiguous, and each read it has bound met what it says. For the rename
  every read must be met once: by `NoReturn` a file that is run again inside its own run
  never ends. The recursive functions (`Reached`, `Replayed`, `Executed`, `Run`) are shown
  to exist by `StepsExist`.
- `IndexIsReadable`, `RecordedIsKept`, `IdentityHolds`: the package index under any
  number of processes, cache roots, packages and crashes. `EntriesHaveTheirFiles`
  speaks of `meta.json` only; `FilesKnown` says the same of the manifest a build has
  read and of what it is about to write, since another build may sit between its two
  writes. `RecordedKnown` says that what was recorded is in the manifest each build
  extends, as long as no two extend one at a time. `StampsKnown` says that no
  identity names a rewrite that has not happened, so an equal stamp is the same file.

- `HitsAreFormatted`: `NoMarkdownInDcf` implies `Spec => []CleanMeansFormatted`. The
  invariant `PointsAreFixed` says that every point on disk or in a run's memory is a
  fixed point under the version and style it is filed by, `CleanIsFormatted` that a
  file counted as unchanged is one. The hypothesis, that the formatter of a
  DESCRIPTION does not look at the markdown default, is what lets the key leave that
  default out for those files.

- `ManifestsAreRecent`, `ValidatorsAreNotNewer`: the downloaded export lists under any
  processes, editions, faults and times, from `Sane` (a positive time to live, at least
  one edition). `StalenessIsBounded` speaks of a process that has its manifest;
  `DiskIsOld` says at every step that the manifest on disk was current at the time
  beside it and that the validator is not newer, and `Knows` what a process between its
  two writes knows of the disk, so that a crash there, or a removal of the cache, leaves
  `DiskIsOld` true. It rests on one process fetching at a time (`OneBusy`) and on no
  write failing, as the property says. The second theorem states that these are the only
  ways to a validator newer than its manifest, which `ValidatorIsOfTheManifest` denies.

- `SettingsAreFresh`: `Depth \in Nat` implies `Spec => []FreshMeansSame`. The property
  compares a cached entry with the files there are; the invariant `Settled` says that
  there were files and repositories (`Past`) which gave the entry its fingerprint and its
  settings, and which agree with the present ones wherever their stamps do, since a
  stamp is not given twice. The rest is about the operators: the directories looked at
  are the first few, and at most the last has a file (`LookedIsAPrefix`), so equal
  candidates with equal stamps have the same source (`SameSource`), and a chain without
  an error is read the same from files that agree along it (`SameChain`).

- `MembersAreReadAtRest`, `RenamesDropTheOldPaths`: the members of the workspace under
  any paths, roots, exclusions and batches. `UnreadIsDue` says at every step that a
  member whose text differs from the disk's has its deletion under way, or is still on
  the disk and has its change under way, in the watcher or in a batch; `GoneIsDue` that
  a member a rename took away has the rename's message under way. They need no
  hypothesis.

- `RootsFollowRenames`, `NoMemberIsStale`: the same with `[][AddsInOrder]_vars`, a client
  that does not add a folder while it has still to tell that this folder was renamed.
  `RootsAreCarried` says that there are sets of roots, one after each message under
  way, that start with the server's, hold what each message makes of the one before,
  and end in the client's. `StaleIsDue` says that a member outside the client's folders
  has its removal under way; a root that the client no longer has is one that a message
  moves, and that message takes the members below it along. Without the hypothesis
  `RootsFollow` is false: the server seeds the added folder, and then moves its root
  when the late notification comes. The run `membership` is too short to reach it.

  The loops over the paths are folds, that is recursive functions on sets of positions.
  `FoldExists`, here as in `TextProofs`, proves from the well-foundedness of the
  naturals (`WFMin`) that such a function exists, `RenameFold` and `NoticeFold` turn the fold into a sequence with one
  value after each path, and `CountUp` carries an invariant along that sequence
  (`SwappedTo`, `NoticedTo`).

- `FixesChangeOnlyTheReported`: `FixSpec => OnlyReportedIsChanged`, from
  `FixAssumption`: the rules' names are none of the words for a scope, and the files
  a run starts from are `WellFormed`. `WellFormed` is the inductive invariant, an
  action property's like any other's: a deletion may take a line feed only because
  another stays between what it leaves (`DeletionSpanIs`, `CommentDeletionSpanIs`), and
  that holds of the next turn's text only if it held of this one's. Every eligible fix
  cuts one statement or directive with blanks around it, or puts one statement in the
  place of another (`FixesAre`); the sweep keeps fixes that lie apart
  (`AcceptedIs`); and splicing them from the right keeps `Lineage`: each atom of the
  new text comes from one of the old text, in the same order, and the others are
  exactly those a fix cuts. `IsUntouched` says that the text left of the last splice
  is as it was, which is why the offsets of the fixes still to come are right. The
  sweep and the splices are folds; `SweepTrace` and `SpliceTrace` turn each into a
  sequence of texts.

- `FixesKeepSuppressions`: `FixSpec => SuppressionIsStable`. A directive that is cut
  out was outdated (`CutIsOutdated`), so it suppressed no issue that is there
  (`UsedStay`): if the rule it names had run, the issue would have made it used, and
  if not, only a `skip` with nothing after it is outdated. It was no `on` either, which
  names no rule (`ClosersStay`). So a region that is left ends where it ended
  (`OffCovers`), and a `skip` that keeps its statement attaches to it
  (`SkipCovers`). What it does not say is what the finding `SuppressionIsStableAnywhere`
  refutes: a `skip` whose statement is deleted.

Each inductive invariant was checked by TLC on small instances before it was proved
(`RootsAreCarried` by the least sets that are carried, `Follows` by the folds
instead of all traces), except `Settled`, which speaks of files of the
past that no variable holds. Only model-checked: all of `Reparse`, and of the
analyses `UnusedIsNeverRead`, `RenameKeepsBindings` and `NothingDeadRuns`. Out of the prover's reach: liveness under fairness (`Settles`, `ParkedPullsAreAnswered`, the liveness half of
`ImplementsContract`), and what a recursive operator computes for every input
(`RParser`, `Reparse`, `Bindings`, `ControlFlow`). A recursive function is within
reach: `StepsExist` and `FoldExists` prove that one exists.

## Not modelled

Within the modelled components: `willRenameFiles` edits of `source()` paths, inlay
hints and progress, `NAMESPACE` events beyond the re-lint they cause, exclude
patterns (a set of paths), panics on the lint thread itself (its `guard` catches
them between steps), several settings per workspace in one run, R files outside
a package and Rd buffers, which are never linted; DESCRIPTION `Collate`, S3 and
native registrations, imports and promises in the project scope; the per-package
export lists fetched after the remote manifest; in the semantic model data masks,
quoting, promises of default values, replacement targets, magrittr's `.` and the
complexity counts; the checks the two rules make of a finding's shape before they
report it; the comments' syntax, the rules about spelling and reasons of directives,
directives between arguments and in a DESCRIPTION.

Components left out, because they are pure conversions of one input with no state,
no order and no partner, where a model would be the program over again: the other lint
rules, the decoders of installed packages (rds, lazy-load databases, Rd), roxygen
and Rd conversion, the configuration schema, the printing of diffs. Because they
hold nothing that another part reads: progress reporting, the command line's
drivers, the transport, wasm and the editor extensions. They are most of the
code, which is why the modelled share of it is small. `PROJECT.json` has a
component for each with its reason.
