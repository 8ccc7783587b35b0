---------------------------- MODULE ReadRequests ----------------------------
(***************************************************************************)
(* Read requests of the language server: hover, completion, navigation,    *)
(* outline, formatting, workspace search, rename.                          *)
(*                                                                         *)
(*   client --request--> main loop --ReadJob--> lint thread                *)
(*   lint thread --snapshot--> read pool --ReadReply--> main loop --> client*)
(*                                                                         *)
(* The main loop records the id in live_reads and answers through one gate *)
(* (on_read_reply); $/cancelRequest answers through the same table.  The   *)
(* lint thread mints the snapshot a job reads and is also the one writer:  *)
(* a write cancels the live snapshots and waits until they are dropped.    *)
(* An answer keeps the text its ranges index instead of the ranges.        *)
(***************************************************************************)
EXTENDS Naturals, Sequences, FiniteSets

CONSTANTS
  RDocs,            \* URIs of R documents
  OtherDocs,        \* URIs of DESCRIPTION documents
  Ids,              \* request ids, each used once by the client
  Kinds,            \* the kinds of request that occur
  Texts,            \* what a buffer may hold
  None,             \* absent: no read, no document, no text
  RestartVersions,  \* a reopened document counts its versions from 1 again
  FormatDescriptions, \* [format] description
  MaxVersion,       \* the highest version a client gives a document
  MaxOpens,         \* didOpen notifications, over all documents
  MaxPanics         \* read jobs with a bug that panics

Docs == RDocs \cup OtherDocs

\* own: reads only its own document behind Cancelled::catch (hover,
\*      completion, signature help, definition).
\* format: serves DESCRIPTION as well.      outline: documentSymbol.
\* direct: straight on the read pool (highlight, folding, selection, colors,
\*      links, tokens, code action).
\* presentation: colorPresentation, as direct, and tied to no version.
\* prepare: prepareRename, in the main loop.
\* rename: also reads other documents, outside the catch once it falls back.
\* hierarchy: no document, all of it behind the catch.
\* symbols: workspace/symbol, no document, locates its hits outside the catch.
AllKinds == {"own", "format", "outline", "direct", "presentation", "prepare",
             "rename", "hierarchy", "symbols", "unknown"}
DocumentLess == {"hierarchy", "symbols"}

ASSUME ReadAssumption ==
  /\ IsFiniteSet(Ids) /\ Texts # {} /\ None \notin Docs \cup Texts \cup Ids
  /\ RDocs \cap OtherDocs = {}
  /\ Kinds \subseteq AllKinds
  /\ {RestartVersions, FormatDescriptions} \subseteq BOOLEAN
  /\ {MaxVersion, MaxOpens, MaxPanics} \subseteq Nat

VARIABLES
  \* main loop: GlobalState
  version,   \* version of each open document, 0 when closed
  lastVersion, \* the highest version the client gave a document
  buffer,    \* its text
  cell,      \* its document_symbols cell, an index into outlines
  live,      \* live_reads: the (uri, version) each id in flight reads
  \* shared
  outlines,  \* the OnceLock cells: text of the stored outline, or None
  \* channels
  lintQ,     \* main loop -> lint thread: lint requests
  readQ,     \* main loop -> lint thread: read jobs
  outQ,      \* read pool -> main loop: replies
  \* lint thread
  db,        \* the text the database tracks for each document, or None
  writing,   \* the write that waits for snapshots to be dropped, or None
  \* read pool
  pool,      \* jobs queued or running
  \* client
  asked,     \* ids it has used
  answers,   \* what it received for each id
  died,      \* ids whose job unwound into the task pool
  budget

docVars == <<version, lastVersion, buffer, cell, outlines>>
vars == <<docVars, live, lintQ, readQ, outQ, db, writing, pool, asked,
          answers, died, budget>>

-----------------------------------------------------------------------------
IsOpen(d) == d # None /\ version[d] > 0

\* r_doc_snapshot / doc_snapshot_any, and the early returns of the handlers.
Serves(kind, d) ==
  \/ kind \in DocumentLess
  \/ kind # "unknown" /\ d \in RDocs /\ IsOpen(d)
  \/ kind = "format" /\ d \in OtherDocs /\ IsOpen(d) /\ FormatDescriptions

Answer(outcome, kind, d, text, others) ==
  [outcome |-> outcome, kind |-> kind, doc |-> d, text |-> text, others |-> others]
Result(kind, d, text, others) == Answer("result", kind, d, text, others)
Refusal(outcome) == Answer(outcome, None, None, None, <<>>)

\* What a handler captures when it accepts a request: (uri, version, buffer)
\* and, for an outline, the cell to fill.
Job(id, kind, d) ==
  [id |-> id, kind |-> kind, doc |-> d,
   text |-> IF d = None THEN None ELSE buffer[d],
   cell |-> IF d = None THEN 0 ELSE cell[d]]

\* The document a request registers with the version it reads:
\* on_color_presentation captures a buffer like the others and registers None.
VersionRead(kind, d) == IF kind = "presentation" THEN None ELSE d

\* register_read.
Register(id, d) ==
  live' = [live EXCEPT ![id] = [doc |-> d,
                                version |-> IF d = None THEN 0 ELSE version[d]]]

\* A pool job; `view` is its snapshot, None for a job that needs none.
Started(job, view) == [job |-> job, view |-> view, cancelled |-> FALSE,
                       phase |-> "read", found |-> None]

Init ==
  /\ version = [d \in Docs |-> 0]
  /\ lastVersion = [d \in Docs |-> 0]
  /\ buffer \in [Docs -> {CHOOSE t \in Texts : TRUE}]
  /\ cell = [d \in Docs |-> 0]
  /\ live = [id \in Ids |-> None]
  /\ outlines = <<>>
  /\ lintQ = <<>> /\ readQ = <<>> /\ outQ = <<>>
  /\ db = [d \in Docs |-> None]
  /\ writing = None
  /\ pool = {}
  /\ asked = {} /\ answers = [id \in Ids |-> <<>>] /\ died = {}
  /\ budget = [opens |-> MaxOpens, panics |-> MaxPanics]

-----------------------------------------------------------------------------
(* Documents.                                                              *)

\* (wrong) An edit leaves the outline cell of the text it replaces in place.
SetDocumentKeepingCell(d, v, text) ==
  /\ version' = [version EXCEPT ![d] = v]
  /\ lastVersion' = [lastVersion EXCEPT ![d] = IF v > @ THEN v ELSE @]
  /\ buffer' = [buffer EXCEPT ![d] = text]
  /\ IF cell[d] = 0
     THEN outlines' = Append(outlines, None) /\ cell' = [cell EXCEPT ![d] = Len(outlines) + 1]
     ELSE UNCHANGED <<outlines, cell>>
  /\ lintQ' = Append(lintQ, [doc |-> d, text |-> text])

\* Document::new: a buffer with an empty outline cell.
SetDocument(d, v, text) ==
  /\ version' = [version EXCEPT ![d] = v]
  /\ lastVersion' = [lastVersion EXCEPT ![d] = IF v > @ THEN v ELSE @]
  /\ buffer' = [buffer EXCEPT ![d] = text]
  /\ outlines' = Append(outlines, None)
  /\ cell' = [cell EXCEPT ![d] = Len(outlines) + 1]
  /\ lintQ' = Append(lintQ, [doc |-> d, text |-> text])

DidOpen(d, text) ==
  /\ version[d] = 0
  /\ budget.opens > 0
  /\ budget' = [budget EXCEPT !.opens = @ - 1]
  /\ LET first == IF RestartVersions THEN 1 ELSE lastVersion[d] + 1
     IN  first <= MaxVersion /\ SetDocument(d, first, text)
  /\ UNCHANGED <<live, readQ, outQ, db, writing, pool, asked, answers, died>>

DidChange(d, text) ==
  /\ IsOpen(d)
  /\ version[d] < MaxVersion
  /\ SetDocument(d, version[d] + 1, text)
  /\ UNCHANGED <<live, readQ, outQ, db, writing, pool, asked, answers, died, budget>>

\* Requests in flight stay live; their replies meet the version gate.
DidClose(d) ==
  /\ IsOpen(d)
  /\ version' = [version EXCEPT ![d] = 0]
  /\ UNCHANGED <<lastVersion, buffer, cell, outlines, live, lintQ, readQ, outQ,
                 db, writing, pool, asked, answers, died, budget>>

-----------------------------------------------------------------------------
(* Requests.                                                               *)

Ask(id) == id \notin asked /\ asked' = asked \cup {id}

\* Unknown method, closed document, wrong grammar, formatting switched off.
AskDeclined(id, kind, d) ==
  /\ Ask(id)
  /\ ~Serves(kind, d)
  /\ answers' = [answers EXCEPT ![id] =
       Append(@, Refusal(IF kind = "unknown" THEN "error" ELSE "null"))]
  /\ UNCHANGED <<docVars, live, lintQ, readQ, outQ, db, writing, pool, died, budget>>

\* on_prepare_rename answers in the main loop.
AskPrepare(id, d) ==
  /\ Ask(id)
  /\ Serves("prepare", d)
  /\ answers' = [answers EXCEPT ![id] = Append(@, Result("prepare", d, buffer[d], <<>>))]
  /\ UNCHANGED <<docVars, live, lintQ, readQ, outQ, db, writing, pool, died, budget>>

\* on_document_symbol serves the outline that is already in the cell.
OutlineReady(d) == cell[d] > 0 /\ outlines[cell[d]] # None

\* Straight on the read pool, without a snapshot.
AskDirect(id, kind, d) ==
  /\ Ask(id)
  /\ Serves(kind, d)
  /\ kind \in {"direct", "presentation"} \/ (kind = "outline" /\ OutlineReady(d))
  /\ Register(id, VersionRead(kind, d))
  /\ pool' = pool \cup {Started(Job(id, kind, d), None)}
  /\ UNCHANGED <<docVars, lintQ, readQ, outQ, db, writing, answers, died, budget>>

\* dispatch_read: the lint thread is to mint a snapshot for the job.
AskViaLintThread(id, kind, d) ==
  /\ Ask(id)
  /\ Serves(kind, d)
  /\ kind \in {"own", "format", "rename", "hierarchy", "symbols"}
     \/ (kind = "outline" /\ ~OutlineReady(d))
  /\ Register(id, d)
  /\ readQ' = Append(readQ, Job(id, kind, d))
  /\ UNCHANGED <<docVars, lintQ, outQ, db, writing, pool, answers, died, budget>>

\* (wrong) $/cancelRequest answers although the reply may have gone out.
CancelAlways(id) ==
  /\ live[id] # None \/ Len(answers[id]) = 1
  /\ live' = [live EXCEPT ![id] = None]
  /\ answers' = [answers EXCEPT ![id] = Append(@, Refusal("cancelled"))]
  /\ UNCHANGED <<docVars, lintQ, readQ, outQ, db, writing, pool, asked, died, budget>>

\* $/cancelRequest; silent for an id that is not live.
Cancel(id) ==
  /\ live[id] # None
  /\ live' = [live EXCEPT ![id] = None]
  /\ answers' = [answers EXCEPT ![id] = Append(@, Refusal("cancelled"))]
  /\ UNCHANGED <<docVars, lintQ, readQ, outQ, db, writing, pool, asked, died, budget>>

-----------------------------------------------------------------------------
(* The lint thread.                                                        *)

HoldsSnapshot(j) == j.view # None

\* One job of the read channel: a snapshot of the database as it is now.
MintSnapshot ==
  /\ writing = None /\ readQ # <<>>
  /\ pool' = pool \cup {Started(Head(readQ), db)}
  /\ readQ' = Tail(readQ)
  /\ UNCHANGED <<docVars, live, lintQ, outQ, db, writing, asked, answers, died, budget>>

\* One lint request: superseded by a later one of its document, without effect
\* on the database, or a write, which first cancels the live snapshots.
HandleLint ==
  /\ writing = None /\ lintQ # <<>>
  /\ LET r == Head(lintQ)
         superseded == \E i \in 2 .. Len(lintQ) : lintQ[i].doc = r.doc
     IN  IF superseded \/ db[r.doc] = r.text
         THEN UNCHANGED <<writing, pool>>
         ELSE /\ writing' = r
              /\ pool' = {[j EXCEPT !.cancelled = HoldsSnapshot(j)] : j \in pool}
  /\ lintQ' = Tail(lintQ)
  /\ UNCHANGED <<docVars, live, readQ, outQ, db, asked, answers, died, budget>>

\* The setter returns once every snapshot is dropped.
FinishWrite ==
  /\ writing # None
  /\ \A j \in pool : ~HoldsSnapshot(j)
  /\ db' = [db EXCEPT ![writing.doc] = writing.text]
  /\ writing' = None
  /\ UNCHANGED <<docVars, live, lintQ, readQ, outQ, pool, asked, answers, died, budget>>

-----------------------------------------------------------------------------
(* The read pool.                                                          *)

\* file_text_is: the snapshot's parse describes the buffer of the request.
TracksBuffer(j) == HoldsSnapshot(j) /\ j.view[j.job.doc] = j.job.text

\* (wrong) The cached parse is used whatever text it is of.
OwnTextUnchecked(j) ==
  IF HoldsSnapshot(j) /\ ~j.cancelled /\ j.view[j.job.doc] # None
  THEN j.view[j.job.doc] ELSE j.job.text

\* The text whose parse answers the request: the snapshot's while it is valid,
\* a fresh parse of the request's own buffer otherwise.
OwnText(j) ==
  IF HoldsSnapshot(j) /\ ~j.cancelled /\ TracksBuffer(j)
  THEN j.view[j.job.doc] ELSE j.job.text

\* get_or_init: the first outline stored in a cell stays.
Outline(j) == IF outlines[j.job.cell] # None THEN outlines[j.job.cell] ELSE OwnText(j)

\* What the job has when its guarded part is over.
Found(j) ==
  CASE j.job.kind \in DocumentLess ->
         IF j.cancelled THEN Refusal("null") ELSE Result(j.job.kind, None, None, j.view)
    [] j.job.kind = "outline" -> Result(j.job.kind, j.job.doc, Outline(j), <<>>)
    [] j.job.kind = "rename" ->
         IF j.cancelled THEN Refusal("null")
         ELSE Result(j.job.kind, j.job.doc, OwnText(j), j.view)
    [] OTHER -> Result(j.job.kind, j.job.doc, OwnText(j), <<>>)

\* location_in / text_edit_in outside Cancelled::catch, of the tracked files
\* that hold a hit; a rename reads them there once it fell back to its own parse.
Unguarded(j) ==
  /\ ~j.cancelled
  /\ \/ j.job.kind = "symbols" /\ \E d \in Docs : j.view[d] # None
     \/ j.job.kind = "rename" /\ j.view[j.job.doc] # None /\ ~TracksBuffer(j)

SendReply(id, answer) == outQ' = Append(outQ, [id |-> id, answer |-> answer])

StoreOutline(j) ==
  outlines' = IF j.job.kind = "outline" THEN [outlines EXCEPT ![j.job.cell] = Outline(j)]
              ELSE outlines

\* run_read up to its last guarded read, and its reply if that is all.
RunRead(j) ==
  /\ j \in pool /\ j.phase = "read"
  /\ StoreOutline(j)
  /\ IF Unguarded(j)
     THEN /\ pool' = (pool \ {j}) \cup {[j EXCEPT !.phase = "locate", !.found = Found(j)]}
          /\ UNCHANGED outQ
     ELSE /\ pool' = pool \ {j}
          /\ SendReply(j.job.id, Found(j))
  /\ UNCHANGED <<version, lastVersion, buffer, cell, live, lintQ, readQ, db,
                 writing, asked, answers, died, budget>>

\* The unguarded reads of a snapshot that is still valid.
Locate(j) ==
  /\ j \in pool /\ j.phase = "locate" /\ ~j.cancelled
  /\ pool' = pool \ {j}
  /\ SendReply(j.job.id, j.found)
  /\ UNCHANGED <<docVars, live, lintQ, readQ, db, writing, asked, answers, died, budget>>

\* The unguarded reads meet the pending write: Cancelled unwinds out of
\* run_read into the task pool, which logs it.
UnwindUnguarded(j) ==
  /\ j \in pool /\ j.phase = "locate" /\ j.cancelled
  /\ pool' = pool \ {j}
  /\ died' = died \cup {j.job.id}
  /\ UNCHANGED <<docVars, live, lintQ, readQ, outQ, db, writing, asked, answers, budget>>

\* A bug in the job panics; the task pool logs it.
Panic(j) ==
  /\ j \in pool /\ budget.panics > 0
  /\ budget' = [budget EXCEPT !.panics = @ - 1]
  /\ pool' = pool \ {j}
  /\ died' = died \cup {j.job.id}
  /\ UNCHANGED <<docVars, live, lintQ, readQ, outQ, db, writing, asked, answers>>

-----------------------------------------------------------------------------
(* on_read_reply: the one gate a reply passes.                             *)

\* (wrong) A reply the document moved past is dropped without a response.
OnReadReplyDropsStale ==
  /\ outQ # <<>>
  /\ LET id == Head(outQ).id
     IN  /\ live' = [live EXCEPT ![id] = None]
         /\ answers' =
              IF live[id] = None \/ (live[id].doc # None /\ version[live[id].doc] # live[id].version)
              THEN answers
              ELSE [answers EXCEPT ![id] = Append(@, Head(outQ).answer)]
  /\ outQ' = Tail(outQ)
  /\ UNCHANGED <<docVars, lintQ, readQ, db, writing, pool, asked, died, budget>>

\* (wrong) The response goes out and the id stays in live_reads.
OnReadReplyLeaky ==
  /\ outQ # <<>>
  /\ LET id == Head(outQ).id
     IN  answers' = IF live[id] = None THEN answers
                    ELSE [answers EXCEPT ![id] = Append(@, Head(outQ).answer)]
  /\ outQ' = Tail(outQ)
  /\ UNCHANGED <<docVars, live, lintQ, readQ, db, writing, pool, asked, died, budget>>

IsCurrent(read) == read.doc = None \/ version[read.doc] = read.version

\* Dropped when the id is no longer live, ContentModified when the document
\* moved past the version it read.
OnReadReply ==
  /\ outQ # <<>>
  /\ LET id == Head(outQ).id
         answer == Head(outQ).answer
     IN  /\ live' = [live EXCEPT ![id] = None]
         /\ answers' =
              IF live[id] = None THEN answers
              ELSE [answers EXCEPT ![id] =
                      Append(@, IF IsCurrent(live[id]) THEN answer ELSE Refusal("modified"))]
  /\ outQ' = Tail(outQ)
  /\ UNCHANGED <<docVars, lintQ, readQ, db, writing, pool, asked, died, budget>>

-----------------------------------------------------------------------------
DocsOf(kind) == IF kind \in DocumentLess THEN {None} ELSE Docs

ClientStep ==
  \/ \E d \in Docs, text \in Texts : DidOpen(d, text) \/ DidChange(d, text)
  \/ \E d \in Docs : DidClose(d)
  \/ \E id \in Ids, kind \in Kinds, d \in Docs \cup {None} :
       /\ d \in DocsOf(kind)
       /\ AskDeclined(id, kind, d) \/ AskDirect(id, kind, d) \/ AskViaLintThread(id, kind, d)
  \/ "prepare" \in Kinds /\ \E id \in Ids, d \in Docs : AskPrepare(id, d)
  \/ \E id \in Ids : Cancel(id)

LintThreadStep == MintSnapshot \/ HandleLint \/ FinishWrite
PoolStep(id) == \E j \in pool :
  j.job.id = id /\ (RunRead(j) \/ Locate(j) \/ UnwindUnguarded(j))

Next ==
  \/ ClientStep
  \/ LintThreadStep
  \/ \E id \in Ids : PoolStep(id)
  \/ \E j \in pool : Panic(j)
  \/ OnReadReply

\* The pool runs every job, select! serves the read channel and the lint
\* channel, and the main loop drains its channel.  The client owes nothing.
Fairness ==
  /\ WF_vars(OnReadReply)
  /\ SF_vars(MintSnapshot) /\ SF_vars(HandleLint) /\ WF_vars(FinishWrite)
  /\ \A id \in Ids : WF_vars(PoolStep(id))

Spec == Init /\ [][Next]_vars /\ Fairness

-----------------------------------------------------------------------------
TypeOK ==
  /\ version \in [Docs -> 0 .. MaxVersion]
  /\ buffer \in [Docs -> Texts]
  /\ DOMAIN live = Ids /\ DOMAIN answers = Ids
  /\ asked \subseteq Ids /\ died \subseteq asked
  /\ writing = None \/ writing \in [doc : Docs, text : Texts]
  /\ \A j \in pool : j.job.id \in asked

\* A request has at most one response: the reply, the cancellation and the
\* ContentModified all take the id out of live_reads first (state.rs
\* on_read_reply and $/cancelRequest), and nothing answers an id not in it.
AnsweredAtMostOnce == \A id \in Ids : Len(answers[id]) <= 1

UnderWay(id) ==
  \/ \E i \in 1 .. Len(readQ) : readQ[i].id = id
  \/ \E j \in pool : j.job.id = id
  \/ \E i \in 1 .. Len(outQ) : outQ[i].id = id

\* live_reads is exact: an id it holds is being worked on (or its job died),
\* and has no answer yet.  A leak here is a client that waits forever.
LiveReadsAreUnderWay ==
  \A id \in Ids : live[id] # None =>
    (UnderWay(id) \/ id \in died) /\ answers[id] = <<>>

\* The outline a documentSymbol request is served from its cell is the outline
\* of the live buffer: edits replace the cell, and a job fills the cell it
\* captured, however late it runs.
OutlineIsOfLiveBuffer ==
  \A d \in Docs : IsOpen(d) /\ OutlineReady(d) => outlines[cell[d]] = buffer[d]

NewAnswers(id) == IF answers'[id] = answers[id] THEN {} ELSE {answers'[id][Len(answers'[id])]}

IndexesTheLiveBuffer(a) ==
  a.outcome = "result" /\ a.doc # None => a.text = buffer[a.doc]

\* A result that reaches the client, a colorPresentation's excepted, indexes the
\* text its document has at that moment: replies of older versions became
\* ContentModified, and a parse the snapshot holds of another text was not used.
ResultsIndexTheLiveBuffer ==
  [][\A id \in Ids : \A a \in NewAnswers(id) :
       a.kind # "presentation" => IndexesTheLiveBuffer(a)]_vars

\* The same of every result, which on_color_presentation does not keep: its reply
\* is registered without a version, and reaches the client after an edit.
EveryResultIndexesTheLiveBuffer ==
  [][\A id \in Ids : \A a \in NewAnswers(id) : IndexesTheLiveBuffer(a)]_vars

\* ReadRequests implements ReadContract: each request is answered exactly once,
\* by its reply, its cancellation or ContentModified, and one that is neither
\* cancelled nor lost with its job is answered eventually, writes of the lint
\* thread and snapshots that cancel each other notwithstanding.
Contract == INSTANCE ReadContract WITH
  responses <- [id \in Ids |-> Len(answers[id])]
ImplementsContract == Contract!Spec

\* "Salsa `Cancelled` never reaches here: the read helpers and the analyze site
\* catch it upstream" (task_pool.rs): no read ends without its reply.
CancelledIsCaughtUpstream == died = {}
=============================================================================
