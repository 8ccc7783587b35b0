-------------------------- MODULE LintPipelineProofs --------------------------
(***************************************************************************)
(* Theorems of LintPipeline, for any documents, texts and bounds.          *)
(*                                                                         *)
(*   1. Every variable holds values of its type.                           *)
(*   2. A version names one text: whatever is queued, running or cached    *)
(*      under a document's live version was made from its live text.  The  *)
(*      client must not use a version twice (RestartVersions is FALSE).    *)
(*   3. The slot of the lint thread: a late `done` never frees the slot of *)
(*      a later analyze.  An unmatched `done` is of a version everything   *)
(*      still to be linted has passed, so it can never be matched again.   *)
(***************************************************************************)
EXTENDS LintPipeline, FiniteSetTheorems, SequenceTheorems, TLAPS

-----------------------------------------------------------------------------
(* Every operator from database to database returns a database.            *)

LEMMA UpsertFromDiskType ==
  ASSUME TypeOK, NEW S, NEW base \in Database
  PROVE  UpsertFromDisk(S, base) \in Database
BY DEF TypeOK, EnvTypes, LintTypes, Database, UpsertFromDisk, Docs

LEMMA UpsertBufferType ==
  ASSUME TypeOK, NEW d \in Docs, NEW t \in Texts, NEW base \in Database
  PROVE  UpsertBuffer(d, t, base) \in Database
BY DEF TypeOK, EnvTypes, LintTypes, Database, UpsertBuffer, Docs

LEMMA SetMembersType ==
  ASSUME TypeOK, NEW members \in SUBSET RDocs,
         NEW roots \in SUBSET {"initial", "package", "added"}, NEW base \in Database
  PROVE  SetMembers(members, roots, base) \in Database
BY DEF TypeOK, EnvTypes, LintTypes, Database, SetMembers, Docs

LEMMA RefreshMarkdownType ==
  ASSUME TypeOK, NEW base \in Database
  PROVE  RefreshMarkdown(base) \in Database
BY DEF TypeOK, EnvTypes, LintTypes, Database, RefreshMarkdown, Docs

LEMMA SeedWorkspaceType ==
  ASSUME TypeOK, NEW roots \in SUBSET {"initial", "package", "added"}, NEW base \in Database
  PROVE  SeedWorkspace(roots, base) \in Database
BY UpsertFromDiskType, SetMembersType DEF SeedWorkspace

LEMMA EnsureWorkspaceForType ==
  ASSUME TypeOK, NEW d \in Docs, NEW base \in Database
  PROVE  EnsureWorkspaceFor(d, base) \in Database
<1>1. base.roots \cup {"package"} \in SUBSET {"initial", "package", "added"}
  BY DEF Database
<1>2. QED
  BY <1>1, UpsertFromDiskType, SetMembersType DEF EnsureWorkspaceFor

LEMMA EnsureIndexType ==
  ASSUME TypeOK, NEW base \in Database
  PROVE  EnsureIndex(base) \in Database
BY DEF TypeOK, EnvTypes, LintTypes, Database, EnsureIndex

LEMMA PrepareType ==
  ASSUME TypeOK, NEW r \in RequestType
  PROVE  /\ Prepare(r).db \in Database
         /\ Prepare(r).out \in Seq(OutboundType)
<1>1. RelintAll \in OutboundType
  BY DEF RelintAll, OutboundType
<1>2. /\ r.uri \in Docs /\ r.text \in Texts /\ db \in Database
  BY DEF RequestType, TypeOK, LintTypes
<1>3. CASE r.uri = Desc
  <2> DEFINE base  == IF IsTracked(Desc) THEN db ELSE SeedWorkspace({"package"}, db)
             wrote == [base EXCEPT !.text[Desc] = r.text]
  <2>1. base \in Database
    BY <1>2, SeedWorkspaceType
  <2>2. wrote \in Database
    BY <1>2, <2>1 DEF Database, Docs
  <2>3. RefreshMarkdown(wrote) \in Database
    BY <2>2, RefreshMarkdownType
  <2> HIDE DEF base, wrote
  <2>4. PrepareDescription(r).db \in Database
    BY <2>2, <2>3, EnsureIndexType DEF PrepareDescription, base, wrote
  <2>5. PrepareDescription(r).out \in Seq(OutboundType)
    BY <1>1 DEF PrepareDescription, OneIf
  <2>6. QED
    BY <1>3, <2>4, <2>5 DEF Prepare
<1>4. CASE r.uri # Desc
  <2>1. PrepareR(r).db \in Database
    BY <1>2, EnsureIndexType, UpsertBufferType, EnsureWorkspaceForType DEF PrepareR
  <2>2. PrepareR(r).out \in Seq(OutboundType)
    BY <1>1 DEF PrepareR, OneIf
  <2>3. QED
    BY <1>4, <2>1, <2>2 DEF Prepare
<1>5. QED
  BY <1>3, <1>4

-----------------------------------------------------------------------------
(* Type correctness, one lemma per group of actions.                       *)

LEMMA ResultIdsAreTyped ==
  ASSUME TypeOK, NEW d \in Docs, NEW f \in FindingType
  PROVE  ResultId(d, f) \in ResultIdType
BY DocsAssumption DEF ResultId, ResultIdType, FindingType, Database

LEMMA DiagnosticsAreTyped ==
  ASSUME NEW r, r.uri \in Docs, r.version \in Nat, r.text \in Texts, r.config \in Nat,
         NEW view \in Database
  PROVE  Diagnostics(r, view) \in OutboundType
BY DEF Diagnostics, Finding, OutboundType, FindingType

LEMMA TypeInit == Init => TypeOK
<1> SUFFICES ASSUME Init PROVE TypeOK
  OBVIOUS
<1>1. MainTypes /\ ClientTypes /\ PoolTypes
  BY DocsAssumption DEF Init, MainTypes, ClientTypes, PoolTypes
<1>2. QueueTypes
  BY DEF Init, QueueTypes
<1>3. LintTypes
  <2>1. db \in Database
    BY DocsAssumption DEF Init, Database, Docs
  <2>2. QED
    BY <2>1 DEF Init, LintTypes
<1>4. EnvTypes
  BY DocsAssumption, BoundsAssumption DEF Init, EnvTypes, BudgetType
<1>5. QED
  BY <1>1, <1>2, <1>3, <1>4 DEF TypeOK

\* A group of variables an action leaves alone keeps its types.
LEMMA UnchangedTypes ==
  ASSUME TypeOK
  PROVE  /\ UNCHANGED mainVars => MainTypes'
         /\ UNCHANGED clientVars => ClientTypes'
         /\ UNCHANGED <<lintQ, outQ, dones, built>> => QueueTypes'
         /\ UNCHANGED lintVars => LintTypes'
         /\ UNCHANGED <<pool, harvests>> => PoolTypes'
         /\ UNCHANGED envVars => EnvTypes'
<1>1. UNCHANGED mainVars => MainTypes'
  BY DEF TypeOK, MainTypes, mainVars
<1>2. UNCHANGED clientVars => ClientTypes'
  BY DEF TypeOK, ClientTypes, clientVars
<1>3. UNCHANGED <<lintQ, outQ, dones, built>> => QueueTypes'
  BY DEF TypeOK, QueueTypes
<1>4. UNCHANGED lintVars => LintTypes'
  BY DEF TypeOK, LintTypes, lintVars
<1>5. UNCHANGED <<pool, harvests>> => PoolTypes'
  BY DEF TypeOK, PoolTypes
<1>6. UNCHANGED envVars => EnvTypes'
  BY DEF TypeOK, EnvTypes, envVars
<1>7. QED
  BY <1>1, <1>2, <1>3, <1>4, <1>5, <1>6

LEMMA RequestsAreTyped ==
  ASSUME NEW d \in Docs, NEW v \in Nat, NEW t \in Texts, NEW c \in Nat
  PROVE  Request(d, v, t, c) \in RequestType
BY DEF Request, RequestType

LEMMA DidOpenType ==
  ASSUME TypeOK, NEW d \in Docs, DidOpen(d)
  PROVE  TypeOK'
<1> DEFINE first == IF RestartVersions THEN 1 ELSE lastVersion[d] + 1
<1>1. /\ first \in Nat /\ disk[d] \in Texts /\ config \in Nat
  BY DEF TypeOK, MainTypes, EnvTypes
<1>2. MainTypes'
  BY <1>1 DEF DidOpen, TypeOK, MainTypes
<1>3. ClientTypes'
  BY DEF DidOpen, ClientReads, TypeOK, ClientTypes
<1>4. Request(d, version'[d], buffer'[d], config) \in LintMsgType
  BY <1>1, <1>2, RequestsAreTyped DEF MainTypes, LintMsgType
<1>5. QueueTypes'
  BY <1>4 DEF DidOpen, TypeOK, QueueTypes
<1>6. LintTypes' /\ PoolTypes'
  BY UnchangedTypes DEF DidOpen
<1>7. EnvTypes'
  <2>1. budget \in BudgetType /\ budget.opens[d] - 1 \in Nat
    BY DEF DidOpen, TypeOK, EnvTypes, BudgetType
  <2>2. budget' \in BudgetType
    BY <2>1 DEF DidOpen, BudgetType
  <2>3. QED
    BY <2>2 DEF DidOpen, TypeOK, EnvTypes
<1>8. QED
  BY <1>2, <1>3, <1>5, <1>6, <1>7 DEF TypeOK

LEMMA SpendType ==
  ASSUME TypeOK, NEW bound \in {"edits", "configs", "writes", "seeds", "external", "panics"},
         Spend(bound)
  PROVE  budget' \in BudgetType
<1>1. budget \in BudgetType /\ budget[bound] - 1 \in Nat
  BY DEF Spend, TypeOK, EnvTypes, BudgetType
<1>2. QED
  BY <1>1 DEF Spend, BudgetType

LEMMA DidChangeType ==
  ASSUME TypeOK, NEW d \in Docs, NEW text \in Texts, DidChange(d, text)
  PROVE  TypeOK'
<1>1. config \in Nat /\ version[d] + 1 \in Nat
  BY DEF TypeOK, MainTypes, EnvTypes
<1>2. MainTypes'
  BY <1>1 DEF DidChange, TypeOK, MainTypes
<1>3. ClientTypes'
  BY DEF DidChange, ClientReads, TypeOK, ClientTypes
<1>4. Request(d, version'[d], buffer'[d], config) \in LintMsgType
  BY <1>1, <1>2, RequestsAreTyped DEF MainTypes, LintMsgType
<1>5. QueueTypes'
  BY <1>4 DEF DidChange, TypeOK, QueueTypes
<1>6. LintTypes' /\ PoolTypes'
  BY UnchangedTypes DEF DidChange
<1>7. EnvTypes'
  BY SpendType DEF DidChange, TypeOK, EnvTypes
<1>8. QED
  BY <1>2, <1>3, <1>5, <1>6, <1>7 DEF TypeOK

LEMMA DidCloseType ==
  ASSUME TypeOK, NEW d \in Docs, DidClose(d)
  PROVE  TypeOK'
<1>1. MainTypes'
  BY DEF DidClose, TypeOK, MainTypes
<1>2. ClientTypes'
  BY DEF DidClose, TypeOK, ClientTypes
<1>3. OneIf(d = Desc, [type |-> "closeDescription", uri |-> d]) \in Seq(LintMsgType)
  <2>1. [type |-> "closeDescription", uri |-> d] \in LintMsgType
    BY DEF LintMsgType
  <2>2. QED
    BY <2>1 DEF OneIf
<1>4. QueueTypes'
  BY <1>3 DEF DidClose, TypeOK, QueueTypes
<1>5. LintTypes' /\ PoolTypes' /\ EnvTypes'
  BY UnchangedTypes DEF DidClose
<1>6. QED
  BY <1>1, <1>2, <1>4, <1>5 DEF TypeOK

LEMMA PullType ==
  ASSUME TypeOK, NEW d \in Docs, PullWarm(d) \/ PullCold(d)
  PROVE  TypeOK'
<1>1. CASE PullWarm(d)
  <2>1. ClientTypes'
    BY <1>1 DEF PullWarm, IsWarm, TypeOK, ClientTypes, MainTypes
  <2>2. QED
    BY <1>1, <2>1, UnchangedTypes DEF PullWarm, TypeOK
<1>2. CASE PullCold(d)
  <2>1. PreviousId(d) \in ResultIdType \cup {None}
    BY ResultIdsAreTyped DEF PreviousId, TypeOK, ClientTypes
  <2>2. MainTypes'
    BY <1>2, <2>1 DEF PullCold, TypeOK, MainTypes
  <2>3. ClientTypes'
    BY <1>2 DEF PullCold, TypeOK, ClientTypes
  <2>4. Request(d, version[d], buffer[d], config) \in LintMsgType
    BY RequestsAreTyped DEF TypeOK, MainTypes, EnvTypes, LintMsgType
  <2>5. QueueTypes'
    BY <1>2, <2>4 DEF PullCold, TypeOK, QueueTypes
  <2>6. QED
    BY <1>2, <2>2, <2>3, <2>5, UnchangedTypes DEF PullCold, TypeOK
<1>3. QED
  BY <1>1, <1>2

LEMMA OpenDocsAreFinite == IsFiniteSet(OpenDocs) /\ Cardinality(OpenDocs) \in Nat
<1>1. IsFiniteSet(Docs)
  BY DocsAssumption, FS_AddElement DEF Docs
<1>2. IsFiniteSet(OpenDocs)
  BY <1>1, FS_Subset DEF OpenDocs
<1>3. QED
  BY <1>2, FS_CardinalityType

\* The variables request_relint_all may change keep their types.
LEMMA RequestRelintAllType ==
  ASSUME TypeOK, NEW revision \in Nat, RequestRelintAll(revision)
  PROVE  /\ findings' \in [Docs -> FindingType \cup {None}]
         /\ toPull' \subseteq Docs
         /\ lintQ' \in Seq(LintMsgType)
<1>1. CASE PullMode
  BY <1>1 DEF RequestRelintAll, OpenDocs, TypeOK, MainTypes, ClientTypes, QueueTypes
<1>2. CASE ~PullMode
  <2>1. PICK order \in Orders(OpenDocs) :
          lintQ' = lintQ \o [i \in 1 .. Cardinality(OpenDocs) |->
                               Request(order[i], version[order[i]], buffer[order[i]], revision)]
    BY <1>2 DEF RequestRelintAll
  <2> DEFINE n == Cardinality(OpenDocs)
             added == [i \in 1 .. n |->
                        Request(order[i], version[order[i]], buffer[order[i]], revision)]
  <2>2. ASSUME NEW i \in 1 .. n
        PROVE  Request(order[i], version[order[i]], buffer[order[i]], revision) \in LintMsgType
    <3>1. order[i] \in Docs
      BY DEF Orders, OpenDocs
    <3>2. QED
      BY <3>1, RequestsAreTyped DEF TypeOK, MainTypes, LintMsgType
  <2>3. added \in Seq(LintMsgType)
    <3>1. n \in Nat
      BY OpenDocsAreFinite
    <3> HIDE DEF n
    <3>2. added \in [1 .. n -> LintMsgType]
      BY <2>2
    <3>3. QED
      BY <3>1, <3>2, SeqDef
  <2>4. lintQ' \in Seq(LintMsgType)
    BY <2>1, <2>3 DEF TypeOK, QueueTypes
  <2>5. QED
    BY <1>2, <2>4 DEF RequestRelintAll, TypeOK, MainTypes, ClientTypes
<1>3. QED
  BY <1>1, <1>2

LEMMA EnvironmentType ==
  ASSUME TypeOK,
         \/ ConfigChange \/ AddFolder \/ ExternalIndex
         \/ \E d \in Docs, text \in Texts, kind \in EventKinds : DiskWrite(d, text, kind)
  PROVE  TypeOK'
<1>1. CASE ConfigChange
  <2>1. config + 1 \in Nat
    BY DEF TypeOK, EnvTypes
  <2>2. /\ findings' \in [Docs -> FindingType \cup {None}]
        /\ toPull' \subseteq Docs
        /\ lintQ' \in Seq(LintMsgType)
    BY <1>1, <2>1, RequestRelintAllType DEF ConfigChange
  <2>3. EnvTypes'
    BY <1>1, <2>1, SpendType DEF ConfigChange, TypeOK, EnvTypes
  <2>4. MainTypes' /\ ClientTypes' /\ QueueTypes'
    BY <1>1, <2>2 DEF ConfigChange, TypeOK, MainTypes, ClientTypes, QueueTypes
  <2>5. QED
    BY <1>1, <2>3, <2>4, UnchangedTypes DEF ConfigChange, TypeOK
<1>2. CASE AddFolder
  <2>1. lintQ' \in Seq(LintMsgType)
    BY <1>2 DEF AddFolder, TypeOK, QueueTypes, LintMsgType
  <2>2. QueueTypes' /\ EnvTypes'
    BY <1>2, <2>1, SpendType DEF AddFolder, TypeOK, QueueTypes, EnvTypes
  <2>3. QED
    BY <1>2, <2>2, UnchangedTypes DEF AddFolder, TypeOK
<1>3. CASE ExternalIndex
  <2>1. EnvTypes'
    BY <1>3, SpendType DEF ExternalIndex, TypeOK, EnvTypes
  <2>2. QED
    BY <1>3, <2>1, UnchangedTypes DEF ExternalIndex, TypeOK
<1>4. ASSUME NEW d \in Docs, NEW text \in Texts, NEW kind \in EventKinds,
             DiskWrite(d, text, kind)
      PROVE  TypeOK'
  <2>1. [type |-> kind, uri |-> d] \in LintMsgType
    BY DocsAssumption DEF LintMsgType
  <2>2. lintQ' \in Seq(LintMsgType)
    BY <1>4, <2>1 DEF DiskWrite, OneIf, TypeOK, QueueTypes
  <2>3. QueueTypes' /\ EnvTypes'
    BY <1>4, <2>2, SpendType DEF DiskWrite, TypeOK, QueueTypes, EnvTypes
  <2>4. QED
    BY <1>4, <2>3, UnchangedTypes DEF DiskWrite, TypeOK
<1>5. QED
  BY <1>1, <1>2, <1>3, <1>4

LEMMA MainLoopType ==
  ASSUME TypeOK, MainLoop
  PROVE  TypeOK'
<1>1. outQ \in Seq(OutboundType) /\ (outQ # <<>> => Head(outQ) \in OutboundType /\ Tail(outQ) \in Seq(OutboundType))
  BY DEF TypeOK, QueueTypes
<1>2. CASE DropDiagnostics
  <2>1. QueueTypes'
    BY <1>1, <1>2 DEF DropDiagnostics, Head1, TypeOK, QueueTypes
  <2>2. QED
    BY <1>2, <2>1, UnchangedTypes DEF DropDiagnostics, TypeOK
<1>3. CASE AcceptDiagnostics
  <2> DEFINE d == Head(outQ).uri
             found == Head(outQ).found
  <2>1. d \in Docs /\ found \in FindingType
    BY <1>1, <1>3 DEF AcceptDiagnostics, Head1, OutboundType
  <2>2. MainTypes'
    BY <1>3, <2>1 DEF AcceptDiagnostics, TypeOK, MainTypes
  <2>3. ClientTypes'
    BY <1>3, <2>1 DEF AcceptDiagnostics, TypeOK, ClientTypes
  <2>4. QueueTypes'
    BY <1>1, <1>3 DEF AcceptDiagnostics, Head1, TypeOK, QueueTypes
  <2>5. QED
    BY <1>3, <2>2, <2>3, <2>4, UnchangedTypes DEF AcceptDiagnostics, TypeOK
<1>4. CASE OnRelintAll
  <2>1. /\ findings' \in [Docs -> FindingType \cup {None}]
        /\ toPull' \subseteq Docs
        /\ lintQ' \in Seq(LintMsgType)
    BY <1>4, RequestRelintAllType DEF OnRelintAll, TypeOK, EnvTypes
  <2>2. MainTypes' /\ ClientTypes' /\ QueueTypes'
    BY <1>1, <1>4, <2>1 DEF OnRelintAll, Head1, TypeOK, MainTypes, ClientTypes, QueueTypes
  <2>3. QED
    BY <1>4, <2>2, UnchangedTypes DEF OnRelintAll, TypeOK
<1>5. QED
  BY <1>2, <1>3, <1>4 DEF MainLoop

\* A job's `done` names the job.
LEMMA UnwoundType ==
  ASSUME TypeOK, NEW cancelled \in SUBSET pool
  PROVE  Unwound(cancelled) \subseteq DoneType
BY DEF Unwound, Done, TypeOK, PoolTypes, QueueTypes, JobType, DoneType

LEMMA WriteType ==
  ASSUME TypeOK, NEW next \in Database, NEW cancelled \in SUBSET pool,
         NEW messages \in Seq(OutboundType), Write(next, cancelled, messages)
  PROVE  /\ db' \in Database /\ pool' \subseteq JobType
         /\ dones' \subseteq DoneType /\ outQ' \in Seq(OutboundType)
<1>1. db' \in Database
  BY DEF Write
<1>2. pool' \subseteq JobType
  BY DEF Write, TypeOK, PoolTypes
<1>3. dones' \subseteq DoneType
  BY UnwoundType DEF Write
<1>4. outQ' \in Seq(OutboundType)
  BY DEF Write, TypeOK, QueueTypes
<1>5. QED
  BY <1>1, <1>2, <1>3, <1>4

LEMMA RelintType ==
  ASSUME NEW condition
  PROVE  OneIf(condition, RelintAll) \in Seq(OutboundType)
<1>1. RelintAll \in OutboundType
  BY DEF RelintAll, OutboundType
<1>2. QED
  BY <1>1 DEF OneIf

LEMMA ReadDescriptionType ==
  ASSUME TypeOK, ReadDescription
  PROVE  /\ db' \in Database /\ pool' \subseteq JobType
         /\ dones' \subseteq DoneType /\ outQ' \in Seq(OutboundType)
<1> DEFINE read == IF IsTracked(Desc) THEN [db EXCEPT !.text[Desc] = disk[Desc]] ELSE db
           next == RefreshMarkdown(read)
<1>1. read \in Database
  BY DEF TypeOK, LintTypes, EnvTypes, Database, Docs
<1>2. next \in Database
  BY <1>1, RefreshMarkdownType
<1>3. PICK graphMoved : Write(next, CancelIf(next # db \/ graphMoved),
                              OneIf(next # db \/ graphMoved, RelintAll))
  BY DEF ReadDescription
<1> HIDE DEF next
<1>4. QED
  BY <1>2, <1>3, RelintType, WriteType DEF CancelIf

LEMMA WriteAndRelintType ==
  ASSUME TypeOK, NEW next \in Database, NEW relint, WriteAndRelint(next, relint)
  PROVE  /\ db' \in Database /\ pool' \subseteq JobType
         /\ dones' \subseteq DoneType /\ outQ' \in Seq(OutboundType)
BY RelintType, WriteType DEF WriteAndRelint, CancelIf

\* What a step of the lint thread that writes must leave typed.
Written == /\ db' \in Database /\ pool' \subseteq JobType
           /\ dones' \subseteq DoneType /\ outQ' \in Seq(OutboundType)
           /\ pending' \in [Docs -> RequestType \cup {None}]

LEMMA HandleMsgType ==
  ASSUME TypeOK, HandleMsg
  PROVE  TypeOK'
<1> DEFINE msg == Head(lintQ)
<1>1. msg \in LintMsgType /\ Tail(lintQ) \in Seq(LintMsgType)
  BY DEF HandleMsg, TypeOK, QueueTypes
<1>2. UNCHANGED pending => pending' \in [Docs -> RequestType \cup {None}]
  BY DEF TypeOK, LintTypes
<1>3. ASSUME msg.type = "request", Enqueue(msg) PROVE Written
  <2>1. msg \in RequestType /\ msg.uri \in Docs
    BY <1>1, <1>3 DEF LintMsgType, RequestType
  <2>2. pending' \in [Docs -> RequestType \cup {None}]
    BY <1>3, <2>1 DEF Enqueue, TypeOK, LintTypes
  <2>3. QED
    BY <1>3, <2>2 DEF Enqueue, Written, TypeOK, LintTypes, PoolTypes, QueueTypes
<1>4. ASSUME CloseDescription PROVE Written
  <2>1. pending' \in [Docs -> RequestType \cup {None}]
    BY <1>4 DEF CloseDescription, TypeOK, LintTypes
  <2>2. QED
    BY <1>4, <2>1, ReadDescriptionType DEF CloseDescription, Written
<1>5. ASSUME WriteAndRelint(SeedWorkspace({"added"}, db), FALSE), UNCHANGED pending
      PROVE  Written
  <2>1. SeedWorkspace({"added"}, db) \in Database
    BY SeedWorkspaceType DEF TypeOK, LintTypes
  <2>2. QED
    BY <1>2, <1>5, <2>1, WriteAndRelintType DEF Written
<1>6. ASSUME ReadDescription, UNCHANGED pending PROVE Written
  BY <1>2, <1>6, ReadDescriptionType DEF Written
<1>7. ASSUME ReadChanged(msg.uri), UNCHANGED pending PROVE Written
  <2>1. UpsertFromDisk({msg.uri}, db) \in Database
    BY UpsertFromDiskType DEF TypeOK, LintTypes
  <2>2. QED
    BY <1>2, <1>7, <2>1, WriteAndRelintType DEF ReadChanged, Written
<1>8. ASSUME msg.type = "created", msg.uri # Desc, ReadCreated(msg.uri), UNCHANGED pending
      PROVE  Written
  <2>1. /\ db \in Database /\ UpsertFromDisk({msg.uri}, db) \in Database
        /\ msg.uri \in RDocs
    BY <1>1, <1>8, UpsertFromDiskType DEF TypeOK, LintTypes, LintMsgType, RequestType, Docs
  <2>2. /\ db.members \cup {msg.uri} \in SUBSET RDocs
        /\ db.roots \in SUBSET {"initial", "package", "added"}
    BY <2>1 DEF Database
  <2>3. SetMembers(db.members \cup {msg.uri}, db.roots, UpsertFromDisk({msg.uri}, db)) \in Database
    BY <2>1, <2>2, SetMembersType
  <2>4. QED
    BY <1>2, <1>8, <2>1, <2>3, WriteAndRelintType DEF ReadCreated, Written
<1>9. Written
  BY <1>3, <1>4, <1>5, <1>6, <1>7, <1>8 DEF HandleMsg
<1>10. LintTypes' /\ QueueTypes' /\ PoolTypes'
  BY <1>1, <1>9 DEF HandleMsg, Written, TypeOK, LintTypes, QueueTypes, PoolTypes
<1>11. QED
  BY <1>10, UnchangedTypes DEF HandleMsg, TypeOK

\* maybe_build hands over texts of the database only.
LEMMA MaybeBuildType ==
  ASSUME TypeOK, NEW r \in RequestType, NEW view \in Database, NEW reached,
         MaybeBuild(r, view, reached)
  PROVE  attempted' \subseteq Texts /\ harvests' \in Nat
BY DEF MaybeBuild, Wanted, RequestType, Database, Docs, TypeOK, LintTypes, PoolTypes

LEMMA DispatchBlockedType ==
  ASSUME TypeOK, NEW d \in Docs, DispatchBlocked(d)
  PROVE  TypeOK'
<1> DEFINE r == pending[d]
           phase == Prepare(r)
<1>1. r \in RequestType
  BY DEF DispatchBlocked, MayStart, TypeOK, LintTypes
<1>2. phase.db \in Database /\ phase.out \in Seq(OutboundType)
  BY <1>1, PrepareType
<1> HIDE DEF phase
<1>3. Diagnostics(r, phase.db) \in OutboundType
  BY <1>1, <1>2, DiagnosticsAreTyped DEF RequestType
<1>4. phase.out \o <<Diagnostics(r, phase.db)>> \in Seq(OutboundType)
  BY <1>2, <1>3
<1>5. Write(phase.db, CancelIf(Unwinds(d, phase.db)), phase.out \o <<Diagnostics(r, phase.db)>>)
  BY DEF DispatchBlocked, phase
<1>6. /\ db' \in Database /\ pool' \subseteq JobType
      /\ dones' \subseteq DoneType /\ outQ' \in Seq(OutboundType)
  BY <1>2, <1>4, <1>5, WriteType DEF CancelIf
<1>7. attempted' \subseteq Texts /\ harvests' \in Nat
  BY <1>1, <1>2, MaybeBuildType DEF DispatchBlocked, phase
<1>8. LintTypes' /\ QueueTypes' /\ PoolTypes'
  BY <1>6, <1>7 DEF DispatchBlocked, TypeOK, LintTypes, QueueTypes, PoolTypes, EnvTypes
<1>9. QED
  BY <1>8, UnchangedTypes DEF DispatchBlocked, TypeOK

LEMMA DispatchSpawnType ==
  ASSUME TypeOK, NEW d \in Docs, DispatchSpawn(d)
  PROVE  TypeOK'
<1> DEFINE r == pending[d]
           phase == Prepare(r)
           cancelled == CancelIf(Unwinds(d, phase.db))
           id == CHOOSE id \in FreeIds : TRUE
           job == [id |-> id, uri |-> d, version |-> r.version,
                   text |-> r.text, config |-> r.config, view |-> phase.db]
<1>1. r \in RequestType
  BY DEF DispatchSpawn, MayStart, TypeOK, LintTypes
<1>2. phase.db \in Database /\ phase.out \in Seq(OutboundType)
  BY <1>1, PrepareType
<1>3. id \in JobIds
  BY DEF DispatchSpawn, FreeIds
<1>4. /\ db' = phase.db /\ outQ' = outQ \o phase.out
      /\ dones' = Unwound(cancelled)
      /\ pool' = (pool \ cancelled) \cup {job}
      /\ inflight' = [uri |-> d, version |-> r.version]
      /\ MaybeBuild(r, phase.db, TRUE)
  BY DEF DispatchSpawn
<1> HIDE DEF phase, id
<1>5. job \in JobType
  BY <1>1, <1>2, <1>3 DEF RequestType, JobType
<1>6. cancelled \in SUBSET pool
  BY DEF CancelIf
<1> HIDE DEF cancelled, job
<1>7. dones' \subseteq DoneType /\ pool' \subseteq JobType
  BY <1>4, <1>5, <1>6, UnwoundType DEF TypeOK, PoolTypes
<1>8. outQ' \in Seq(OutboundType)
  BY <1>2, <1>4 DEF TypeOK, QueueTypes
<1>9. attempted' \subseteq Texts /\ harvests' \in Nat
  BY <1>1, <1>2, <1>4, MaybeBuildType
<1>10. inflight' \in [uri : Docs, version : Nat]
  BY <1>1, <1>4 DEF RequestType
<1> HIDE DEF r
<1>11. LintTypes'
  BY <1>2, <1>4, <1>9, <1>10 DEF DispatchSpawn, TypeOK, LintTypes, EnvTypes
<1>12. QueueTypes' /\ PoolTypes'
  BY <1>7, <1>8, <1>9 DEF DispatchSpawn, TypeOK, QueueTypes, PoolTypes
<1>13. QED
  BY <1>11, <1>12, UnchangedTypes DEF DispatchSpawn, TypeOK

LEMMA LintThreadType ==
  ASSUME TypeOK, LintThread
  PROVE  TypeOK'
<1>1. CASE DrainDone
  <2>1. LintTypes'
    BY <1>1 DEF DrainDone, TypeOK, LintTypes
  <2>2. QED
    BY <1>1, <2>1, UnchangedTypes DEF DrainDone, TypeOK
<1>2. CASE DispatchWait
  <2>1. LintTypes'
    BY <1>2 DEF DispatchWait, TypeOK, LintTypes
  <2>2. QED
    BY <1>2, <2>1, UnchangedTypes DEF DispatchWait, TypeOK
<1>3. CASE OnDone
  <2>1. dones' \subseteq dones /\ inflight' \in {inflight, None}
    BY <1>3 DEF OnDone
  <2>2. LintTypes' /\ QueueTypes'
    BY <1>3, <2>1 DEF OnDone, TypeOK, LintTypes, QueueTypes
  <2>3. QED
    BY <1>3, <2>2, UnchangedTypes DEF OnDone, TypeOK
<1>4. CASE InstallBuild
  <2>1. Head(built) \in Nat /\ Tail(built) \in Seq(Nat)
    BY <1>4 DEF InstallBuild, TypeOK, QueueTypes
  <2>2. [db EXCEPT !.index = Head(built)] \in Database
    BY <2>1 DEF TypeOK, LintTypes, Database
  <2>3. OneIf(TRUE, RelintAll) \in Seq(OutboundType) /\ pool \in SUBSET pool
    BY RelintType
  <2>4. OneIf(TRUE, RelintAll) = <<RelintAll>>
    BY DEF OneIf
  <2>5. /\ db' \in Database /\ pool' \subseteq JobType
        /\ dones' \subseteq DoneType /\ outQ' \in Seq(OutboundType)
    BY <1>4, <2>2, <2>3, <2>4, WriteType DEF InstallBuild
  <2>6. LintTypes' /\ QueueTypes' /\ PoolTypes'
    BY <1>4, <2>1, <2>5 DEF InstallBuild, TypeOK, LintTypes, QueueTypes, PoolTypes
  <2>7. QED
    BY <1>4, <2>6, UnchangedTypes DEF InstallBuild, TypeOK
<1>5. QED
  BY <1>1, <1>2, <1>3, <1>4, HandleMsgType, DispatchBlockedType, DispatchSpawnType
  DEF LintThread

LEMMA PoolStepsType ==
  ASSUME TypeOK, Finish \/ Panic \/ Harvest
  PROVE  TypeOK'
<1>1. ASSUME NEW job \in pool, FinishAnalyze(job) PROVE TypeOK'
  <2>1. Diagnostics(job, job.view) \in OutboundType
    BY DiagnosticsAreTyped DEF TypeOK, PoolTypes, JobType
  <2>2. dones' \subseteq DoneType
    BY <1>1, UnwoundType DEF FinishAnalyze
  <2>3. outQ' \in Seq(OutboundType)
    BY <1>1, <2>1 DEF FinishAnalyze, TypeOK, QueueTypes
  <2>4. QueueTypes'
    BY <1>1, <2>2, <2>3 DEF FinishAnalyze, TypeOK, QueueTypes
  <2>5. PoolTypes'
    BY <1>1 DEF FinishAnalyze, TypeOK, PoolTypes
  <2>6. QED
    BY <1>1, <2>4, <2>5, UnchangedTypes DEF FinishAnalyze, TypeOK
<1>2. ASSUME NEW job \in pool, PanicAnalyze(job) PROVE TypeOK'
  <2>1. EnvTypes'
    BY <1>2, SpendType DEF PanicAnalyze, TypeOK, EnvTypes
  <2>2. PoolTypes'
    BY <1>2 DEF PanicAnalyze, TypeOK, PoolTypes
  <2>3. QED
    BY <1>2, <2>1, <2>2, UnchangedTypes DEF PanicAnalyze, TypeOK
<1>3. ASSUME NEW found \in BOOLEAN, HarvestDone(found) PROVE TypeOK'
  <2>1. stamp' \in Nat
    BY <1>3 DEF HarvestDone, TypeOK, EnvTypes
  <2>2. OneIf(found, stamp') \in Seq(Nat)
    BY <2>1 DEF OneIf
  <2>3. QueueTypes' /\ PoolTypes' /\ EnvTypes'
    BY <1>3, <2>1, <2>2 DEF HarvestDone, TypeOK, QueueTypes, PoolTypes, EnvTypes
  <2>4. QED
    BY <1>3, <2>3, UnchangedTypes DEF HarvestDone, TypeOK
<1>4. QED
  BY <1>1, <1>2, <1>3 DEF Finish, Panic, Harvest

LEMMA TypeStutter == TypeOK /\ UNCHANGED vars => TypeOK'
BY UnchangedTypes DEF vars, TypeOK

LEMMA TypeStep == TypeOK /\ [Next]_vars => TypeOK'
<1> SUFFICES ASSUME TypeOK, [Next]_vars PROVE TypeOK'
  OBVIOUS
<1>1. ASSUME Client PROVE TypeOK'
  BY <1>1, DidOpenType, DidCloseType, DidChangeType, EnvironmentType DEF Client
<1>2. ASSUME Pull PROVE TypeOK'
  BY <1>2, PullType DEF Pull
<1>3. QED
  BY <1>1, <1>2, MainLoopType, LintThreadType, PoolStepsType, TypeStutter DEF Next, Rest

\* Every variable holds values of its type, for every set of documents, texts
\* and job names and for every bound.
THEOREM TypeCorrect == Spec => []TypeOK
<1>1. Init => TypeOK
  BY TypeInit
<1>2. TypeOK /\ [Next]_vars => TypeOK'
  BY TypeStep
<1>3. QED
  BY <1>1, <1>2, PTL DEF Spec

-----------------------------------------------------------------------------
(* Part 2: a version names one text.                                        *)

\* Version v of text t was announced, and t is the live text if v is the last.
Stated(last, text, v, t) == 1 <= v /\ v <= last /\ (v = last => t = text)

Opened == /\ \A d \in Docs : IsOpen(d) => version[d] = lastVersion[d]
          /\ toPull \subseteq OpenDocs

Queued == \A i \in 1 .. Len(lintQ) : lintQ[i].type = "request" =>
            Stated(lastVersion[lintQ[i].uri], buffer[lintQ[i].uri],
                   lintQ[i].version, lintQ[i].text)

Pending == \A d \in Docs : pending[d] # None =>
             /\ pending[d].uri = d
             /\ Stated(lastVersion[d], buffer[d], pending[d].version, pending[d].text)

Running == \A job \in pool :
             Stated(lastVersion[job.uri], buffer[job.uri], job.version, job.text)

Sent == \A i \in 1 .. Len(outQ) : outQ[i].type = "diagnostics" =>
          Stated(lastVersion[outQ[i].uri], buffer[outQ[i].uri],
                 outQ[i].found.version, outQ[i].found.text)

Cached == \A d \in Docs : findings[d] # None =>
            Stated(lastVersion[d], buffer[d], findings[d].version, findings[d].text)

VersionsNameTexts == Opened /\ Queued /\ Pending /\ Running /\ Sent /\ Cached

\* A step keeps the last version and the text of document d, or announces a
\* later version.
Kept(d) == \/ lastVersion'[d] = lastVersion[d] /\ buffer'[d] = buffer[d]
           \/ lastVersion'[d] > lastVersion[d]

-----------------------------------------------------------------------------
LEMMA QueuedRequests ==
  ASSUME TypeOK, NEW i \in 1 .. Len(lintQ), lintQ[i].type = "request"
  PROVE  lintQ[i] \in RequestType /\ lintQ[i].uri \in Docs /\ lintQ[i].version \in Nat
<1>1. lintQ[i] \in LintMsgType
  BY DEF TypeOK, QueueTypes
<1>2. lintQ[i] \in RequestType
  BY <1>1, DocsAssumption DEF LintMsgType
<1>3. QED
  BY <1>2 DEF RequestType

LEMMA StatedStays ==
  ASSUME TypeOK, TypeOK', NEW d \in Docs, Kept(d), NEW v \in Nat, NEW t,
         Stated(lastVersion[d], buffer[d], v, t)
  PROVE  Stated(lastVersion'[d], buffer'[d], v, t)
BY DEF Stated, Kept, TypeOK, MainTypes

\* What is in flight stays stated while every document is Kept.
LEMMA InFlightStays ==
  ASSUME TypeOK, TypeOK', VersionsNameTexts, \A d \in Docs : Kept(d)
  PROVE  /\ UNCHANGED lintQ => Queued'
         /\ UNCHANGED pending => Pending'
         /\ pool' \subseteq pool => Running'
         /\ UNCHANGED outQ => Sent'
         /\ UNCHANGED findings => Cached'
<1>1. ASSUME UNCHANGED lintQ PROVE Queued'
  <2> SUFFICES ASSUME NEW i \in 1 .. Len(lintQ), lintQ[i].type = "request"
               PROVE  Stated(lastVersion'[lintQ[i].uri], buffer'[lintQ[i].uri],
                             lintQ[i].version, lintQ[i].text)
    BY <1>1 DEF Queued
  <2>1. lintQ[i].uri \in Docs /\ lintQ[i].version \in Nat
    BY QueuedRequests
  <2>2. QED
    BY <2>1, StatedStays DEF VersionsNameTexts, Queued
<1>2. ASSUME UNCHANGED pending PROVE Pending'
  <2> SUFFICES ASSUME NEW d \in Docs, pending[d] # None
               PROVE  /\ pending[d].uri = d
                      /\ Stated(lastVersion'[d], buffer'[d], pending[d].version, pending[d].text)
    BY <1>2 DEF Pending
  <2>1. pending[d].version \in Nat
    BY DEF TypeOK, LintTypes, RequestType
  <2>2. QED
    BY <2>1, StatedStays DEF VersionsNameTexts, Pending
<1>3. ASSUME pool' \subseteq pool PROVE Running'
  <2> SUFFICES ASSUME NEW job \in pool
               PROVE  Stated(lastVersion'[job.uri], buffer'[job.uri], job.version, job.text)
    BY <1>3 DEF Running
  <2>1. job.uri \in Docs /\ job.version \in Nat
    BY DEF TypeOK, PoolTypes, JobType
  <2>2. QED
    BY <2>1, StatedStays DEF VersionsNameTexts, Running
<1>4. ASSUME UNCHANGED outQ PROVE Sent'
  <2> SUFFICES ASSUME NEW i \in 1 .. Len(outQ), outQ[i].type = "diagnostics"
               PROVE  Stated(lastVersion'[outQ[i].uri], buffer'[outQ[i].uri],
                             outQ[i].found.version, outQ[i].found.text)
    BY <1>4 DEF Sent
  <2>1. outQ[i].uri \in Docs /\ outQ[i].found.version \in Nat
    BY DEF TypeOK, QueueTypes, OutboundType, FindingType
  <2>2. QED
    BY <2>1, StatedStays DEF VersionsNameTexts, Sent
<1>5. ASSUME UNCHANGED findings PROVE Cached'
  <2> SUFFICES ASSUME NEW d \in Docs, findings[d] # None
               PROVE  Stated(lastVersion'[d], buffer'[d], findings[d].version, findings[d].text)
    BY <1>5 DEF Cached
  <2>1. findings[d].version \in Nat
    BY DEF TypeOK, MainTypes, FindingType
  <2>2. QED
    BY <2>1, StatedStays DEF VersionsNameTexts, Cached
<1>6. QED
  BY <1>1, <1>2, <1>3, <1>4, <1>5

\* Messages added to the lint queue.
LEMMA QueuedGrows ==
  ASSUME TypeOK, TypeOK', VersionsNameTexts, \A d \in Docs : Kept(d),
         NEW added \in Seq(LintMsgType), lintQ' = lintQ \o added,
         \A i \in 1 .. Len(added) : added[i].type = "request" =>
           Stated(lastVersion'[added[i].uri], buffer'[added[i].uri],
                  added[i].version, added[i].text)
  PROVE  Queued'
<1> SUFFICES ASSUME NEW i \in 1 .. Len(lintQ'), lintQ'[i].type = "request"
             PROVE  Stated(lastVersion'[lintQ'[i].uri], buffer'[lintQ'[i].uri],
                           lintQ'[i].version, lintQ'[i].text)
  BY DEF Queued
<1>1. CASE i \in 1 .. Len(lintQ)
  <2>1. lintQ'[i] = lintQ[i]
    BY <1>1 DEF TypeOK, QueueTypes
  <2>2. lintQ[i].uri \in Docs /\ lintQ[i].version \in Nat
    BY <1>1, <2>1, QueuedRequests
  <2>3. QED
    BY <1>1, <2>1, <2>2, StatedStays DEF VersionsNameTexts, Queued
<1>2. CASE i \notin 1 .. Len(lintQ)
  <2>1. /\ i - Len(lintQ) \in 1 .. Len(added)
        /\ lintQ'[i] = added[i - Len(lintQ)]
    BY <1>2 DEF TypeOK, QueueTypes
  <2>2. QED
    BY <2>1
<1>3. QED
  BY <1>1, <1>2

LEMMA RequestQueued ==
  ASSUME TypeOK, TypeOK', VersionsNameTexts, \A d \in Docs : Kept(d),
         NEW r \in LintMsgType, lintQ' = Append(lintQ, r),
         Stated(lastVersion'[r.uri], buffer'[r.uri], r.version, r.text)
  PROVE  Queued'
<1> DEFINE added == <<r>>
<1>1. added \in Seq(LintMsgType) /\ \A i \in 1 .. Len(added) : added[i] = r
  OBVIOUS
<1>2. lintQ' = lintQ \o added
  BY DEF TypeOK, QueueTypes
<1> HIDE DEF added
<1>3. QED
  BY <1>1, <1>2, QueuedGrows

\* Messages added to the queue of the main loop.
LEMMA SentGrows ==
  ASSUME TypeOK, TypeOK', VersionsNameTexts, \A d \in Docs : Kept(d),
         NEW added \in Seq(OutboundType), outQ' = outQ \o added,
         \A i \in 1 .. Len(added) : added[i].type = "diagnostics" =>
           Stated(lastVersion'[added[i].uri], buffer'[added[i].uri],
                  added[i].found.version, added[i].found.text)
  PROVE  Sent'
<1> SUFFICES ASSUME NEW i \in 1 .. Len(outQ'), outQ'[i].type = "diagnostics"
             PROVE  Stated(lastVersion'[outQ'[i].uri], buffer'[outQ'[i].uri],
                           outQ'[i].found.version, outQ'[i].found.text)
  BY DEF Sent
<1>1. CASE i \in 1 .. Len(outQ)
  <2>1. outQ'[i] = outQ[i]
    BY <1>1 DEF TypeOK, QueueTypes
  <2>2. outQ[i].uri \in Docs /\ outQ[i].found.version \in Nat
    BY <1>1, <2>1 DEF TypeOK, QueueTypes, OutboundType, FindingType
  <2>3. QED
    BY <1>1, <2>1, <2>2, StatedStays DEF VersionsNameTexts, Sent
<1>2. CASE i \notin 1 .. Len(outQ)
  <2>1. /\ i - Len(outQ) \in 1 .. Len(added)
        /\ outQ'[i] = added[i - Len(outQ)]
    BY <1>2 DEF TypeOK, QueueTypes
  <2>2. QED
    BY <2>1
<1>3. QED
  BY <1>1, <1>2

\* A message leaves a queue.
LEMMA QueuesShrink ==
  ASSUME TypeOK, TypeOK', VersionsNameTexts, \A d \in Docs : Kept(d)
  PROVE  /\ lintQ # <<>> /\ lintQ' = Tail(lintQ) => Queued'
         /\ outQ # <<>> /\ outQ' = Tail(outQ) => Sent'
<1>1. ASSUME lintQ # <<>>, lintQ' = Tail(lintQ) PROVE Queued'
  <2> SUFFICES ASSUME NEW i \in 1 .. Len(lintQ'), lintQ'[i].type = "request"
               PROVE  Stated(lastVersion'[lintQ'[i].uri], buffer'[lintQ'[i].uri],
                             lintQ'[i].version, lintQ'[i].text)
    BY DEF Queued
  <2>1. i + 1 \in 1 .. Len(lintQ) /\ lintQ'[i] = lintQ[i + 1]
    BY <1>1 DEF TypeOK, QueueTypes
  <2>2. lintQ[i + 1].uri \in Docs /\ lintQ[i + 1].version \in Nat
    BY <2>1, QueuedRequests
  <2>3. QED
    BY <2>1, <2>2, StatedStays DEF VersionsNameTexts, Queued
<1>2. ASSUME outQ # <<>>, outQ' = Tail(outQ) PROVE Sent'
  <2> SUFFICES ASSUME NEW i \in 1 .. Len(outQ'), outQ'[i].type = "diagnostics"
               PROVE  Stated(lastVersion'[outQ'[i].uri], buffer'[outQ'[i].uri],
                             outQ'[i].found.version, outQ'[i].found.text)
    BY DEF Sent
  <2>1. i + 1 \in 1 .. Len(outQ) /\ outQ'[i] = outQ[i + 1]
    BY <1>2 DEF TypeOK, QueueTypes
  <2>2. outQ[i + 1].uri \in Docs /\ outQ[i + 1].found.version \in Nat
    BY <2>1 DEF TypeOK, QueueTypes, OutboundType, FindingType
  <2>3. QED
    BY <2>1, <2>2, StatedStays DEF VersionsNameTexts, Sent
<1>3. QED
  BY <1>1, <1>2

\* A request for the live version of an open document is stated.
LEMMA LiveRequestIsStated ==
  ASSUME TypeOK, Opened, NEW d \in OpenDocs, NEW revision
  PROVE  LET r == Request(d, version[d], buffer[d], revision)
         IN  r.uri = d /\ Stated(lastVersion[d], buffer[d], r.version, r.text)
BY DEF Request, Opened, OpenDocs, IsOpen, Stated, TypeOK, MainTypes

-----------------------------------------------------------------------------
(* The client's steps.                                                     *)

LEMMA AnnounceVersions ==
  ASSUME ~RestartVersions, TypeOK, TypeOK', VersionsNameTexts, NEW d \in Docs,
         DidOpen(d) \/ \E text \in Texts : DidChange(d, text)
  PROVE  VersionsNameTexts'
<1>1. /\ version'[d] = lastVersion'[d] /\ lastVersion'[d] > lastVersion[d]
      /\ \A e \in Docs \ {d} : /\ version'[e] = version[e]
                               /\ lastVersion'[e] = lastVersion[e]
                               /\ buffer'[e] = buffer[e]
  <2>1. CASE DidOpen(d)
    BY <2>1 DEF DidOpen, TypeOK, MainTypes
  <2>2. CASE \E text \in Texts : DidChange(d, text)
    <3>1. version[d] = lastVersion[d]
      BY <2>2 DEF DidChange, VersionsNameTexts, Opened
    <3>2. QED
      BY <2>2, <3>1 DEF DidChange, TypeOK, MainTypes
  <2>3. QED
    BY <2>1, <2>2
<1>2. \A e \in Docs : Kept(e)
  BY <1>1 DEF Kept
<1>3. /\ UNCHANGED <<findings, outQ, pending, pool>>
      /\ toPull' \subseteq toPull \cup {d}
      /\ lintQ' = Append(lintQ, Request(d, version'[d], buffer'[d], config))
  BY DEF DidOpen, DidChange, ClientReads, lintVars
<1>4. Pending' /\ Running' /\ Sent' /\ Cached'
  BY <1>2, <1>3, InFlightStays
<1>5. Opened'
  <2>1. version'[d] > 0
    BY <1>1 DEF TypeOK, MainTypes
  <2>2. OpenDocs \cup {d} \subseteq OpenDocs'
    BY <1>1, <2>1 DEF OpenDocs, IsOpen
  <2>3. toPull' \subseteq OpenDocs'
    BY <1>3, <2>2 DEF VersionsNameTexts, Opened
  <2>4. \A e \in Docs : IsOpen(e)' => version'[e] = lastVersion'[e]
    BY <1>1 DEF VersionsNameTexts, Opened, IsOpen
  <2>5. QED
    BY <2>3, <2>4 DEF Opened
<1>6. Queued'
  <2> DEFINE r == Request(d, version'[d], buffer'[d], config)
  <2>1. r \in LintMsgType
    <3>1. version'[d] \in Nat /\ buffer'[d] \in Texts /\ config \in Nat
      BY DEF TypeOK, MainTypes, EnvTypes
    <3>2. QED
      BY <3>1, RequestsAreTyped DEF LintMsgType
  <2>2. r.uri = d /\ Stated(lastVersion'[d], buffer'[d], r.version, r.text)
    BY <1>1 DEF Request, Stated, TypeOK, MainTypes
  <2> HIDE DEF r
  <2>3. lintQ' = Append(lintQ, r)
    BY <1>3 DEF r
  <2>4. QED
    BY <1>2, <2>1, <2>2, <2>3, RequestQueued
<1>7. QED
  BY <1>4, <1>5, <1>6 DEF VersionsNameTexts

\* The version and the text of every document stay as they are.
Quiet == UNCHANGED <<version, lastVersion, buffer>>

LEMMA QuietKeeps == Quiet => \A d \in Docs : Kept(d)
BY DEF Quiet, Kept

LEMMA QuietOpened ==
  ASSUME TypeOK, VersionsNameTexts, Quiet, toPull' \subseteq OpenDocs
  PROVE  Opened'
BY DEF Quiet, VersionsNameTexts, Opened, OpenDocs, IsOpen

LEMMA CloseKeepsVersions ==
  ASSUME TypeOK, TypeOK', VersionsNameTexts, NEW d \in Docs, DidClose(d)
  PROVE  VersionsNameTexts'
<1>1. \A e \in Docs : Kept(e)
  BY DEF DidClose, Kept
<1>2. Pending' /\ Running' /\ Sent'
  BY <1>1, InFlightStays DEF DidClose, lintVars
<1>3. Opened'
  BY DEF DidClose, VersionsNameTexts, Opened, OpenDocs, IsOpen, TypeOK, MainTypes, ClientTypes
<1>4. Cached'
  BY DEF DidClose, VersionsNameTexts, Cached, TypeOK, MainTypes
<1>5. Queued'
  <2> DEFINE added == OneIf(d = Desc, [type |-> "closeDescription", uri |-> d])
  <2>1. added \in Seq(LintMsgType)
    <3>1. [type |-> "closeDescription", uri |-> d] \in LintMsgType
      BY DEF LintMsgType
    <3>2. QED
      BY <3>1 DEF OneIf
  <2>2. \A i \in 1 .. Len(added) : added[i].type # "request"
    BY DEF OneIf
  <2>3. lintQ' = lintQ \o added
    BY DEF DidClose
  <2> HIDE DEF added
  <2>4. QED
    BY <1>1, <2>1, <2>2, <2>3, QueuedGrows
<1>6. QED
  BY <1>2, <1>3, <1>4, <1>5 DEF VersionsNameTexts

LEMMA PullKeepsVersions ==
  ASSUME TypeOK, TypeOK', VersionsNameTexts, NEW d \in Docs, PullWarm(d) \/ PullCold(d)
  PROVE  VersionsNameTexts'
<1>1. Quiet /\ toPull' \subseteq toPull /\ UNCHANGED <<findings, outQ, pending, pool>>
  BY DEF PullWarm, PullCold, Quiet, mainVars, lintVars
<1>2. \A e \in Docs : Kept(e)
  BY <1>1, QuietKeeps
<1>3. Opened' /\ Pending' /\ Running' /\ Sent' /\ Cached'
  BY <1>1, <1>2, InFlightStays, QuietOpened DEF VersionsNameTexts, Opened
<1>4. CASE PullWarm(d)
  BY <1>2, <1>3, <1>4, InFlightStays DEF PullWarm, VersionsNameTexts
<1>5. CASE PullCold(d)
  <2> DEFINE r == Request(d, version[d], buffer[d], config)
  <2>1. r \in LintMsgType
    BY RequestsAreTyped DEF TypeOK, MainTypes, EnvTypes, LintMsgType
  <2>2. d \in OpenDocs
    BY <1>5 DEF PullCold, VersionsNameTexts, Opened
  <2>3. r.uri = d /\ Stated(lastVersion'[d], buffer'[d], r.version, r.text)
    BY <1>1, <2>2, LiveRequestIsStated DEF Quiet, VersionsNameTexts
  <2> HIDE DEF r
  <2>4. lintQ' = Append(lintQ, r)
    BY <1>5 DEF PullCold, r
  <2>5. Queued'
    BY <1>2, <2>1, <2>3, <2>4, RequestQueued
  <2>6. QED
    BY <1>3, <2>5 DEF VersionsNameTexts
<1>6. QED
  BY <1>4, <1>5

LEMMA RelintAllKeepsVersions ==
  ASSUME TypeOK, TypeOK', VersionsNameTexts, Quiet,
         NEW revision \in Nat, RequestRelintAll(revision)
  PROVE  Opened' /\ Queued' /\ Cached'
<1>1. \A e \in Docs : Kept(e)
  BY QuietKeeps
<1>2. Opened'
  BY QuietOpened DEF RequestRelintAll, VersionsNameTexts, Opened
<1>3. CASE PullMode
  <2>1. Queued'
    BY <1>1, <1>3, InFlightStays DEF RequestRelintAll
  <2>2. \A d \in Docs : findings'[d] \in {None, findings[d]}
    BY <1>3 DEF RequestRelintAll
  <2>3. Cached'
    BY <2>2 DEF Quiet, VersionsNameTexts, Cached
  <2>4. QED
    BY <1>2, <2>1, <2>3
<1>4. CASE ~PullMode
  <2>1. PICK order \in Orders(OpenDocs) :
          lintQ' = lintQ \o [i \in 1 .. Cardinality(OpenDocs) |->
                               Request(order[i], version[order[i]], buffer[order[i]], revision)]
    BY <1>4 DEF RequestRelintAll
  <2> DEFINE n == Cardinality(OpenDocs)
             request(i) == Request(order[i], version[order[i]], buffer[order[i]], revision)
             added == [i \in 1 .. n |-> request(i)]
  <2>2. n \in Nat
    BY OpenDocsAreFinite
  <2>3. ASSUME NEW i \in 1 .. n
        PROVE  /\ request(i) \in LintMsgType
               /\ Stated(lastVersion'[request(i).uri], buffer'[request(i).uri],
                         request(i).version, request(i).text)
    <3>1. order[i] \in OpenDocs /\ order[i] \in Docs
      BY <2>1, <2>3 DEF Orders, OpenDocs
    <3>2. request(i) \in LintMsgType
      BY <3>1, RequestsAreTyped DEF TypeOK, MainTypes, LintMsgType
    <3>3. QED
      BY <3>1, <3>2, LiveRequestIsStated DEF Quiet, VersionsNameTexts
  <2> HIDE DEF n, request
  <2>4. added \in Seq(LintMsgType) /\ Len(added) = n
    <3>1. added \in [1 .. n -> LintMsgType]
      BY <2>3
    <3>2. QED
      BY <2>2, <3>1, SeqDef
  <2>5. lintQ' = lintQ \o added
    BY <2>1 DEF n, request
  <2>6. \A i \in 1 .. Len(added) :
          Stated(lastVersion'[added[i].uri], buffer'[added[i].uri],
                 added[i].version, added[i].text)
    BY <2>3, <2>4
  <2> HIDE DEF added
  <2>7. Queued'
    BY <1>1, <2>4, <2>5, <2>6, QueuedGrows
  <2>8. Cached'
    BY <1>1, <1>4, InFlightStays DEF RequestRelintAll
  <2>9. QED
    BY <1>2, <2>7, <2>8
<1>5. QED
  BY <1>3, <1>4

LEMMA EnvironmentKeepsVersions ==
  ASSUME TypeOK, TypeOK', VersionsNameTexts,
         \/ ConfigChange \/ AddFolder \/ ExternalIndex
         \/ \E d \in Docs, text \in Texts, kind \in EventKinds : DiskWrite(d, text, kind)
  PROVE  VersionsNameTexts'
<1>1. Quiet /\ UNCHANGED <<outQ, pending, pool>>
  BY DEF ConfigChange, AddFolder, ExternalIndex, DiskWrite, Quiet, mainVars, lintVars
<1>2. \A e \in Docs : Kept(e)
  BY <1>1, QuietKeeps
<1>3. Pending' /\ Running' /\ Sent'
  BY <1>1, <1>2, InFlightStays
<1>4. CASE ConfigChange
  <2>1. config + 1 \in Nat
    BY DEF TypeOK, EnvTypes
  <2>2. Opened' /\ Queued' /\ Cached'
    BY <1>1, <1>4, <2>1, RelintAllKeepsVersions DEF ConfigChange
  <2>3. QED
    BY <1>3, <2>2 DEF VersionsNameTexts
<1>5. CASE ~ConfigChange
  <2>1. UNCHANGED <<toPull, findings>>
    BY <1>5 DEF AddFolder, ExternalIndex, DiskWrite, mainVars, clientVars
  <2>2. Opened' /\ Cached'
    BY <1>1, <1>2, <2>1, InFlightStays, QuietOpened DEF VersionsNameTexts, Opened
  <2>3. PICK added \in Seq(LintMsgType) :
          /\ lintQ' = lintQ \o added
          /\ \A i \in 1 .. Len(added) : added[i].type # "request"
    <3>1. CASE AddFolder
      <4> DEFINE added == <<[type |-> "seedWorkspace"]>>
      <4>1. added \in Seq(LintMsgType) /\ \A i \in 1 .. Len(added) : added[i].type # "request"
        BY DEF LintMsgType
      <4>2. lintQ' = lintQ \o added
        BY <3>1 DEF AddFolder, TypeOK, QueueTypes
      <4>3. QED
        BY <4>1, <4>2
    <3>2. CASE ExternalIndex
      <4> DEFINE none == <<>>
      <4>1. none \in Seq(LintMsgType) /\ \A i \in 1 .. Len(none) : none[i].type # "request"
        OBVIOUS
      <4>2. lintQ' = lintQ \o none
        BY <3>2 DEF ExternalIndex, TypeOK, QueueTypes
      <4> HIDE DEF none
      <4>3. QED
        BY <4>1, <4>2
    <3>3. ASSUME NEW d \in Docs, NEW text \in Texts, NEW kind \in EventKinds,
                 DiskWrite(d, text, kind)
          PROVE  \E added \in Seq(LintMsgType) :
                   /\ lintQ' = lintQ \o added
                   /\ \A i \in 1 .. Len(added) : added[i].type # "request"
      <4> DEFINE event == OneIf(kind = "created" \/ ~IsOpen(d), [type |-> kind, uri |-> d])
      <4>1. [type |-> kind, uri |-> d] \in LintMsgType /\ kind # "request"
        BY DocsAssumption DEF LintMsgType
      <4>2. event \in Seq(LintMsgType) /\ \A i \in 1 .. Len(event) : event[i].type # "request"
        BY <4>1 DEF OneIf
      <4>3. lintQ' = lintQ \o event
        BY <3>3 DEF DiskWrite
      <4> HIDE DEF event
      <4>4. QED
        BY <4>2, <4>3
    <3>4. QED
      BY <1>5, <3>1, <3>2, <3>3
  <2>4. Queued'
    BY <1>2, <2>3, QueuedGrows
  <2>5. QED
    BY <1>3, <2>2, <2>4 DEF VersionsNameTexts
<1>6. QED
  BY <1>4, <1>5

-----------------------------------------------------------------------------
(* The server's steps.                                                     *)

LEMMA MainLoopKeepsVersions ==
  ASSUME TypeOK, TypeOK', VersionsNameTexts, MainLoop
  PROVE  VersionsNameTexts'
<1>1. Quiet /\ UNCHANGED <<pending, pool>> /\ outQ # <<>> /\ outQ' = Tail(outQ)
  BY DEF MainLoop, DropDiagnostics, AcceptDiagnostics, OnRelintAll, Head1, Quiet,
         mainVars, lintVars
<1>2. \A e \in Docs : Kept(e)
  BY <1>1, QuietKeeps
<1>3. Pending' /\ Running' /\ Sent'
  BY <1>1, <1>2, InFlightStays, QueuesShrink
<1>4. CASE DropDiagnostics
  <2>1. UNCHANGED <<lintQ, findings, toPull>>
    BY <1>4 DEF DropDiagnostics, mainVars, clientVars
  <2>2. Opened' /\ Queued' /\ Cached'
    BY <1>1, <1>2, <2>1, InFlightStays, QuietOpened DEF VersionsNameTexts, Opened
  <2>3. QED
    BY <1>3, <2>2 DEF VersionsNameTexts
<1>5. CASE AcceptDiagnostics
  <2>1. Opened' /\ Queued'
    BY <1>1, <1>2, <1>5, InFlightStays, QuietOpened
    DEF AcceptDiagnostics, VersionsNameTexts, Opened
  <2> DEFINE d == Head(outQ).uri
             found == Head(outQ).found
  <2>2. 1 \in 1 .. Len(outQ) /\ Head(outQ) = outQ[1] /\ outQ[1].type = "diagnostics"
    BY <1>5 DEF AcceptDiagnostics, Head1, TypeOK, QueueTypes
  <2>3. Stated(lastVersion[d], buffer[d], found.version, found.text)
    BY <2>2 DEF VersionsNameTexts, Sent
  <2>4. findings' = [findings EXCEPT ![d] = found]
    BY <1>5 DEF AcceptDiagnostics
  <2> HIDE DEF d, found
  <2>5. Cached'
    BY <1>1, <2>3, <2>4 DEF Quiet, VersionsNameTexts, Cached, TypeOK, MainTypes
  <2>6. QED
    BY <1>3, <2>1, <2>5 DEF VersionsNameTexts
<1>6. CASE OnRelintAll
  <2>1. Opened' /\ Queued' /\ Cached'
    BY <1>1, <1>6, RelintAllKeepsVersions DEF OnRelintAll, TypeOK, EnvTypes
  <2>2. QED
    BY <1>3, <2>1 DEF VersionsNameTexts
<1>7. QED
  BY <1>4, <1>5, <1>6 DEF MainLoop

\* Steps of the lint thread and of the pools that send no diagnostics.
OnlyRelints == \E added \in Seq(OutboundType) :
                 /\ outQ' = outQ \o added
                 /\ \A i \in 1 .. Len(added) : added[i].type = "relintAll"

LEMMA OnlyRelintsSent ==
  ASSUME TypeOK, TypeOK', VersionsNameTexts, \A d \in Docs : Kept(d), OnlyRelints
  PROVE  Sent'
<1>1. PICK added \in Seq(OutboundType) :
        /\ outQ' = outQ \o added
        /\ \A i \in 1 .. Len(added) : added[i].type = "relintAll"
  BY DEF OnlyRelints
<1>2. QED
  BY <1>1, SentGrows

LEMMA RelintIsRelint ==
  ASSUME NEW condition
  PROVE  /\ OneIf(condition, RelintAll) \in Seq(OutboundType)
         /\ \A i \in 1 .. Len(OneIf(condition, RelintAll)) :
              OneIf(condition, RelintAll)[i].type = "relintAll"
<1>1. RelintAll.type = "relintAll"
  BY DEF RelintAll
<1>2. \A i \in 1 .. Len(OneIf(condition, RelintAll)) :
        OneIf(condition, RelintAll)[i] = RelintAll
  BY DEF OneIf
<1>3. QED
  BY <1>1, <1>2, RelintType

LEMMA UnsentIsOnlyRelints == TypeOK /\ UNCHANGED outQ => OnlyRelints
<1> SUFFICES ASSUME TypeOK, UNCHANGED outQ PROVE OnlyRelints
  OBVIOUS
<1> DEFINE none == <<>>
<1>1. none \in Seq(OutboundType) /\ \A i \in 1 .. Len(none) : none[i].type = "relintAll"
  OBVIOUS
<1>2. outQ' = outQ \o none
  BY DEF TypeOK, QueueTypes
<1> HIDE DEF none
<1>3. QED
  BY <1>1, <1>2 DEF OnlyRelints

LEMMA WritesOnlyRelint ==
  ASSUME NEW next, NEW cancelled \in SUBSET pool, NEW condition,
         Write(next, cancelled, OneIf(condition, RelintAll))
  PROVE  OnlyRelints /\ pool' \subseteq pool
<1>1. outQ' = outQ \o OneIf(condition, RelintAll) /\ pool' \subseteq pool
  BY DEF Write
<1>2. QED
  BY <1>1, RelintIsRelint DEF OnlyRelints

LEMMA HandleMsgKeepsVersions ==
  ASSUME TypeOK, TypeOK', VersionsNameTexts, HandleMsg
  PROVE  VersionsNameTexts'
<1> DEFINE msg == Head(lintQ)
<1>1. Quiet /\ UNCHANGED <<findings, toPull>> /\ lintQ # <<>> /\ lintQ' = Tail(lintQ)
  BY DEF HandleMsg, Quiet, mainVars, clientVars
<1>2. \A e \in Docs : Kept(e)
  BY <1>1, QuietKeeps
<1>3. Opened' /\ Queued' /\ Cached'
  BY <1>1, <1>2, InFlightStays, QueuesShrink, QuietOpened DEF VersionsNameTexts, Opened
<1>4. ASSUME NEW next, NEW relint, WriteAndRelint(next, relint)
      PROVE  OnlyRelints /\ pool' \subseteq pool
  BY <1>4, WritesOnlyRelint DEF WriteAndRelint, CancelIf
<1>5. ASSUME ReadDescription
      PROVE  OnlyRelints /\ pool' \subseteq pool
  BY <1>5, WritesOnlyRelint DEF ReadDescription, CancelIf
<1>6. UNCHANGED pending => Pending'
  BY <1>2, InFlightStays
<1>7. OnlyRelints /\ pool' \subseteq pool /\ Pending'
  <2>1. ASSUME msg.type = "request", Enqueue(msg) PROVE OnlyRelints /\ pool' \subseteq pool /\ Pending'
    <3>1. 1 \in 1 .. Len(lintQ) /\ msg = lintQ[1]
      BY <1>1 DEF TypeOK, QueueTypes
    <3>2. Stated(lastVersion[msg.uri], buffer[msg.uri], msg.version, msg.text)
      BY <2>1, <3>1 DEF VersionsNameTexts, Queued
    <3> HIDE DEF msg
    <3>3. pending' \in {pending, [pending EXCEPT ![msg.uri] = msg]}
      BY <2>1 DEF Enqueue
    <3>4. Pending'
      BY <1>1, <3>2, <3>3 DEF Quiet, VersionsNameTexts, Pending, TypeOK, LintTypes
    <3>5. QED
      BY <2>1, <3>4, UnsentIsOnlyRelints DEF Enqueue
  <2>2. ASSUME CloseDescription PROVE OnlyRelints /\ pool' \subseteq pool /\ Pending'
    <3>1. Pending'
      BY <1>1, <2>2 DEF CloseDescription, Quiet, VersionsNameTexts, Pending, TypeOK, LintTypes
    <3>2. QED
      BY <1>5, <2>2, <3>1 DEF CloseDescription
  <2>3. ASSUME NEW d, ReadCreated(d) PROVE OnlyRelints /\ pool' \subseteq pool
    BY <1>4, <2>3 DEF ReadCreated
  <2>4. ASSUME NEW d, ReadChanged(d) PROVE OnlyRelints /\ pool' \subseteq pool
    BY <1>4, <2>4 DEF ReadChanged
  <2>5. QED
    BY <1>4, <1>5, <1>6, <2>1, <2>2, <2>3, <2>4 DEF HandleMsg
<1>8. Running' /\ Sent'
  BY <1>2, <1>7, InFlightStays, OnlyRelintsSent
<1>9. QED
  BY <1>3, <1>7, <1>8 DEF VersionsNameTexts

LEMMA PrepareOnlyRelints ==
  ASSUME NEW r, NEW i \in 1 .. Len(Prepare(r).out)
  PROVE  Prepare(r).out[i].type = "relintAll"
<1>1. RelintAll.type = "relintAll"
  BY DEF RelintAll
<1>2. CASE r.uri = Desc
  <2>1. PICK one, two : Prepare(r).out = OneIf(one, RelintAll) \o OneIf(two, RelintAll)
    BY <1>2 DEF Prepare, PrepareDescription
  <2>2. QED
    BY <1>1, <2>1 DEF OneIf
<1>3. CASE r.uri # Desc
  <2>1. PICK one : Prepare(r).out = OneIf(one, RelintAll)
    BY <1>3 DEF Prepare, PrepareR
  <2>2. QED
    BY <1>1, <2>1 DEF OneIf
<1>4. QED
  BY <1>2, <1>3

LEMMA DispatchKeepsVersions ==
  ASSUME TypeOK, TypeOK', VersionsNameTexts, NEW d \in Docs,
         DispatchBlocked(d) \/ DispatchSpawn(d)
  PROVE  VersionsNameTexts'
<1> DEFINE r == pending[d]
           phase == Prepare(r)
<1>1. Quiet /\ UNCHANGED <<findings, toPull, lintQ>> /\ pending' = [pending EXCEPT ![d] = None]
  BY DEF DispatchBlocked, DispatchSpawn, Quiet, mainVars, clientVars
<1>2. \A e \in Docs : Kept(e)
  BY <1>1, QuietKeeps
<1>3. Opened' /\ Queued' /\ Cached'
  BY <1>1, <1>2, InFlightStays, QuietOpened DEF VersionsNameTexts, Opened
<1>4. Pending'
  BY <1>1 DEF Quiet, VersionsNameTexts, Pending, TypeOK, LintTypes
<1>5. /\ r \in RequestType /\ r.uri = d
      /\ Stated(lastVersion[d], buffer[d], r.version, r.text)
  BY DEF DispatchBlocked, DispatchSpawn, MayStart, VersionsNameTexts, Pending, TypeOK, LintTypes
<1>6. phase.db \in Database /\ phase.out \in Seq(OutboundType)
  BY <1>5, PrepareType
<1>7. \A i \in 1 .. Len(phase.out) : phase.out[i].type = "relintAll"
  BY PrepareOnlyRelints
<1>8. CASE DispatchBlocked(d)
  <2> DEFINE message == Diagnostics(r, phase.db)
             added == phase.out \o <<message>>
  <2>1. message \in OutboundType
    BY <1>5, <1>6, DiagnosticsAreTyped DEF RequestType
  <2>2. /\ message.uri = d /\ message.found.version = r.version
        /\ message.found.text = r.text
    BY <1>5 DEF Diagnostics, Finding
  <2>3. outQ' = outQ \o added /\ pool' \subseteq pool
    BY <1>8 DEF DispatchBlocked, Write
  <2> HIDE DEF message, phase
  <2>4. added \in Seq(OutboundType)
    BY <1>6, <2>1
  <2>5. \A i \in 1 .. Len(added) : added[i] = message \/ added[i].type = "relintAll"
    BY <1>6, <1>7
  <2> HIDE DEF added
  <2>6. Stated(lastVersion'[message.uri], buffer'[message.uri],
               message.found.version, message.found.text)
    BY <1>1, <1>5, <2>2 DEF Quiet
  <2>7. Sent'
    BY <1>2, <2>3, <2>4, <2>5, <2>6, SentGrows
  <2>8. QED
    BY <1>2, <1>3, <1>4, <2>3, <2>7, InFlightStays DEF VersionsNameTexts
<1>9. CASE DispatchSpawn(d)
  <2>1. outQ' = outQ \o phase.out
    BY <1>9 DEF DispatchSpawn
  <2> DEFINE job == [id |-> CHOOSE id \in FreeIds : TRUE, uri |-> d, version |-> r.version,
                     text |-> r.text, config |-> r.config, view |-> phase.db]
  <2>2. pool' \subseteq pool \cup {job}
    BY <1>9 DEF DispatchSpawn
  <2>3. job.uri = d /\ job.version = r.version /\ job.text = r.text
    OBVIOUS
  <2> HIDE DEF phase, job
  <2>4. Sent'
    BY <1>2, <1>6, <1>7, <2>1, OnlyRelintsSent DEF OnlyRelints
  <2>5. Running'
    BY <1>1, <1>5, <2>2, <2>3 DEF Quiet, VersionsNameTexts, Running
  <2>6. QED
    BY <1>3, <1>4, <2>4, <2>5 DEF VersionsNameTexts
<1>10. QED
  BY <1>8, <1>9

LEMMA OtherStepsKeepVersions ==
  ASSUME TypeOK, TypeOK', VersionsNameTexts,
         \/ DrainDone \/ DispatchWait \/ OnDone \/ InstallBuild
         \/ Finish \/ Panic \/ Harvest \/ UNCHANGED vars
  PROVE  VersionsNameTexts'
<1>1. Quiet /\ UNCHANGED <<findings, toPull, lintQ, pending>> /\ pool' \subseteq pool
  BY DEF DrainDone, DispatchWait, OnDone, InstallBuild, Write, Finish, FinishAnalyze,
         Panic, PanicAnalyze, Harvest, HarvestDone, vars, Quiet, mainVars, clientVars, lintVars
<1>2. \A e \in Docs : Kept(e)
  BY <1>1, QuietKeeps
<1>3. Opened' /\ Queued' /\ Pending' /\ Running' /\ Cached'
  BY <1>1, <1>2, InFlightStays, QuietOpened DEF VersionsNameTexts, Opened
<1>4. CASE InstallBuild
  <2>1. Write([db EXCEPT !.index = Head(built)], pool, OneIf(TRUE, RelintAll))
    BY <1>4 DEF InstallBuild, OneIf
  <2>2. QED
    BY <1>2, <1>3, <2>1, WritesOnlyRelint, OnlyRelintsSent DEF VersionsNameTexts
<1>5. ASSUME NEW job \in pool, FinishAnalyze(job) PROVE VersionsNameTexts'
  <2> DEFINE message == Diagnostics(job, job.view)
             added == <<message>>
  <2>1. job \in JobType
    BY DEF TypeOK, PoolTypes
  <2>2. message \in OutboundType
    BY <2>1, DiagnosticsAreTyped DEF JobType
  <2>3. /\ message.uri = job.uri /\ message.found.version = job.version
        /\ message.found.text = job.text
    BY DEF Diagnostics, Finding
  <2> HIDE DEF message
  <2>4. added \in Seq(OutboundType) /\ \A i \in 1 .. Len(added) : added[i] = message
    BY <2>2
  <2>5. outQ' = outQ \o added
    BY <1>5 DEF FinishAnalyze, message, TypeOK, QueueTypes
  <2> HIDE DEF added
  <2>6. Stated(lastVersion'[message.uri], buffer'[message.uri],
               message.found.version, message.found.text)
    BY <1>1, <2>3 DEF Quiet, VersionsNameTexts, Running
  <2>7. QED
    BY <1>2, <1>3, <2>4, <2>5, <2>6, SentGrows DEF VersionsNameTexts
<1>6. CASE ~InstallBuild /\ ~Finish
  <2>1. UNCHANGED outQ
    BY <1>6 DEF DrainDone, DispatchWait, OnDone, Panic, PanicAnalyze, Harvest, HarvestDone, vars
  <2>2. QED
    BY <1>2, <1>3, <2>1, InFlightStays DEF VersionsNameTexts
<1>7. QED
  BY <1>4, <1>5, <1>6 DEF Finish

-----------------------------------------------------------------------------
LEMMA VersionsInit == Init => VersionsNameTexts
BY DEF Init, VersionsNameTexts, Opened, OpenDocs, IsOpen, Queued, Pending, Running, Sent, Cached

LEMMA VersionsStep ==
  ASSUME ~RestartVersions, TypeOK, VersionsNameTexts, [Next]_vars
  PROVE  VersionsNameTexts'
<1>1. TypeOK'
  BY TypeStep
<1>2. ASSUME Client PROVE VersionsNameTexts'
  BY <1>1, <1>2, AnnounceVersions, CloseKeepsVersions, EnvironmentKeepsVersions DEF Client
<1>3. ASSUME Pull PROVE VersionsNameTexts'
  BY <1>1, <1>3, PullKeepsVersions DEF Pull
<1>4. ASSUME LintThread PROVE VersionsNameTexts'
  BY <1>1, <1>4, HandleMsgKeepsVersions, DispatchKeepsVersions, OtherStepsKeepVersions
  DEF LintThread
<1>5. QED
  BY <1>1, <1>2, <1>3, <1>4, MainLoopKeepsVersions, OtherStepsKeepVersions DEF Next, Rest

LEMMA VersionsAlways ==
  ASSUME ~RestartVersions
  PROVE  Spec => [](TypeOK /\ VersionsNameTexts)
<1>1. Init => TypeOK /\ VersionsNameTexts
  BY TypeInit, VersionsInit
<1>2. TypeOK /\ VersionsNameTexts /\ [Next]_vars => (TypeOK /\ VersionsNameTexts)'
  BY TypeStep, VersionsStep
<1>3. QED
  BY <1>1, <1>2, PTL DEF Spec

\* Findings cached under the live version of a document were made from its live
\* text (on_code_action takes their byte ranges for ranges of the buffer),
\* whatever is queued, cancelled, late or dropped on the way, for a client that
\* never gives a document the same version twice.
THEOREM FindingsAreOfTheText ==
  ASSUME ~RestartVersions
  PROVE  Spec => []FindingsMatchText
<1>1. TypeOK /\ VersionsNameTexts => FindingsMatchText
  <2> SUFFICES ASSUME TypeOK, VersionsNameTexts, NEW d \in Docs,
                      findings[d] # None, findings[d].version = version[d]
               PROVE  findings[d].text = buffer[d]
    BY DEF FindingsMatchText
  <2>1. Stated(lastVersion[d], buffer[d], findings[d].version, findings[d].text)
    BY DEF VersionsNameTexts, Cached
  <2>2. version[d] = lastVersion[d]
    BY <2>1 DEF VersionsNameTexts, Opened, IsOpen, Stated, TypeOK, MainTypes
  <2>3. QED
    BY <2>1, <2>2 DEF Stated
<1>2. QED
  BY <1>1, VersionsAlways, PTL

-----------------------------------------------------------------------------
(* Part 3: the slot.                                                       *)

IsRequest(i) == lintQ[i].type = "request"

\* The requests of a document come in the order of its versions.
Ordered ==
  /\ \A i, j \in 1 .. Len(lintQ) :
       i < j /\ IsRequest(i) /\ IsRequest(j) /\ lintQ[i].uri = lintQ[j].uri
         => lintQ[i].version <= lintQ[j].version
  /\ \A i \in 1 .. Len(lintQ) :
       IsRequest(i) /\ pending[lintQ[i].uri] # None
         => pending[lintQ[i].uri].version <= lintQ[i].version

NamesSlot(done) == inflight = [uri |-> done.uri, version |-> done.version]

\* Nothing to come for document d has version v or less.
Behind(d, v) ==
  /\ v < lastVersion[d]
  /\ pending[d] # None => v < pending[d].version
  /\ \A i \in 1 .. Len(lintQ) : IsRequest(i) /\ lintQ[i].uri = d => v < lintQ[i].version

DonesBehind == \A done \in dones : ~NamesSlot(done) => Behind(done.uri, done.version)

DoneIsUnique == \A x, y \in dones : NamesSlot(x) /\ NamesSlot(y) => x = y

SlotIsSound == Ordered /\ DonesBehind /\ DoneIsUnique /\ AtMostOneAnalyze

Versions == TypeOK /\ VersionsNameTexts

-----------------------------------------------------------------------------
(* Steps of the main loop and of the client only add requests, each of the *)
(* last version of its document.                                           *)

Announces == \E added \in Seq(LintMsgType) :
  /\ lintQ' = lintQ \o added
  /\ \A i \in 1 .. Len(added) : added[i].type = "request" =>
       added[i].uri \in Docs /\ added[i].version = lastVersion'[added[i].uri]

VersionsGrow == \A d \in Docs : lastVersion[d] <= lastVersion'[d]

LEMMA NothingAnnounced == TypeOK /\ UNCHANGED lintQ => Announces
<1> SUFFICES ASSUME TypeOK, UNCHANGED lintQ PROVE Announces
  OBVIOUS
<1> DEFINE none == <<>>
<1>1. none \in Seq(LintMsgType) /\ \A i \in 1 .. Len(none) : none[i].type # "request"
  OBVIOUS
<1>2. lintQ' = lintQ \o none
  BY DEF TypeOK, QueueTypes
<1> HIDE DEF none
<1>3. QED
  BY <1>1, <1>2 DEF Announces

LEMMA OneAnnounced ==
  ASSUME TypeOK, NEW m \in LintMsgType, lintQ' = Append(lintQ, m),
         m.type = "request" => m.uri \in Docs /\ m.version = lastVersion'[m.uri]
  PROVE  Announces
<1> DEFINE added == <<m>>
<1>1. added \in Seq(LintMsgType) /\ \A i \in 1 .. Len(added) : added[i] = m
  OBVIOUS
<1>2. lintQ' = lintQ \o added
  <2>1. lintQ \in Seq(LintMsgType)
    BY DEF TypeOK, QueueTypes
  <2>2. Append(lintQ, m) = lintQ \o <<m>>
    BY <2>1
  <2>3. QED
    BY <2>2
<1> HIDE DEF added
<1>3. QED
  BY <1>1, <1>2 DEF Announces

LEMMA MaybeOneAnnounced ==
  ASSUME TypeOK, NEW m \in LintMsgType, NEW condition,
         lintQ' = lintQ \o OneIf(condition, m), m.type # "request"
  PROVE  Announces
<1>1. CASE condition
  <2>1. lintQ' = Append(lintQ, m)
    BY <1>1 DEF OneIf, TypeOK, QueueTypes
  <2>2. QED
    BY <2>1, OneAnnounced
<1>2. CASE ~condition
  <2>1. lintQ' = lintQ
    BY <1>2 DEF OneIf, TypeOK, QueueTypes
  <2>2. QED
    BY <2>1, NothingAnnounced
<1>3. QED
  BY <1>1, <1>2

LEMMA RelintAllAnnounces ==
  ASSUME Versions, UNCHANGED lastVersion, NEW revision \in Nat, RequestRelintAll(revision)
  PROVE  Announces
<1>1. CASE PullMode
  BY <1>1, NothingAnnounced DEF RequestRelintAll, Versions
<1>2. CASE ~PullMode
  <2>1. PICK order \in Orders(OpenDocs) :
          lintQ' = lintQ \o [i \in 1 .. Cardinality(OpenDocs) |->
                               Request(order[i], version[order[i]], buffer[order[i]], revision)]
    BY <1>2 DEF RequestRelintAll
  <2> DEFINE n == Cardinality(OpenDocs)
             request(i) == Request(order[i], version[order[i]], buffer[order[i]], revision)
             requests == [i \in 1 .. n |-> request(i)]
  <2>2. n \in Nat
    BY OpenDocsAreFinite
  <2>3. ASSUME NEW i \in 1 .. n
        PROVE  /\ request(i) \in LintMsgType /\ request(i).uri \in Docs
               /\ request(i).version = lastVersion'[request(i).uri]
    <3>1. order[i] \in OpenDocs /\ order[i] \in Docs
      BY <2>1, <2>3 DEF Orders, OpenDocs
    <3>2. version[order[i]] = lastVersion[order[i]]
      BY <3>1 DEF Versions, VersionsNameTexts, Opened, OpenDocs
    <3>3. request(i) \in LintMsgType
      BY <3>1, RequestsAreTyped DEF Versions, TypeOK, MainTypes, LintMsgType
    <3>4. QED
      BY <3>1, <3>2, <3>3 DEF Request
  <2> HIDE DEF n, request
  <2>4. requests \in Seq(LintMsgType) /\ Len(requests) = n
    <3>1. requests \in [1 .. n -> LintMsgType]
      BY <2>3
    <3>2. QED
      BY <2>2, <3>1, SeqDef
  <2>5. lintQ' = lintQ \o requests
    BY <2>1 DEF n, request
  <2>6. \A i \in 1 .. Len(requests) :
          requests[i].uri \in Docs /\ requests[i].version = lastVersion'[requests[i].uri]
    BY <2>3, <2>4
  <2> HIDE DEF requests
  <2>7. QED
    BY <2>4, <2>5, <2>6 DEF Announces
<1>3. QED
  BY <1>1, <1>2

LEMMA MainSideAnnounces ==
  ASSUME ~RestartVersions, Versions, TypeOK', Client \/ Pull \/ MainLoop
  PROVE  Announces /\ VersionsGrow /\ UNCHANGED <<pending, inflight, dones, pool>>
<1> USE DEF Versions
<1>1. UNCHANGED <<pending, inflight, dones, pool>>
  BY DEF Client, Pull, MainLoop, DidOpen, DidClose, DidChange, ConfigChange, DiskWrite,
         AddFolder, ExternalIndex, PullWarm, PullCold, DropDiagnostics, AcceptDiagnostics,
         OnRelintAll, lintVars
<1>2. ASSUME NEW d \in Docs, DidOpen(d) \/ \E text \in Texts : DidChange(d, text)
      PROVE  Announces /\ VersionsGrow
  <2>1. version'[d] = lastVersion'[d] /\ VersionsGrow
    <3>1. CASE DidOpen(d)
      BY <3>1 DEF DidOpen, VersionsGrow, TypeOK, MainTypes
    <3>2. CASE \E text \in Texts : DidChange(d, text)
      <4>1. version[d] = lastVersion[d]
        BY <3>2 DEF DidChange, VersionsNameTexts, Opened
      <4>2. QED
        BY <3>2, <4>1 DEF DidChange, VersionsGrow, TypeOK, MainTypes
    <3>3. QED
      BY <1>2, <3>1, <3>2
  <2> DEFINE r == Request(d, version'[d], buffer'[d], config)
  <2>2. r \in LintMsgType
    <3>1. version'[d] \in Nat /\ buffer'[d] \in Texts /\ config \in Nat
      BY DEF TypeOK, MainTypes, EnvTypes
    <3>2. QED
      BY <3>1, RequestsAreTyped DEF LintMsgType
  <2>3. r.uri = d /\ r.version = lastVersion'[d]
    BY <2>1 DEF Request
  <2>4. lintQ' = Append(lintQ, r)
    BY <1>2 DEF DidOpen, DidChange
  <2> HIDE DEF r
  <2>5. QED
    BY <2>1, <2>2, <2>3, <2>4, OneAnnounced
<1>3. ASSUME UNCHANGED lastVersion PROVE VersionsGrow
  BY <1>3 DEF VersionsGrow, TypeOK, MainTypes
<1>4. ASSUME NEW d \in Docs, DidClose(d) PROVE Announces /\ VersionsGrow
  <2> DEFINE m == [type |-> "closeDescription", uri |-> d]
  <2>1. m \in LintMsgType /\ m.type # "request"
    BY DEF LintMsgType
  <2>2. lintQ' = lintQ \o OneIf(d = Desc, m)
    BY <1>4 DEF DidClose
  <2> HIDE DEF m
  <2>3. QED
    BY <1>3, <1>4, <2>1, <2>2, MaybeOneAnnounced DEF DidClose
<1>5. ASSUME NEW d \in Docs, NEW text \in Texts, NEW kind \in EventKinds,
             DiskWrite(d, text, kind)
      PROVE  Announces /\ VersionsGrow
  <2> DEFINE m == [type |-> kind, uri |-> d]
  <2>1. m \in LintMsgType /\ m.type # "request"
    BY DocsAssumption DEF LintMsgType
  <2>2. lintQ' = lintQ \o OneIf(kind = "created" \/ ~IsOpen(d), m)
    BY <1>5 DEF DiskWrite
  <2> HIDE DEF m
  <2>3. QED
    BY <1>3, <1>5, <2>1, <2>2, MaybeOneAnnounced DEF DiskWrite, mainVars
<1>6. ASSUME AddFolder PROVE Announces /\ VersionsGrow
  <2>1. [type |-> "seedWorkspace"] \in LintMsgType
    BY DEF LintMsgType
  <2>2. QED
    BY <1>3, <1>6, <2>1, OneAnnounced DEF AddFolder, mainVars
<1>7. ASSUME ConfigChange PROVE Announces /\ VersionsGrow
  <2>1. config + 1 \in Nat
    BY DEF TypeOK, EnvTypes
  <2>2. QED
    BY <1>3, <1>7, <2>1, RelintAllAnnounces DEF ConfigChange
<1>8. ASSUME OnRelintAll PROVE Announces /\ VersionsGrow
  <2>1. config \in Nat
    BY DEF TypeOK, EnvTypes
  <2>2. QED
    BY <1>3, <1>8, <2>1, RelintAllAnnounces DEF OnRelintAll
<1>9. ASSUME NEW d \in Docs, PullCold(d) PROVE Announces /\ VersionsGrow
  <2> DEFINE r == Request(d, version[d], buffer[d], config)
  <2>1. r \in LintMsgType
    BY RequestsAreTyped DEF TypeOK, MainTypes, EnvTypes, LintMsgType
  <2>2. version[d] = lastVersion[d]
    BY <1>9 DEF PullCold, VersionsNameTexts, Opened, OpenDocs
  <2>3. UNCHANGED lastVersion
    BY <1>9 DEF PullCold
  <2>4. r.uri = d /\ r.version = lastVersion'[d]
    BY <2>2, <2>3 DEF Request
  <2>5. lintQ' = Append(lintQ, r)
    BY <1>9 DEF PullCold
  <2> HIDE DEF r
  <2>6. QED
    BY <1>3, <2>1, <2>3, <2>4, <2>5, OneAnnounced
<1>10. ASSUME ExternalIndex \/ DropDiagnostics \/ AcceptDiagnostics
              \/ \E d \in Docs : PullWarm(d)
       PROVE  Announces /\ VersionsGrow
  <2>1. UNCHANGED <<lintQ, lastVersion>>
    BY <1>10 DEF ExternalIndex, DropDiagnostics, AcceptDiagnostics, PullWarm, mainVars
  <2>2. QED
    BY <1>3, <2>1, NothingAnnounced
<1>11. QED
  BY <1>1, <1>2, <1>4, <1>5, <1>6, <1>7, <1>8, <1>9, <1>10 DEF Client, Pull, MainLoop

-----------------------------------------------------------------------------
\* A longer queue of last versions keeps every part of the invariant.
LEMMA AnnouncedSlot ==
  ASSUME Versions, TypeOK', SlotIsSound, Announces, VersionsGrow,
         UNCHANGED <<pending, inflight, dones, pool>>
  PROVE  SlotIsSound'
<1> USE DEF Versions
<1>1. PICK added \in Seq(LintMsgType) :
        /\ lintQ' = lintQ \o added
        /\ \A i \in 1 .. Len(added) : added[i].type = "request" =>
             added[i].uri \in Docs /\ added[i].version = lastVersion'[added[i].uri]
  BY DEF Announces
<1>2. ASSUME NEW i \in 1 .. Len(lintQ')
      PROVE  \/ i \in 1 .. Len(lintQ) /\ lintQ'[i] = lintQ[i]
             \/ /\ i \notin 1 .. Len(lintQ)
                /\ IsRequest(i)' => /\ lintQ'[i].uri \in Docs
                                    /\ lintQ'[i].version = lastVersion'[lintQ'[i].uri]
  <2>1. CASE i \in 1 .. Len(lintQ)
    BY <1>1, <2>1 DEF TypeOK, QueueTypes
  <2>2. CASE i \notin 1 .. Len(lintQ)
    <3>1. /\ i - Len(lintQ) \in 1 .. Len(added)
          /\ lintQ'[i] = added[i - Len(lintQ)]
      BY <1>1, <2>2 DEF TypeOK, QueueTypes
    <3>2. QED
      BY <1>1, <2>2, <3>1 DEF IsRequest
  <2>3. QED
    BY <2>1, <2>2
<1>3. ASSUME NEW i \in 1 .. Len(lintQ), IsRequest(i)
      PROVE  /\ lintQ[i].uri \in Docs /\ lintQ[i].version \in Nat
             /\ lintQ[i].version <= lastVersion'[lintQ[i].uri]
  <2>1. lintQ[i].uri \in Docs /\ lintQ[i].version \in Nat
    BY <1>3, QueuedRequests DEF IsRequest
  <2>2. lintQ[i].version <= lastVersion[lintQ[i].uri]
    BY <1>3 DEF IsRequest, VersionsNameTexts, Queued, Stated
  <2>3. QED
    BY <2>1, <2>2 DEF VersionsGrow, TypeOK, MainTypes
<1>4. ASSUME NEW d \in Docs, pending[d] # None
      PROVE  pending[d].version \in Nat /\ pending[d].version <= lastVersion'[d]
  <2>1. pending[d].version \in Nat
    BY <1>4 DEF TypeOK, LintTypes, RequestType
  <2>2. pending[d].version <= lastVersion[d]
    BY <1>4 DEF VersionsNameTexts, Pending, Stated
  <2>3. QED
    BY <2>1, <2>2 DEF VersionsGrow, TypeOK, MainTypes
<1>5. Len(lintQ) \in Nat /\ Len(lintQ') \in Nat
  BY DEF TypeOK, QueueTypes
<1>6. Ordered'
  <2>1. ASSUME NEW i \in 1 .. Len(lintQ'), NEW j \in 1 .. Len(lintQ'),
               i < j, IsRequest(i)', IsRequest(j)', lintQ'[i].uri = lintQ'[j].uri
        PROVE  lintQ'[i].version <= lintQ'[j].version
    <3>1. CASE j \in 1 .. Len(lintQ)
      BY <1>2, <1>5, <2>1, <3>1 DEF SlotIsSound, Ordered, IsRequest
    <3>2. CASE j \notin 1 .. Len(lintQ)
      <4>1. lintQ'[j].uri \in Docs /\ lintQ'[j].version = lastVersion'[lintQ'[j].uri]
        BY <1>2, <2>1, <3>2
      <4>2. lintQ'[i].version <= lastVersion'[lintQ'[i].uri]
        <5>1. CASE i \in 1 .. Len(lintQ)
          <6>1. lintQ'[i] = lintQ[i] /\ IsRequest(i)
            BY <1>2, <2>1, <5>1 DEF IsRequest
          <6>2. QED
            BY <1>3, <5>1, <6>1
        <5>2. CASE i \notin 1 .. Len(lintQ)
          <6>1. lintQ'[i].version = lastVersion'[lintQ'[i].uri]
            BY <1>2, <2>1, <5>2
          <6>2. QED
            BY <2>1, <4>1, <6>1 DEF TypeOK, MainTypes
        <5>3. QED
          BY <5>1, <5>2
      <4>3. QED
        BY <2>1, <4>1, <4>2
    <3>3. QED
      BY <3>1, <3>2
  <2>2. ASSUME NEW i \in 1 .. Len(lintQ'), IsRequest(i)', pending'[lintQ'[i].uri] # None
        PROVE  pending'[lintQ'[i].uri].version <= lintQ'[i].version
    <3>1. CASE i \in 1 .. Len(lintQ)
      BY <1>2, <2>2, <3>1 DEF SlotIsSound, Ordered, IsRequest
    <3>2. CASE i \notin 1 .. Len(lintQ)
      BY <1>2, <1>4, <2>2, <3>2
    <3>3. QED
      BY <3>1, <3>2
  <2>3. QED
    BY <2>1, <2>2 DEF Ordered
<1>7. DonesBehind'
  <2> SUFFICES ASSUME NEW done \in dones, ~NamesSlot(done)
               PROVE  Behind(done.uri, done.version)'
    BY DEF DonesBehind, NamesSlot
  <2>1. done.uri \in Docs /\ done.version \in Nat
    BY DEF TypeOK, QueueTypes, DoneType
  <2>2. Behind(done.uri, done.version)
    BY DEF SlotIsSound, DonesBehind
  <2>3. done.version < lastVersion'[done.uri]
    BY <2>1, <2>2 DEF Behind, VersionsGrow, TypeOK, MainTypes
  <2>4. ASSUME NEW i \in 1 .. Len(lintQ'), IsRequest(i)', lintQ'[i].uri = done.uri
        PROVE  done.version < lintQ'[i].version
    BY <1>2, <2>2, <2>3, <2>4 DEF Behind, IsRequest
  <2>5. QED
    BY <2>2, <2>3, <2>4 DEF Behind
<1>8. DoneIsUnique' /\ AtMostOneAnalyze'
  BY DEF SlotIsSound, DoneIsUnique, NamesSlot, AtMostOneAnalyze
<1>9. QED
  BY <1>6, <1>7, <1>8 DEF SlotIsSound

-----------------------------------------------------------------------------
(* Snapshots that end.                                                     *)

\* The analyze in the slot owes a `done`, and it is the only one to name the slot.
LEMMA CancelledSlot ==
  ASSUME SlotIsSound, UNCHANGED inflight, NEW cancelled \in SUBSET pool,
         pool' = pool \ cancelled, dones' = Unwound(cancelled)
  PROVE  /\ DoneIsUnique' /\ AtMostOneAnalyze'
         /\ \A done \in dones' : done \in dones \/ NamesSlot(done)
<1>1. ASSUME NEW job \in pool
      PROVE  pool = {job} /\ NamesSlot(Done(job)) /\ \A done \in dones : ~NamesSlot(done)
  BY DEF SlotIsSound, AtMostOneAnalyze, NamesSlot, Done
<1>2. CASE cancelled = {}
  <2>1. UNCHANGED <<pool, dones>>
    BY <1>2 DEF Unwound
  <2>2. QED
    BY <2>1 DEF SlotIsSound, DoneIsUnique, NamesSlot, AtMostOneAnalyze
<1>3. CASE cancelled # {}
  <2>1. PICK job \in pool : job \in cancelled
    BY <1>3
  <2>2. cancelled = {job} /\ pool' = {} /\ dones' = dones \cup {Done(job)}
    BY <1>1, <2>1 DEF Unwound
  <2>3. AtMostOneAnalyze'
    BY <2>2 DEF AtMostOneAnalyze
  <2>4. QED
    BY <1>1, <2>1, <2>2, <2>3 DEF DoneIsUnique, NamesSlot
<1>4. QED
  BY <1>2, <1>3

\* A step that writes the database, ends a job or does nothing here.
LEMMA QuietSlot ==
  ASSUME Versions, TypeOK', SlotIsSound,
         UNCHANGED <<lastVersion, lintQ, pending, inflight>>,
         NEW cancelled \in SUBSET pool, pool' = pool \ cancelled, dones' = Unwound(cancelled)
  PROVE  SlotIsSound'
<1>1. /\ DoneIsUnique' /\ AtMostOneAnalyze'
      /\ \A done \in dones' : done \in dones \/ NamesSlot(done)
  BY CancelledSlot
<1>2. Ordered'
  BY DEF SlotIsSound, Ordered, IsRequest
<1>3. DonesBehind'
  BY <1>1 DEF SlotIsSound, DonesBehind, Behind, NamesSlot, IsRequest
<1>4. QED
  BY <1>1, <1>2, <1>3 DEF SlotIsSound

-----------------------------------------------------------------------------
(* The lint thread.                                                        *)

\* What handle_lint_msg does to the pool: nothing, or what a database write does.
Cancels == \E cancelled \in SUBSET pool :
             pool' = pool \ cancelled /\ dones' = Unwound(cancelled)

LEMMA WriteCancels ==
  ASSUME NEW next, NEW condition, NEW messages, Write(next, CancelIf(condition), messages)
  PROVE  Cancels
BY DEF Write, CancelIf, Cancels

LEMMA NothingCancelled ==
  ASSUME UNCHANGED <<pool, dones>>
  PROVE  Cancels
<1>1. pool' = pool \ {} /\ dones' = Unwound({}) /\ {} \in SUBSET pool
  BY DEF Unwound
<1>2. QED
  BY <1>1 DEF Cancels

LEMMA HandleMsgSlot ==
  ASSUME Versions, TypeOK', SlotIsSound, HandleMsg
  PROVE  SlotIsSound'
<1> USE DEF Versions
<1> DEFINE msg == Head(lintQ)
<1>1. /\ lintQ \in Seq(LintMsgType) /\ lintQ # <<>> /\ lintQ' = Tail(lintQ)
      /\ UNCHANGED <<lastVersion, inflight>>
  BY DEF HandleMsg, mainVars, TypeOK, QueueTypes
<1>2. /\ 1 \in 1 .. Len(lintQ) /\ msg = lintQ[1]
      /\ \A i \in 1 .. Len(lintQ') :
           i + 1 \in 1 .. Len(lintQ) /\ 1 < i + 1 /\ lintQ'[i] = lintQ[i + 1]
  BY <1>1
<1>3. Cancels
  BY WriteCancels, NothingCancelled
  DEF HandleMsg, Enqueue, CloseDescription, ReadDescription, ReadChanged, ReadCreated,
      WriteAndRelint
<1>4. \A d \in Docs : \/ pending'[d] \in {pending[d], None}
                      \/ IsRequest(1) /\ msg.uri = d /\ pending'[d] = msg
  BY <1>2 DEF HandleMsg, Enqueue, CloseDescription, IsRequest, TypeOK, LintTypes
<1>5. /\ DoneIsUnique' /\ AtMostOneAnalyze'
      /\ \A done \in dones' : done \in dones \/ NamesSlot(done)
  BY <1>1, <1>3, CancelledSlot DEF Cancels
<1> HIDE DEF msg
<1>6. Ordered'
  <2>1. ASSUME NEW i \in 1 .. Len(lintQ'), NEW j \in 1 .. Len(lintQ'),
               i < j, IsRequest(i)', IsRequest(j)', lintQ'[i].uri = lintQ'[j].uri
        PROVE  lintQ'[i].version <= lintQ'[j].version
    <3>1. i + 1 < j + 1 /\ IsRequest(i + 1) /\ IsRequest(j + 1)
      BY <1>2, <2>1 DEF IsRequest
    <3>2. QED
      BY <1>2, <2>1, <3>1 DEF SlotIsSound, Ordered
  <2>2. ASSUME NEW i \in 1 .. Len(lintQ'), IsRequest(i)', pending'[lintQ'[i].uri] # None
        PROVE  pending'[lintQ'[i].uri].version <= lintQ'[i].version
    <3>1. IsRequest(i + 1) /\ lintQ[i + 1].uri \in Docs
      BY <1>2, <2>2, QueuedRequests DEF IsRequest
    <3>2. QED
      BY <1>2, <1>4, <2>2, <3>1 DEF SlotIsSound, Ordered
  <2>3. QED
    BY <2>1, <2>2 DEF Ordered
<1>7. DonesBehind'
  <2> SUFFICES ASSUME NEW done \in dones', ~NamesSlot(done)
               PROVE  Behind(done.uri, done.version)'
    BY <1>1 DEF DonesBehind, NamesSlot
  <2>1. done \in dones /\ done.uri \in Docs
    BY <1>5 DEF TypeOK, QueueTypes, DoneType
  <2>2. Behind(done.uri, done.version)
    BY <2>1 DEF SlotIsSound, DonesBehind
  <2>3. pending'[done.uri] # None => done.version < pending'[done.uri].version
    BY <1>2, <1>4, <2>1, <2>2 DEF Behind
  <2>4. ASSUME NEW i \in 1 .. Len(lintQ'), IsRequest(i)', lintQ'[i].uri = done.uri
        PROVE  done.version < lintQ'[i].version
    BY <1>2, <2>2, <2>4 DEF Behind, IsRequest
  <2>5. QED
    BY <1>1, <2>2, <2>3, <2>4 DEF Behind
<1>8. QED
  BY <1>5, <1>6, <1>7 DEF SlotIsSound

\* A dispatch empties the pool: it starts only when no analyze is in flight or
\* when it cancels the one that is.
LEMMA StartClears ==
  ASSUME Versions, SlotIsSound, NEW d \in Docs, MayStart(d), NEW next,
         NEW cancelled, cancelled = CancelIf(Unwinds(d, next))
  PROVE  /\ pool \ cancelled = {}
         /\ \A done \in Unwound(cancelled) :
              /\ done.uri = d => done.version < pending[d].version
              /\ done.version < lastVersion[done.uri]
              /\ \A i \in 1 .. Len(lintQ) :
                   IsRequest(i) /\ lintQ[i].uri = done.uri => done.version < lintQ[i].version
              /\ done.uri # d /\ pending[done.uri] # None
                   => done.version < pending[done.uri].version
<1> USE DEF Versions
<1>1. pending[d] # None /\ pending[d].version \in Nat /\ pending[d].version <= lastVersion[d]
  BY DEF MayStart, TypeOK, LintTypes, RequestType, VersionsNameTexts, Pending, Stated
<1>2. \A i \in 1 .. Len(lintQ) : IsRequest(i) /\ lintQ[i].uri = d =>
        /\ lintQ[i].version \in Nat /\ pending[d].version <= lintQ[i].version
  BY <1>1, QueuedRequests DEF SlotIsSound, Ordered, IsRequest
<1>3. ASSUME NEW done, done.uri \in Docs, done.version \in Nat, NamesSlot(done)
      PROVE  done.uri = d /\ done.version < pending[d].version
  <2>1. inflight # None
    BY <1>3, DocsAssumption DEF NamesSlot
  <2>2. QED
    BY <1>3, <2>1 DEF MayStart, Supersedes, NamesSlot
<1>4. pool \ cancelled = {}
  <2>1. CASE pool = {}
    BY <2>1
  <2>2. CASE pool # {}
    <3>1. PICK job \in pool : inflight = [uri |-> job.uri, version |-> job.version]
      BY <2>2 DEF SlotIsSound, AtMostOneAnalyze
    <3>2. inflight # None
      BY <3>1, DocsAssumption DEF TypeOK, PoolTypes, JobType
    <3>3. cancelled = pool
      BY <3>2 DEF MayStart, Unwinds, CancelIf
    <3>4. QED
      BY <3>3
  <2>3. QED
    BY <2>1, <2>2
<1>5. cancelled \subseteq pool
  BY DEF CancelIf
<1>6. ASSUME NEW done \in Unwound(cancelled)
      PROVE  /\ done.uri \in Docs /\ done.version \in Nat
             /\ NamesSlot(done) \/ Behind(done.uri, done.version)
  <2>1. CASE done \in dones
    BY <2>1 DEF SlotIsSound, DonesBehind, TypeOK, QueueTypes, DoneType
  <2>2. CASE done \notin dones
    <3>1. PICK job \in pool : done = Done(job)
      BY <1>5, <2>2 DEF Unwound
    <3>2. QED
      BY <3>1 DEF Done, NamesSlot, SlotIsSound, AtMostOneAnalyze, TypeOK, PoolTypes, JobType
  <2>3. QED
    BY <2>1, <2>2
<1>7. ASSUME NEW done \in Unwound(cancelled)
      PROVE  /\ done.uri = d => done.version < pending[d].version
             /\ done.version < lastVersion[done.uri]
             /\ \A i \in 1 .. Len(lintQ) :
                  IsRequest(i) /\ lintQ[i].uri = done.uri => done.version < lintQ[i].version
             /\ done.uri # d /\ pending[done.uri] # None
                  => done.version < pending[done.uri].version
  <2>1. CASE NamesSlot(done)
    <3>1. done.uri = d /\ done.version < pending[d].version
      BY <1>3, <1>6, <2>1
    <3>2. lastVersion[d] \in Nat
      BY DEF TypeOK, MainTypes
    <3>3. QED
      BY <1>1, <1>2, <1>6, <3>1, <3>2
  <2>2. CASE Behind(done.uri, done.version)
    BY <1>1, <2>2 DEF Behind
  <2>3. QED
    BY <1>6, <2>1, <2>2
<1>8. QED
  BY <1>4, <1>7

LEMMA DispatchSlot ==
  ASSUME Versions, TypeOK', SlotIsSound, NEW d \in Docs, DispatchBlocked(d) \/ DispatchSpawn(d)
  PROVE  SlotIsSound'
<1> DEFINE next == Prepare(pending[d]).db
           cancelled == CancelIf(Unwinds(d, next))
<1>1. /\ MayStart(d) /\ UNCHANGED <<lastVersion, lintQ>>
      /\ pending' = [pending EXCEPT ![d] = None]
      /\ dones' = Unwound(cancelled)
  BY DEF DispatchBlocked, DispatchSpawn, Write, mainVars
<1>2. /\ pool \ cancelled = {}
      /\ \A done \in Unwound(cancelled) :
           /\ done.uri = d => done.version < pending[d].version
           /\ done.version < lastVersion[done.uri]
           /\ \A i \in 1 .. Len(lintQ) :
                IsRequest(i) /\ lintQ[i].uri = done.uri => done.version < lintQ[i].version
           /\ done.uri # d /\ pending[done.uri] # None
                => done.version < pending[done.uri].version
  BY <1>1, StartClears
<1>3. dones' \subseteq DoneType
  BY DEF TypeOK, QueueTypes
<1>4. \/ inflight' = None /\ pool' = {}
      \/ \E job : /\ pool' = {job}
                  /\ job.uri = d /\ job.version = pending[d].version
                  /\ inflight' = [uri |-> d, version |-> pending[d].version]
  <2>1. CASE DispatchBlocked(d)
    BY <1>2, <2>1 DEF DispatchBlocked, Write
  <2>2. CASE DispatchSpawn(d)
    <3> DEFINE job == [id |-> CHOOSE id \in FreeIds : TRUE, uri |-> d,
                       version |-> pending[d].version, text |-> pending[d].text,
                       config |-> pending[d].config, view |-> next]
    <3>1. /\ pool' = (pool \ cancelled) \cup {job}
          /\ inflight' = [uri |-> d, version |-> pending[d].version]
      BY <2>2 DEF DispatchSpawn
    <3>2. job.uri = d /\ job.version = pending[d].version
      OBVIOUS
    <3> HIDE DEF job, cancelled
    <3>3. QED
      BY <1>2, <3>1, <3>2
  <2>3. QED
    BY <2>1, <2>2
<1> HIDE DEF next, cancelled
<1>5. \A done \in dones' : ~NamesSlot(done)'
  <2> SUFFICES ASSUME NEW done \in dones', NamesSlot(done)' PROVE FALSE
    OBVIOUS
  <2>1. done.uri \in Docs /\ done.version \in Nat
    BY <1>3 DEF DoneType
  <2>2. inflight' # None
    BY <2>1, DocsAssumption DEF NamesSlot
  <2>3. done.uri = d /\ done.version = pending[d].version
    BY <1>4, <2>2 DEF NamesSlot
  <2>4. QED
    BY <1>1, <1>2, <2>1, <2>3
<1>6. Ordered'
  BY <1>1, QueuedRequests DEF SlotIsSound, Ordered, IsRequest, Versions, TypeOK, LintTypes
<1>7. DonesBehind'
  BY <1>1, <1>2, <1>3 DEF DonesBehind, Behind, IsRequest, DoneType, Versions, TypeOK, LintTypes
<1>8. AtMostOneAnalyze' /\ DoneIsUnique'
  BY <1>4, <1>5 DEF AtMostOneAnalyze, DoneIsUnique, NamesSlot
<1>9. QED
  BY <1>6, <1>7, <1>8 DEF SlotIsSound

LEMMA DoneSlot ==
  ASSUME Versions, TypeOK', SlotIsSound, OnDone
  PROVE  SlotIsSound'
<1>1. UNCHANGED <<lastVersion, lintQ, pending, pool>>
  BY DEF OnDone, mainVars
<1>2. PICK done \in dones : /\ dones' = dones \ {done}
                            /\ inflight' = IF NamesSlot(done) THEN None ELSE inflight
  BY DEF OnDone, NamesSlot
<1>3. Ordered'
  BY <1>1 DEF SlotIsSound, Ordered, IsRequest
<1>4. CASE NamesSlot(done)
  <2>1. pool' = {}
    BY <1>1, <1>4 DEF SlotIsSound, AtMostOneAnalyze, NamesSlot
  <2>2. \A other \in dones' : ~NamesSlot(other)'
    <3>1. \A other \in dones' : other.uri \in Docs /\ other.version \in Nat
      BY DEF TypeOK, QueueTypes, DoneType
    <3>2. QED
      BY <1>2, <1>4, <3>1, DocsAssumption DEF NamesSlot
  <2>3. \A other \in dones' : Behind(other.uri, other.version)
    BY <1>2, <1>4 DEF SlotIsSound, DoneIsUnique, DonesBehind
  <2>4. DonesBehind'
    BY <1>1, <2>3 DEF DonesBehind, Behind, IsRequest
  <2>5. QED
    BY <1>3, <2>1, <2>2, <2>4 DEF SlotIsSound, DoneIsUnique, AtMostOneAnalyze
<1>5. CASE ~NamesSlot(done)
  <2>1. UNCHANGED inflight /\ dones' \subseteq dones
    BY <1>2, <1>5
  <2>2. QED
    BY <1>1, <1>3, <2>1
    DEF SlotIsSound, DonesBehind, DoneIsUnique, AtMostOneAnalyze, Behind, NamesSlot, IsRequest
<1>6. QED
  BY <1>4, <1>5

LEMMA OtherStepsSlot ==
  ASSUME Versions, TypeOK', SlotIsSound,
         \/ DrainDone \/ DispatchWait \/ InstallBuild
         \/ Finish \/ Panic \/ Harvest \/ UNCHANGED vars
  PROVE  SlotIsSound'
<1>1. UNCHANGED <<lastVersion, lintQ, pending, inflight>>
  BY DEF DrainDone, DispatchWait, InstallBuild, Finish, FinishAnalyze, Panic, PanicAnalyze,
         Harvest, HarvestDone, vars, mainVars, lintVars
<1>2. CASE Panic
  <2>1. pool' \subseteq pool /\ UNCHANGED dones
    BY <1>2 DEF Panic, PanicAnalyze
  <2>2. QED
    BY <1>1, <2>1
    DEF SlotIsSound, Ordered, DonesBehind, DoneIsUnique, AtMostOneAnalyze, Behind, NamesSlot,
        IsRequest
<1>3. CASE ~Panic
  <2>1. Cancels
    <3>1. ASSUME InstallBuild PROVE Cancels
      BY <3>1 DEF InstallBuild, Write, Cancels
    <3>2. ASSUME NEW job \in pool, FinishAnalyze(job) PROVE Cancels
      <4>1. {job} \in SUBSET pool
        OBVIOUS
      <4>2. QED
        BY <3>2, <4>1 DEF FinishAnalyze, Cancels
    <3>3. ASSUME DrainDone \/ DispatchWait \/ Harvest \/ UNCHANGED vars PROVE Cancels
      BY <3>3, NothingCancelled DEF DrainDone, DispatchWait, Harvest, HarvestDone, vars
    <3>4. QED
      BY <1>3, <3>1, <3>2, <3>3 DEF Finish
  <2>2. QED
    BY <1>1, <2>1, QuietSlot DEF Cancels
<1>4. QED
  BY <1>2, <1>3

-----------------------------------------------------------------------------
LEMMA SlotInit == Init => SlotIsSound
BY DEF Init, SlotIsSound, Ordered, DonesBehind, DoneIsUnique, AtMostOneAnalyze

LEMMA SlotStep ==
  ASSUME ~RestartVersions, Versions, SlotIsSound, [Next]_vars
  PROVE  SlotIsSound'
<1>1. TypeOK'
  BY TypeStep DEF Versions
<1>2. ASSUME Client \/ Pull \/ MainLoop PROVE SlotIsSound'
  BY <1>1, <1>2, MainSideAnnounces, AnnouncedSlot
<1>3. ASSUME LintThread PROVE SlotIsSound'
  BY <1>1, <1>3, HandleMsgSlot, DispatchSlot, DoneSlot, OtherStepsSlot DEF LintThread
<1>4. QED
  BY <1>1, <1>2, <1>3, OtherStepsSlot DEF Next, Rest

\* LintWorker::inflight, "at most one runs at a time": whatever is superseded,
\* cancelled by a write, late or lost to a panic, no two analyze jobs hold a
\* snapshot together, and the slot names the one that does.  For a client that
\* never gives a document the same version twice.
THEOREM OneAnalyzeAtATime ==
  ASSUME ~RestartVersions
  PROVE  Spec => []AtMostOneAnalyze
<1>1. Init => TypeOK /\ VersionsNameTexts /\ SlotIsSound
  BY TypeInit, VersionsInit, SlotInit
<1>2. TypeOK /\ VersionsNameTexts /\ SlotIsSound /\ [Next]_vars
        => (TypeOK /\ VersionsNameTexts /\ SlotIsSound)'
  BY TypeStep, VersionsStep, SlotStep DEF Versions
<1>3. SlotIsSound => AtMostOneAnalyze
  BY DEF SlotIsSound
<1>4. QED
  BY <1>1, <1>2, <1>3, PTL DEF Spec

-----------------------------------------------------------------------------
(* The queue drains as long as no rule panics.                             *)

\* The analyze that holds the slot still runs, or its `done` is on the way.
SlotIsOwed == inflight # None => \E job \in pool \cup dones : NamesSlot(job)

\* Once dispatched, a request waits only for the slot.
PendingWaits == pc = "select" /\ inflight = None => \A d \in Docs : pending[d] = None

Draining == SlotIsOwed /\ PendingWaits /\ budget.panics = 0

LEMMA CancelledIsOwed ==
  ASSUME SlotIsOwed, UNCHANGED inflight, Cancels
  PROVE  SlotIsOwed'
<1>1. PICK cancelled \in SUBSET pool : pool' = pool \ cancelled /\ dones' = Unwound(cancelled)
  BY DEF Cancels
<1>2. \A job \in cancelled : Done(job) \in dones' /\ (NamesSlot(job) => NamesSlot(Done(job)))
  BY <1>1 DEF Unwound, Done, NamesSlot
<1>3. dones \subseteq dones'
  BY <1>1 DEF Unwound
<1>4. QED
  BY <1>1, <1>2, <1>3 DEF SlotIsOwed, NamesSlot

LEMMA DrainingMainSide ==
  ASSUME TypeOK, Draining, Client \/ Pull \/ MainLoop
  PROVE  Draining'
<1>1. UNCHANGED <<pc, pending, inflight, dones, pool>>
  BY DEF Client, Pull, MainLoop, DidOpen, DidClose, DidChange, ConfigChange, DiskWrite,
         AddFolder, ExternalIndex, PullWarm, PullCold, DropDiagnostics, AcceptDiagnostics,
         OnRelintAll, lintVars
<1>2. budget'.panics = budget.panics
  BY DEF Client, Pull, MainLoop, DidOpen, DidClose, DidChange, ConfigChange, DiskWrite,
         AddFolder, ExternalIndex, PullWarm, PullCold, DropDiagnostics, AcceptDiagnostics,
         OnRelintAll, Spend, envVars, TypeOK, EnvTypes, BudgetType
<1>3. QED
  BY <1>1, <1>2 DEF Draining, SlotIsOwed, PendingWaits, NamesSlot

LEMMA DrainingLintThread ==
  ASSUME TypeOK, Draining, LintThread
  PROVE  Draining'
<1>1. UNCHANGED budget
  BY DEF LintThread, HandleMsg, DrainDone, DispatchBlocked, DispatchSpawn, DispatchWait,
         OnDone, InstallBuild, envVars
<1>2. ASSUME HandleMsg PROVE Draining'
  <2>1. Cancels
    BY <1>2, WriteCancels, NothingCancelled
    DEF HandleMsg, Enqueue, CloseDescription, ReadDescription, ReadChanged, ReadCreated,
        WriteAndRelint
  <2>2. pc' = "drain" /\ UNCHANGED inflight
    BY <1>2 DEF HandleMsg
  <2>3. QED
    BY <1>1, <2>1, <2>2, CancelledIsOwed DEF Draining, PendingWaits
<1>3. ASSUME DrainDone \/ DispatchWait PROVE Draining'
  <2>1. UNCHANGED <<inflight, pending, pool, dones>>
    BY <1>3 DEF DrainDone, DispatchWait
  <2>2. PendingWaits'
    BY <1>3, <2>1 DEF DrainDone, DispatchWait, MayStart, PendingWaits
  <2>3. QED
    BY <1>1, <2>1, <2>2 DEF Draining, SlotIsOwed, NamesSlot
<1>4. ASSUME NEW d \in Docs, DispatchBlocked(d) PROVE Draining'
  <2>1. pc' = "dispatch" /\ inflight' = None
    BY <1>4 DEF DispatchBlocked
  <2>2. QED
    BY <1>1, <2>1 DEF Draining, SlotIsOwed, PendingWaits
<1>5. ASSUME NEW d \in Docs, DispatchSpawn(d) PROVE Draining'
  <2> DEFINE next == Prepare(pending[d]).db
             job == [id |-> CHOOSE id \in FreeIds : TRUE, uri |-> d,
                     version |-> pending[d].version, text |-> pending[d].text,
                     config |-> pending[d].config, view |-> next]
  <2>1. job \in pool' /\ inflight' = [uri |-> d, version |-> pending[d].version]
    BY <1>5 DEF DispatchSpawn
  <2>2. job.uri = d /\ job.version = pending[d].version
    OBVIOUS
  <2>3. inflight' # None
    BY <1>5, <2>1, DocsAssumption
    DEF DispatchSpawn, MayStart, TypeOK, LintTypes, RequestType
  <2> HIDE DEF job
  <2>4. SlotIsOwed' /\ PendingWaits'
    BY <2>1, <2>2, <2>3 DEF SlotIsOwed, PendingWaits, NamesSlot
  <2>5. QED
    BY <1>1, <2>4 DEF Draining
<1>6. ASSUME OnDone PROVE Draining'
  <2>1. PICK done \in dones : /\ dones' = dones \ {done} /\ pool' = pool
                              /\ inflight' = IF NamesSlot(done) THEN None ELSE inflight
    BY <1>6 DEF OnDone, NamesSlot
  <2>2. SlotIsOwed'
    BY <2>1 DEF Draining, SlotIsOwed, NamesSlot
  <2>3. QED
    BY <1>1, <1>6, <2>2 DEF OnDone, Draining, PendingWaits
<1>7. ASSUME InstallBuild PROVE Draining'
  <2>1. Cancels /\ UNCHANGED <<pc, pending, inflight>>
    BY <1>7 DEF InstallBuild, Write, Cancels
  <2>2. QED
    BY <1>1, <2>1, CancelledIsOwed DEF Draining, PendingWaits
<1>8. QED
  BY <1>2, <1>3, <1>4, <1>5, <1>6, <1>7 DEF LintThread

LEMMA DrainingPools ==
  ASSUME TypeOK, Draining, Finish \/ Panic \/ Harvest \/ UNCHANGED vars
  PROVE  Draining'
<1>1. ~Panic
  BY DEF Panic, PanicAnalyze, Spend, Draining
<1>2. UNCHANGED <<pc, pending, inflight, budget>>
  BY <1>1 DEF Finish, FinishAnalyze, Harvest, HarvestDone, vars, lintVars, envVars
<1>3. Cancels
  <2>1. ASSUME NEW job \in pool, FinishAnalyze(job) PROVE Cancels
    <3>1. {job} \in SUBSET pool
      OBVIOUS
    <3>2. QED
      BY <2>1, <3>1 DEF FinishAnalyze, Cancels
  <2>2. QED
    BY <1>1, <2>1, NothingCancelled DEF Finish, Harvest, HarvestDone, vars
<1>4. QED
  BY <1>2, <1>3, CancelledIsOwed DEF Draining, PendingWaits

\* try_dispatch, "so the queue keeps draining": the lint thread goes back to
\* sleep only with nothing pending or with a `done` to wait for, for any client,
\* as long as no rule panics.
THEOREM QueueKeepsDraining ==
  ASSUME MaxPanics = 0
  PROVE  Spec => []QueueDrains
<1>1. Init => TypeOK /\ Draining
  <2>1. Init => Draining
    BY DEF Init, Draining, SlotIsOwed, PendingWaits
  <2>2. QED
    BY <2>1, TypeInit
<1>2. TypeOK /\ Draining /\ [Next]_vars => (TypeOK /\ Draining)'
  BY TypeStep, DrainingMainSide, DrainingLintThread, DrainingPools DEF Next, Rest
<1>3. Draining => QueueDrains
  BY DEF Draining, SlotIsOwed, PendingWaits, QueueDrains, NamesSlot
<1>4. QED
  BY <1>1, <1>2, <1>3, PTL DEF Spec

-----------------------------------------------------------------------------
(***************************************************************************)
(* What the client shows when the server has come to rest is current, open *)
(* buffers win over the disk, and no lint is unwound without a successor.  *)
(* The hypotheses leave out what the code does not get right: each of them *)
(* names a situation in which TLC finds a counterexample.                  *)
(***************************************************************************)

\* Versions are not used twice, no rule panics, and the database is not seeded
\* over open buffers: by an added folder or a created file.
Ordinary ==
  ~RestartVersions /\ MaxPanics = 0 /\ MaxSeeds = 0 /\ "created" \notin EventKinds

\* The messages of an ordinary client.
Calm == /\ budget.seeds = 0
        /\ \A i \in 1 .. Len(lintQ) : lintQ[i].type \in {"request", "closeDescription", "changed"}

\* A request for a document as it is open now.
IsLive(m, d) == m.type = "request" /\ m.uri = d /\ m.version = version[d]

\* A message that has the lint thread read document d from disk.
ReadsDisk(m, d) == \/ m.type = "closeDescription" /\ d = Desc
                   \/ m.type = "changed" /\ m.uri = d

\* What a step of the client or of the main loop adds to the queue: requests for
\* open documents as they are now, and orders to read closed ones from disk.
Orderly(added) == \A i \in 1 .. Len(added) :
  \/ \E d \in OpenDocs : IsLive(added[i], d)
  \/ added[i].uri \in Docs \ OpenDocs /\ ReadsDisk(added[i], added[i].uri)

Sends == \E added \in Seq(LintMsgType) :
  /\ lintQ' = lintQ \o added /\ Orderly(added)'
  /\ \A d \in OpenDocs' : \/ d \in OpenDocs /\ version'[d] = version[d] /\ buffer'[d] = buffer[d]
                          \/ \E i \in 1 .. Len(added) : IsLive(added[i], d)'
  /\ ~IsOpen(Desc)' =>
       /\ IsOpen(Desc) => \E i \in 1 .. Len(added) : added[i].type = "closeDescription"
       /\ disk'[Desc] # disk[Desc] => \E i \in 1 .. Len(added) : ReadsDisk(added[i], Desc)

-----------------------------------------------------------------------------
(* The client and the main loop.                                           *)

\* The re-lint of a pushing server requests every open document.
LEMMA RelintAllAsks ==
  ASSUME TypeOK, NEW revision \in Nat, ~PullMode, RequestRelintAll(revision)
  PROVE  \E added \in Seq(LintMsgType) :
           /\ lintQ' = lintQ \o added
           /\ \A i \in 1 .. Len(added) :
                \E d \in OpenDocs : added[i] = Request(d, version[d], buffer[d], revision)
           /\ \A d \in OpenDocs : \E i \in 1 .. Len(added) :
                added[i] = Request(d, version[d], buffer[d], revision)
<1> DEFINE n == Cardinality(OpenDocs)
           ask(d) == Request(d, version[d], buffer[d], revision)
<1>1. PICK order \in Orders(OpenDocs) : lintQ' = lintQ \o [i \in 1 .. n |-> ask(order[i])]
  BY DEF RequestRelintAll
<1>2. order \in [1 .. n -> OpenDocs] /\ n \in Nat /\ IsFiniteSet(OpenDocs)
  BY OpenDocsAreFinite DEF Orders
<1>3. order \in Surjection(1 .. n, OpenDocs)
  <2>1. order \in Injection(1 .. n, OpenDocs)
    BY <1>1, <1>2 DEF Orders, Injection, IsInjective
  <2>2. Cardinality(1 .. n) = n
    BY <1>2, FS_Interval
  <2>3. QED
    BY <1>2, <2>1, <2>2, FS_Injection
<1>4. \A d \in OpenDocs : ask(d) \in LintMsgType
  BY RequestsAreTyped DEF TypeOK, MainTypes, LintMsgType, OpenDocs
<1> DEFINE added == [i \in 1 .. n |-> ask(order[i])]
<1> HIDE DEF n, ask
<1>5. added \in Seq(LintMsgType) /\ Len(added) = n
  <2>1. added \in [1 .. n -> LintMsgType]
    BY <1>2, <1>4
  <2>2. QED
    BY <1>2, <2>1, SeqDef
<1>6. \A i \in 1 .. Len(added) : order[i] \in OpenDocs /\ added[i] = ask(order[i])
  BY <1>2, <1>5
<1>7. \A d \in OpenDocs : \E i \in 1 .. Len(added) : added[i] = ask(d)
  <2> SUFFICES ASSUME NEW d \in OpenDocs PROVE \E i \in 1 .. Len(added) : added[i] = ask(d)
    OBVIOUS
  <2>1. PICK i \in 1 .. n : order[i] = d
    BY <1>3 DEF Surjection
  <2>2. QED
    BY <1>5, <2>1
<1>8. lintQ' = lintQ \o added
  BY <1>1
<1> HIDE DEF added
<1>9. QED
  BY <1>5, <1>6, <1>7, <1>8 DEF ask

LEMMA NothingSent == TypeOK /\ UNCHANGED <<lintQ, version, buffer, disk>> => Sends
<1> SUFFICES ASSUME TypeOK, UNCHANGED <<lintQ, version, buffer, disk>> PROVE Sends
  OBVIOUS
<1> DEFINE none == <<>>
<1>1. none \in Seq(LintMsgType) /\ Len(none) = 0 /\ Orderly(none)'
  BY DEF Orderly
<1>2. lintQ' = lintQ \o none
  BY DEF TypeOK, QueueTypes
<1> HIDE DEF none
<1>3. QED
  BY <1>1, <1>2 DEF Sends, OpenDocs, IsOpen

LEMMA RequestSent ==
  ASSUME TypeOK, NEW m \in LintMsgType, lintQ' = Append(lintQ, m), UNCHANGED disk,
         NEW d \in OpenDocs',
         m.type = "request" /\ m.uri = d /\ m.version = version'[d],
         \A e \in Docs \ {d} : version'[e] = version[e] /\ buffer'[e] = buffer[e]
  PROVE  Sends
<1> DEFINE added == <<m>>
<1>1. added \in Seq(LintMsgType) /\ Len(added) = 1 /\ added[1] = m
  OBVIOUS
<1>2. lintQ' = lintQ \o added
  <2>1. lintQ \in Seq(LintMsgType)
    BY DEF TypeOK, QueueTypes
  <2>2. Append(lintQ, m) = lintQ \o <<m>>
    BY <2>1
  <2>3. QED
    BY <2>2
<1> HIDE DEF added
<1>3. Orderly(added)'
  BY <1>1 DEF Orderly, IsLive
<1>4. \A e \in OpenDocs' : \/ e \in OpenDocs /\ version'[e] = version[e] /\ buffer'[e] = buffer[e]
                           \/ \E i \in 1 .. Len(added) : IsLive(added[i], e)'
  BY <1>1 DEF OpenDocs, IsOpen, IsLive
<1>5. ~IsOpen(Desc)' => ~IsOpen(Desc)
  BY DEF OpenDocs, IsOpen, Docs
<1>6. QED
  BY <1>1, <1>2, <1>3, <1>4, <1>5 DEF Sends

LEMMA OrderSent ==
  ASSUME TypeOK, NEW m \in LintMsgType, NEW condition \in BOOLEAN,
         lintQ' = lintQ \o OneIf(condition, m),
         m.uri \in Docs, condition => ReadsDisk(m, m.uri) /\ ~IsOpen(m.uri)',
         \A e \in OpenDocs' : /\ version[e] = version'[e] /\ buffer'[e] = buffer[e],
         IsOpen(Desc) /\ ~IsOpen(Desc)' => condition /\ m.type = "closeDescription",
         ~IsOpen(Desc)' /\ disk'[Desc] # disk[Desc] => condition /\ m.uri = Desc
  PROVE  Sends
<1> DEFINE added == OneIf(condition, m)
<1>1. /\ added \in Seq(LintMsgType) /\ \A i \in 1 .. Len(added) : condition /\ added[i] = m
      /\ condition => 1 .. Len(added) = 1 .. 1 /\ added[1] = m
  BY DEF OneIf
<1>2. lintQ' = lintQ \o added
  OBVIOUS
<1> HIDE DEF added
<1>3. Orderly(added)'
  BY <1>1 DEF Orderly, ReadsDisk, OpenDocs, IsOpen
<1>4. \A e \in OpenDocs' : e \in OpenDocs
  BY DEF OpenDocs, IsOpen
<1>5. condition => \E i \in 1 .. Len(added) : added[i] = m
  <2>1. 1 \in 1 .. 1
    OBVIOUS
  <2>2. QED
    BY <1>1, <2>1
<1>6. QED
  BY <1>2, <1>1, <1>3, <1>4, <1>5 DEF Sends, ReadsDisk

LEMMA RelintAllSent ==
  ASSUME TypeOK, NEW revision \in Nat, RequestRelintAll(revision),
         UNCHANGED <<version, buffer, disk>>
  PROVE  Sends
<1>1. CASE PullMode
  BY <1>1, NothingSent DEF RequestRelintAll
<1>2. CASE ~PullMode
  <2>1. PICK added \in Seq(LintMsgType) :
          /\ lintQ' = lintQ \o added
          /\ \A i \in 1 .. Len(added) :
               \E d \in OpenDocs : added[i] = Request(d, version[d], buffer[d], revision)
    BY <1>2, RelintAllAsks
  <2>2. Orderly(added)'
    <3>1. OpenDocs' = OpenDocs
      BY DEF OpenDocs, IsOpen
    <3>2. \A d \in OpenDocs : /\ Request(d, version[d], buffer[d], revision).type = "request"
                              /\ Request(d, version[d], buffer[d], revision).uri = d
                              /\ Request(d, version[d], buffer[d], revision).version = version[d]
      BY DEF Request
    <3>3. QED
      BY <2>1, <3>1, <3>2 DEF Orderly, IsLive
  <2>3. QED
    BY <2>1, <2>2 DEF Sends, OpenDocs, IsOpen
<1>3. QED
  BY <1>1, <1>2

LEMMA MainSideSends ==
  ASSUME Ordinary, Versions, TypeOK', Calm, Client \/ Pull \/ MainLoop
  PROVE  Sends
<1> USE DEF Versions
<1>1. ASSUME NEW d \in Docs, DidOpen(d) \/ \E text \in Texts : DidChange(d, text) PROVE Sends
  <2> DEFINE m == Request(d, version'[d], buffer'[d], config)
  <2>1. m \in LintMsgType
    BY RequestsAreTyped DEF TypeOK, MainTypes, EnvTypes, LintMsgType
  <2>2. m.type = "request" /\ m.uri = d /\ m.version = version'[d] /\ d \in OpenDocs'
    <3>1. version'[d] > 0
      BY <1>1 DEF DidOpen, DidChange, TypeOK, MainTypes
    <3>2. QED
      BY <3>1 DEF Request, OpenDocs, IsOpen
  <2>3. lintQ' = Append(lintQ, m) /\ UNCHANGED disk
    BY <1>1 DEF DidOpen, DidChange
  <2>4. \A e \in Docs \ {d} : version'[e] = version[e] /\ buffer'[e] = buffer[e]
    BY <1>1 DEF DidOpen, DidChange, TypeOK, MainTypes
  <2> HIDE DEF m
  <2>5. QED
    BY <2>1, <2>2, <2>3, <2>4, RequestSent
<1>2. ASSUME NEW d \in Docs, DidClose(d) PROVE Sends
  <2> DEFINE m == [type |-> "closeDescription", uri |-> d]
  <2>1. m \in LintMsgType /\ m.uri = d /\ m.type = "closeDescription" /\ (d = Desc => ReadsDisk(m, m.uri))
    BY DEF LintMsgType, ReadsDisk
  <2>2. lintQ' = lintQ \o OneIf(d = Desc, m) /\ UNCHANGED <<disk, buffer>>
    BY <1>2 DEF DidClose, envVars
  <2>3. version' = [version EXCEPT ![d] = 0]
    BY <1>2 DEF DidClose
  <2>4. ~IsOpen(d)' /\ \A e \in Docs \ {d} : version'[e] = version[e]
    BY <2>3 DEF IsOpen, TypeOK, MainTypes
  <2>5. (d = Desc) \in BOOLEAN
    OBVIOUS
  <2> HIDE DEF m
  <2>6. IsOpen(Desc) /\ ~IsOpen(Desc)' => d = Desc
    BY <2>4 DEF IsOpen, Docs
  <2>7. \A e \in OpenDocs' : version'[e] = version[e]
    BY <2>4 DEF OpenDocs
  <2>8. QED
    BY <2>1, <2>2, <2>4, <2>5, <2>6, <2>7, OrderSent
<1>3. ASSUME NEW d \in Docs, NEW text \in Texts, NEW kind \in EventKinds,
             DiskWrite(d, text, kind)
      PROVE  Sends
  <2> DEFINE m == [type |-> kind, uri |-> d]
  <2>1. kind = "changed"
    BY DocsAssumption DEF Ordinary
  <2>2. m \in LintMsgType /\ m.uri = d /\ ReadsDisk(m, m.uri)
    BY <2>1 DEF LintMsgType, ReadsDisk
  <2>3. lintQ' = lintQ \o OneIf(~IsOpen(d), m) /\ UNCHANGED <<version, buffer>>
    BY <1>3, <2>1 DEF DiskWrite, mainVars, OneIf
  <2>4. disk'[Desc] # disk[Desc] => d = Desc
    BY <1>3 DEF DiskWrite, TypeOK, EnvTypes
  <2> HIDE DEF m
  <2>5. IsOpen(d)' = IsOpen(d) /\ IsOpen(Desc)' = IsOpen(Desc) /\ (~IsOpen(d)) \in BOOLEAN
    BY <2>3 DEF IsOpen
  <2>6. QED
    BY <2>2, <2>3, <2>4, <2>5, OrderSent
<1>4. ASSUME NEW d \in Docs, PullCold(d) PROVE Sends
  <2> DEFINE m == Request(d, version[d], buffer[d], config)
  <2>1. m \in LintMsgType
    BY RequestsAreTyped DEF TypeOK, MainTypes, EnvTypes, LintMsgType
  <2>2. UNCHANGED <<version, buffer, disk>>
    BY <1>4 DEF PullCold, envVars
  <2>3. m.type = "request" /\ m.uri = d /\ m.version = version'[d] /\ d \in OpenDocs'
    BY <1>4, <2>2 DEF PullCold, VersionsNameTexts, Opened, OpenDocs, IsOpen, Request
  <2>4. lintQ' = Append(lintQ, m)
    BY <1>4 DEF PullCold
  <2> HIDE DEF m
  <2>5. QED
    BY <2>1, <2>2, <2>3, <2>4, RequestSent
<1>5. ASSUME ConfigChange PROVE Sends
  <2>1. config + 1 \in Nat /\ RequestRelintAll(config + 1) /\ UNCHANGED <<version, buffer, disk>>
    BY <1>5 DEF ConfigChange, TypeOK, EnvTypes
  <2>2. QED
    BY <2>1, RelintAllSent
<1>6. ASSUME OnRelintAll PROVE Sends
  <2>1. config \in Nat /\ RequestRelintAll(config) /\ UNCHANGED <<version, buffer, disk>>
    BY <1>6 DEF OnRelintAll, envVars, TypeOK, EnvTypes
  <2>2. QED
    BY <2>1, RelintAllSent
<1>7. ~AddFolder
  BY DEF AddFolder, Spend, Calm
<1>8. ASSUME ExternalIndex \/ (\E d \in Docs : PullWarm(d)) \/ DropDiagnostics \/ AcceptDiagnostics
      PROVE  Sends
  BY <1>8, NothingSent
  DEF ExternalIndex, PullWarm, DropDiagnostics, AcceptDiagnostics, mainVars, envVars
<1>9. QED
  BY <1>1, <1>2, <1>3, <1>4, <1>5, <1>6, <1>7, <1>8 DEF Client, Pull, MainLoop

LEMMA CalmInit == Ordinary /\ Init => Calm
BY DEF Ordinary, Init, Calm

LEMMA CalmStep ==
  ASSUME Ordinary, Versions, TypeOK', Calm, [Next]_vars
  PROVE  Calm'
<1> USE DEF Versions
<1>1. ASSUME Client \/ Pull \/ MainLoop PROVE Calm'
  <2>1. PICK added \in Seq(LintMsgType) : lintQ' = lintQ \o added /\ Orderly(added)'
    BY <1>1, MainSideSends DEF Sends
  <2>2. \A i \in 1 .. Len(added) : added[i].type \in {"request", "closeDescription", "changed"}
    BY <2>1 DEF Orderly, IsLive, ReadsDisk
  <2>3. \A i \in 1 .. Len(lintQ') : lintQ'[i].type \in {"request", "closeDescription", "changed"}
    <3>1. lintQ \in Seq(LintMsgType)
      BY DEF TypeOK, QueueTypes
    <3>2. QED
      BY <2>1, <2>2, <3>1 DEF Calm
  <2>4. budget'.seeds = 0
    <3>1. ASSUME NEW bound, Spend(bound) PROVE budget'.seeds = 0
      BY <3>1 DEF Spend, Calm, TypeOK, EnvTypes, BudgetType
    <3>2. ASSUME NEW d \in Docs, DidOpen(d) PROVE budget'.seeds = 0
      BY <3>2 DEF DidOpen, Calm, TypeOK, EnvTypes, BudgetType
    <3>3. UNCHANGED budget => budget'.seeds = 0
      BY DEF Calm
    <3>4. QED
      BY <1>1, <3>1, <3>2, <3>3 DEF Client, Pull, MainLoop, DidClose, DidChange, ConfigChange,
         DiskWrite, AddFolder, ExternalIndex, PullWarm, PullCold, DropDiagnostics,
         AcceptDiagnostics, OnRelintAll, envVars
  <2>5. QED
    BY <2>3, <2>4 DEF Calm
<1>2. ASSUME HandleMsg PROVE Calm'
  <2>1. lintQ # <<>> /\ lintQ' = Tail(lintQ) /\ UNCHANGED budget
    BY <1>2 DEF HandleMsg, envVars
  <2>2. \A i \in 1 .. Len(lintQ') : i + 1 \in 1 .. Len(lintQ) /\ lintQ'[i] = lintQ[i + 1]
    BY <2>1 DEF TypeOK, QueueTypes
  <2>3. QED
    BY <2>1, <2>2 DEF Calm
<1>3. ASSUME Finish \/ Panic \/ Harvest \/ UNCHANGED vars \/ (LintThread /\ ~HandleMsg) PROVE Calm'
  <2>1. UNCHANGED lintQ /\ budget'.seeds = budget.seeds
    BY <1>3 DEF Finish, FinishAnalyze, Panic, PanicAnalyze, Harvest, HarvestDone, vars, envVars,
       LintThread, DrainDone, DispatchBlocked, DispatchSpawn, DispatchWait, OnDone, InstallBuild,
       Spend, TypeOK, EnvTypes, BudgetType
  <2>2. QED
    BY <2>1 DEF Calm
<1>4. QED
  BY <1>1, <1>2, <1>3 DEF Next, Rest

-----------------------------------------------------------------------------
(* No lint is lost.                                                        *)

LEMMA OutGrows ==
  ASSUME TypeOK, NEW added \in Seq(OutboundType), outQ' = outQ \o added, added # <<>>
  PROVE  Len(outQ') > Len(outQ)
BY DEF TypeOK, QueueTypes

LEMMA RelintGrows ==
  ASSUME TypeOK, NEW next, NEW condition, NEW relint, condition => relint,
         Write(next, CancelIf(condition), OneIf(relint, RelintAll)), pool' # pool
  PROVE  Len(outQ') > Len(outQ)
<1>1. condition /\ relint
  BY DEF Write, CancelIf
<1>2. outQ' = outQ \o <<RelintAll>> /\ <<RelintAll>> \in Seq(OutboundType)
  BY <1>1, RelintType DEF Write, OneIf
<1>3. QED
  BY <1>2, OutGrows

LEMMA SlotIsARecord ==
  ASSUME TypeOK, NEW job \in JobType
  PROVE  [uri |-> job.uri, version |-> job.version] # None
BY DocsAssumption DEF JobType

LEMMA LintIsSucceeded ==
  ASSUME Versions, SlotIsSound, Calm, budget.panics = 0, [Next]_vars, NEW job \in pool \ pool'
  PROVE  \/ Len(outQ') > Len(outQ)
         \/ /\ pending[job.uri] # None /\ pending[job.uri].version > job.version
            /\ inflight' = [uri |-> job.uri, version |-> pending[job.uri].version]
<1> USE DEF Versions
<1>1. ~UNCHANGED pool
  OBVIOUS
<1>2. ASSUME HandleMsg PROVE Len(outQ') > Len(outQ)
  <2>1. Head(lintQ).type \in {"request", "closeDescription", "changed"}
    BY <1>2 DEF HandleMsg, Calm, TypeOK, QueueTypes
  <2>2. ASSUME ReadDescription PROVE Len(outQ') > Len(outQ)
    BY <1>1, <2>2, RelintGrows DEF ReadDescription
  <2>3. ASSUME NEW d, ReadChanged(d) PROVE Len(outQ') > Len(outQ)
    BY <1>1, <2>3, RelintGrows DEF ReadChanged, WriteAndRelint
  <2>4. QED
    BY <1>1, <1>2, <2>1, <2>2, <2>3 DEF HandleMsg, Enqueue, CloseDescription
<1>3. ASSUME NEW d \in Docs, DispatchBlocked(d) PROVE Len(outQ') > Len(outQ)
  <2> DEFINE r == pending[d]
             message == Diagnostics(r, Prepare(r).db)
             added == Prepare(r).out \o <<message>>
  <2>1. r \in RequestType
    BY <1>3 DEF DispatchBlocked, MayStart, TypeOK, LintTypes
  <2>2. Prepare(r).out \in Seq(OutboundType) /\ message \in OutboundType
    BY <2>1, PrepareType, DiagnosticsAreTyped DEF RequestType
  <2>3. outQ' = outQ \o added
    BY <1>3 DEF DispatchBlocked, Write
  <2> HIDE DEF message
  <2>4. added \in Seq(OutboundType) /\ added # <<>>
    BY <2>2
  <2>5. QED
    BY <2>3, <2>4, OutGrows
<1>4. ASSUME NEW d \in Docs, DispatchSpawn(d)
      PROVE  /\ pending[job.uri] # None /\ pending[job.uri].version > job.version
             /\ inflight' = [uri |-> job.uri, version |-> pending[job.uri].version]
  <2>1. inflight = [uri |-> job.uri, version |-> job.version] /\ inflight # None
    BY SlotIsARecord DEF SlotIsSound, AtMostOneAnalyze, TypeOK, PoolTypes
  <2>2. Supersedes(d) /\ pending[d] # None
    BY <1>4, <2>1 DEF DispatchSpawn, MayStart
  <2>3. job.uri = d /\ pending[d].version > job.version
    BY <2>1, <2>2 DEF Supersedes
  <2>4. QED
    BY <1>4, <2>2, <2>3 DEF DispatchSpawn
<1>5. ASSUME InstallBuild PROVE Len(outQ') > Len(outQ)
  <2>1. outQ' = outQ \o <<RelintAll>> /\ <<RelintAll>> \in Seq(OutboundType)
    BY <1>5, RelintType DEF InstallBuild, Write, OneIf
  <2>2. QED
    BY <2>1, OutGrows
<1>6. ASSUME NEW other \in pool, FinishAnalyze(other) PROVE Len(outQ') > Len(outQ)
  BY <1>6 DEF FinishAnalyze, TypeOK, QueueTypes
<1>7. ~Panic
  BY DEF Panic, PanicAnalyze, Spend
<1>8. ASSUME Client \/ Pull \/ MainLoop PROVE FALSE
  BY <1>1, <1>8 DEF Client, Pull, MainLoop, DidOpen, DidClose, DidChange, ConfigChange, DiskWrite,
     AddFolder, ExternalIndex, PullWarm, PullCold, DropDiagnostics, AcceptDiagnostics, OnRelintAll
<1>9. ~DrainDone /\ ~DispatchWait /\ ~OnDone /\ ~Harvest /\ ~UNCHANGED vars
  BY <1>1 DEF DrainDone, DispatchWait, OnDone, Harvest, HarvestDone, vars
<1>10. QED
  BY <1>2, <1>3, <1>4, <1>5, <1>6, <1>7, <1>8, <1>9 DEF Next, LintThread, Finish, Rest

\* decide, "cancel on write": an analyze is unwound only for a newer request of
\* its own document, which takes its slot, or by a step after which every open
\* document is linted again.
THEOREM LintsAreSucceeded ==
  ASSUME Ordinary
  PROVE  Spec => NoLintIsLost
<1> DEFINE Inv == TypeOK /\ VersionsNameTexts /\ SlotIsSound /\ Draining /\ Calm
<1>1. Init => Inv
  <2>1. Init => Draining
    BY DEF Ordinary, Init, Draining, SlotIsOwed, PendingWaits
  <2>2. QED
    BY <2>1, TypeInit, VersionsInit, SlotInit, CalmInit
<1>2. Inv /\ [Next]_vars => Inv'
  <2> SUFFICES ASSUME Inv, [Next]_vars PROVE Inv'
    OBVIOUS
  <2>1. TypeOK' /\ VersionsNameTexts' /\ SlotIsSound'
    BY TypeStep, VersionsStep, SlotStep DEF Ordinary, Versions
  <2>2. Draining'
    BY DrainingMainSide, DrainingLintThread, DrainingPools DEF Next, Rest
  <2>3. Calm'
    BY <2>1, CalmStep DEF Versions
  <2>4. QED
    BY <2>1, <2>2, <2>3
<1>3. Inv /\ [Next]_vars =>
        [\A job \in pool \ pool' :
           \/ Len(outQ') > Len(outQ)
           \/ /\ pending[job.uri] # None /\ pending[job.uri].version > job.version
              /\ inflight' = [uri |-> job.uri, version |-> pending[job.uri].version]]_vars
  BY LintIsSucceeded DEF Versions, Draining
<1> HIDE DEF Inv
<1>4. QED
  BY <1>1, <1>2, <1>3, PTL DEF Spec, NoLintIsLost

-----------------------------------------------------------------------------
(* Open buffers win over the disk.                                         *)

Requested(d) == \E i \in 1 .. Len(lintQ) : IsLive(lintQ[i], d)
LivePending(d) == pending[d] # None /\ pending[d].version = version[d]

\* The package is tracked as a whole or not at all.
Membership ==
  /\ db.members \in {{}, RDocs}
  /\ IsTracked(Desc) => db.members = RDocs
  /\ db.members # {} => IsTracked(Desc) /\ db.markdown # NoText

\* A message about document d as it was.
Outdated(m, d) == \/ ReadsDisk(m, d)
                  \/ m.type = "request" /\ m.uri = d /\ m.version # version[d]

\* Whatever is queued or pending about an open document as it was is followed by a
\* request for it as it is.
Superseded ==
  /\ \A d \in OpenDocs, i \in 1 .. Len(lintQ) : Outdated(lintQ[i], d) =>
       \E j \in i + 1 .. Len(lintQ) : IsLive(lintQ[j], d)
  /\ \A d \in OpenDocs : pending[d] # None => LivePending(d) \/ Requested(d)

\* The database holds the buffer of an open document, or is about to.
BufferWins ==
  \A d \in OpenDocs : \/ d \in db.members \cup {Desc} /\ db.text[d] = buffer[d]
                      \/ Requested(d) \/ LivePending(d)

Closes(m) == m.type = "closeDescription"

\* The closed DESCRIPTION is, or is about to be, what is on disk, and nothing of its
\* last buffer is linted after the message that it was closed.
DiskReturns ==
  ~IsOpen(Desc) =>
    /\ \/ ~IsTracked(Desc) \/ db.text[Desc] = disk[Desc]
       \/ \E i \in 1 .. Len(lintQ) : ReadsDisk(lintQ[i], Desc)
    /\ \A i \in 1 .. Len(lintQ) : lintQ[i].type = "request" /\ lintQ[i].uri = Desc =>
         \E j \in i + 1 .. Len(lintQ) : Closes(lintQ[j])
    /\ pending[Desc] # None => \E i \in 1 .. Len(lintQ) : Closes(lintQ[i])

BuffersWin == Membership /\ Superseded /\ BufferWins /\ DiskReturns

\* Where the messages of a longer queue come from.
LEMMA Longer ==
  ASSUME NEW S, NEW q \in Seq(S), NEW added \in Seq(S), NEW longer, longer = q \o added
  PROVE  /\ Len(longer) = Len(q) + Len(added)
         /\ \A i \in 1 .. Len(q) : i \in 1 .. Len(longer) /\ longer[i] = q[i]
         /\ \A i \in 1 .. Len(added) :
              /\ Len(q) + i \in 1 .. Len(longer) /\ longer[Len(q) + i] = added[i]
              /\ \A k \in 1 .. Len(q) : Len(q) + i \in k + 1 .. Len(longer)
         /\ \A i \in 1 .. Len(longer) : i \in 1 .. Len(q) \/ \E k \in 1 .. Len(added) : i = Len(q) + k
<1>1. Len(longer) = Len(q) + Len(added) /\ Len(q) \in Nat /\ Len(added) \in Nat
  OBVIOUS
<1>2. \A i \in 1 .. Len(longer) : i \in 1 .. Len(q) \/ i - Len(q) \in 1 .. Len(added)
  BY <1>1
<1>3. \A i \in 1 .. Len(longer) : i = Len(q) + (i - Len(q))
  BY <1>1
<1>4. \A i \in 1 .. Len(added) :
        /\ Len(q) + i \in 1 .. Len(longer) /\ longer[Len(q) + i] = added[i]
        /\ \A k \in 1 .. Len(q) : Len(q) + i \in k + 1 .. Len(longer)
  OBVIOUS
<1>5. \A i \in 1 .. Len(q) : i \in 1 .. Len(longer) /\ longer[i] = q[i]
  OBVIOUS
<1>6. QED
  BY <1>1, <1>2, <1>3, <1>4, <1>5

LEMMA SendsBuffersWin ==
  ASSUME TypeOK, Sends, BuffersWin, UNCHANGED <<db, pending>>
  PROVE  BuffersWin'
<1>1. PICK added \in Seq(LintMsgType) :
        /\ lintQ' = lintQ \o added /\ Orderly(added)'
        /\ \A d \in OpenDocs' :
             \/ d \in OpenDocs /\ version'[d] = version[d] /\ buffer'[d] = buffer[d]
             \/ \E i \in 1 .. Len(added) : IsLive(added[i], d)'
        /\ ~IsOpen(Desc)' =>
             /\ IsOpen(Desc) => \E i \in 1 .. Len(added) : added[i].type = "closeDescription"
             /\ disk'[Desc] # disk[Desc] => \E i \in 1 .. Len(added) : ReadsDisk(added[i], Desc)
  BY DEF Sends
<1>2. /\ Len(lintQ') = Len(lintQ) + Len(added)
      /\ \A i \in 1 .. Len(lintQ) : i \in 1 .. Len(lintQ') /\ lintQ'[i] = lintQ[i]
      /\ \A i \in 1 .. Len(added) :
           /\ Len(lintQ) + i \in 1 .. Len(lintQ') /\ lintQ'[Len(lintQ) + i] = added[i]
           /\ \A k \in 1 .. Len(lintQ) : Len(lintQ) + i \in k + 1 .. Len(lintQ')
      /\ \A i \in 1 .. Len(lintQ') :
           i \in 1 .. Len(lintQ) \/ \E k \in 1 .. Len(added) : i = Len(lintQ) + k
  <2>1. lintQ \in Seq(LintMsgType)
    BY DEF TypeOK, QueueTypes
  <2>2. QED
    BY <1>1, <2>1, Longer
<1>3. \A k \in 1 .. Len(lintQ) : \A j \in k + 1 .. Len(lintQ) :
        j \in k + 1 .. Len(lintQ') /\ lintQ'[j] = lintQ[j]
  <2>1. Len(lintQ) \in Nat /\ Len(lintQ') \in Nat /\ Len(added) \in Nat
    BY DEF TypeOK, QueueTypes
  <2>2. \A k \in 1 .. Len(lintQ) : \A j \in k + 1 .. Len(lintQ) :
          j \in 1 .. Len(lintQ) /\ j \in k + 1 .. Len(lintQ')
    BY <1>2, <2>1
  <2>3. QED
    BY <1>2, <2>2
\* An old document is as it was, or a request for the new one was added.
<1>4. ASSUME NEW d \in OpenDocs', \E i \in 1 .. Len(added) : IsLive(added[i], d)'
      PROVE  /\ Requested(d)'
             /\ \A i \in 1 .. Len(lintQ) : \E j \in i + 1 .. Len(lintQ') : IsLive(lintQ[j], d)'
  BY <1>2, <1>4 DEF Requested, IsLive
<1>5. ASSUME NEW d \in OpenDocs', NEW k \in 1 .. Len(added) PROVE ~Outdated(added[k], d)'
  BY <1>1 DEF Orderly, Outdated, ReadsDisk, IsLive, OpenDocs, IsOpen
<1>6. ASSUME NEW d, Requested(d), version'[d] = version[d] PROVE Requested(d)'
  BY <1>2, <1>6 DEF Requested, IsLive
<1>7. Membership'
  BY DEF BuffersWin, Membership, IsTracked
<1>8. ASSUME NEW d \in OpenDocs', NEW i \in 1 .. Len(lintQ'), Outdated(lintQ[i], d)'
      PROVE  \E j \in i + 1 .. Len(lintQ') : IsLive(lintQ[j], d)'
  <2>1. i \in 1 .. Len(lintQ) /\ lintQ'[i] = lintQ[i]
    <3>1. ASSUME NEW k \in 1 .. Len(added), i = Len(lintQ) + k PROVE FALSE
      BY <1>2, <1>5, <1>8, <3>1 DEF Outdated, ReadsDisk
    <3>2. QED
      BY <1>2, <3>1
  <2>2. CASE \E k \in 1 .. Len(added) : IsLive(added[k], d)'
    BY <1>4, <2>1, <2>2
  <2>3. CASE d \in OpenDocs /\ version'[d] = version[d]
    <3>1. Outdated(lintQ[i], d)
      BY <1>8, <2>1, <2>3 DEF Outdated, ReadsDisk
    <3>2. PICK j \in i + 1 .. Len(lintQ) : IsLive(lintQ[j], d)
      BY <2>1, <2>3, <3>1 DEF BuffersWin, Superseded
    <3>3. j \in i + 1 .. Len(lintQ') /\ lintQ'[j] = lintQ[j]
      BY <1>3, <2>1
    <3>4. QED
      BY <2>3, <3>2, <3>3 DEF IsLive
  <2>4. QED
    BY <1>1, <2>2, <2>3
<1>9. ASSUME NEW d \in OpenDocs', pending'[d] # None PROVE LivePending(d)' \/ Requested(d)'
  BY <1>1, <1>4, <1>6, <1>9 DEF BuffersWin, Superseded, LivePending
<1>10. Superseded'
  BY <1>8, <1>9 DEF Superseded
<1>11. ASSUME NEW d \in OpenDocs'
       PROVE  \/ d \in db'.members \cup {Desc} /\ db'.text[d] = buffer'[d]
              \/ Requested(d)' \/ LivePending(d)'
  BY <1>1, <1>4, <1>6 DEF BuffersWin, BufferWins, LivePending
<1>12. BufferWins'
  BY <1>11 DEF BufferWins
<1>13. ASSUME ~IsOpen(Desc)' PROVE DiskReturns'
  <2>1. ASSUME NEW k \in 1 .. Len(added) PROVE ~(added[k].type = "request" /\ added[k].uri = Desc)
    BY <1>1, <1>13 DEF Orderly, IsLive, ReadsDisk, OpenDocs, IsOpen
  <2>2. ASSUME NEW i \in 1 .. Len(lintQ'), lintQ'[i].type = "request" /\ lintQ'[i].uri = Desc
        PROVE  i \in 1 .. Len(lintQ) /\ lintQ'[i] = lintQ[i]
    BY <1>2, <2>1, <2>2
  <2>3. CASE IsOpen(Desc)
    <3>1. PICK k \in 1 .. Len(added) : added[k].type = "closeDescription"
      BY <1>1, <1>13, <2>3
    <3>2. Closes(lintQ'[Len(lintQ) + k]) /\ ReadsDisk(lintQ'[Len(lintQ) + k], Desc)
      BY <1>2, <3>1 DEF Closes, ReadsDisk
    <3>3. QED
      BY <1>2, <2>2, <3>2 DEF DiskReturns, Closes, ReadsDisk
  <2>4. CASE ~IsOpen(Desc)
    <3>1. \/ ~IsTracked(Desc)' \/ db'.text[Desc] = disk'[Desc]
          \/ \E i \in 1 .. Len(lintQ') : ReadsDisk(lintQ'[i], Desc)
      BY <1>1, <1>2, <1>13, <2>4 DEF BuffersWin, DiskReturns, IsTracked
    <3>2. ASSUME NEW i \in 1 .. Len(lintQ'), lintQ'[i].type = "request" /\ lintQ'[i].uri = Desc
          PROVE  \E j \in i + 1 .. Len(lintQ') : Closes(lintQ'[j])
      <4>1. i \in 1 .. Len(lintQ) /\ lintQ[i].type = "request" /\ lintQ[i].uri = Desc
        BY <2>2, <3>2
      <4>2. PICK j \in i + 1 .. Len(lintQ) : Closes(lintQ[j])
        BY <2>4, <4>1 DEF BuffersWin, DiskReturns
      <4>3. QED
        BY <1>3, <4>1, <4>2
    <3>3. pending'[Desc] # None => \E i \in 1 .. Len(lintQ') : Closes(lintQ'[i])
      BY <1>2, <2>4 DEF BuffersWin, DiskReturns
    <3>4. QED
      BY <3>1, <3>2, <3>3 DEF DiskReturns, Closes, ReadsDisk
  <2>5. QED
    BY <2>3, <2>4
<1>14. QED
  BY <1>7, <1>10, <1>12, <1>13 DEF BuffersWin, DiskReturns

\* Where the messages of a queue's tail come from.
LEMMA Shorter ==
  ASSUME NEW S, NEW q \in Seq(S), q # <<>>, NEW shorter, shorter = Tail(q)
  PROVE  /\ 1 \in 1 .. Len(q) /\ Head(q) = q[1]
         /\ \A i \in 1 .. Len(shorter) : i + 1 \in 1 .. Len(q) /\ shorter[i] = q[i + 1]
         /\ \A i \in 1 .. Len(q) : i = 1 \/ (i - 1 \in 1 .. Len(shorter) /\ shorter[i - 1] = q[i])
         /\ \A i \in 1 .. Len(shorter) : \A j \in i + 2 .. Len(q) :
              j - 1 \in i + 1 .. Len(shorter) /\ shorter[j - 1] = q[j]
<1>2. Len(shorter) = Len(q) - 1 /\ Len(q) \in Nat /\ Len(q) # 0
  OBVIOUS
<1>3. \A i \in 1 .. Len(shorter) : shorter[i] = q[i + 1]
  OBVIOUS
<1>4. Head(q) = q[1]
  OBVIOUS
<1>5. /\ 1 \in 1 .. Len(q)
      /\ \A i \in 1 .. Len(shorter) : i + 1 \in 1 .. Len(q)
  BY <1>2
<1>6. ASSUME NEW i \in 1 .. Len(q), i # 1
      PROVE  i - 1 \in 1 .. Len(shorter) /\ shorter[i - 1] = q[i]
  <2>1. i - 1 \in 1 .. Len(shorter) /\ (i - 1) + 1 = i
    BY <1>2, <1>6
  <2>2. QED
    BY <1>3, <2>1
<1>7. ASSUME NEW i \in 1 .. Len(shorter), NEW j \in i + 2 .. Len(q)
      PROVE  j - 1 \in i + 1 .. Len(shorter) /\ shorter[j - 1] = q[j]
  <2>1. j - 1 \in i + 1 .. Len(shorter) /\ j \in 1 .. Len(q) /\ j # 1
    BY <1>2
  <2>2. QED
    BY <1>6, <2>1
<1>8. \A i \in 1 .. Len(shorter) : i + 1 \in 1 .. Len(q) /\ shorter[i] = q[i + 1]
  BY <1>3, <1>5
<1>9. \A i \in 1 .. Len(q) : i = 1 \/ (i - 1 \in 1 .. Len(shorter) /\ shorter[i - 1] = q[i])
  BY <1>6
<1>10. \A i \in 1 .. Len(shorter) : \A j \in i + 2 .. Len(q) :
         j - 1 \in i + 1 .. Len(shorter) /\ shorter[j - 1] = q[j]
  BY <1>7
<1>11. QED
  BY <1>4, <1>5, <1>8, <1>9, <1>10

\* What a message does to the texts of the database.
LEMMA MessageReads ==
  ASSUME TypeOK, TypeOK', Calm, Membership, HandleMsg
  PROVE  /\ Membership' /\ db'.members = db.members
         /\ \A d \in Docs : \/ db'.text[d] = db.text[d]
                            \/ ReadsDisk(Head(lintQ), d) /\ db'.text[d] = disk[d]
         /\ IsTracked(Desc)' <=> IsTracked(Desc)
         /\ ReadsDisk(Head(lintQ), Desc) /\ IsTracked(Desc) => db'.text[Desc] = disk[Desc]
<1> DEFINE msg == Head(lintQ)
<1>1. msg.type \in {"request", "closeDescription", "changed"} /\ msg \in LintMsgType
  BY DEF HandleMsg, Calm, TypeOK, QueueTypes
<1>2. db \in Database /\ \A d \in Docs : disk[d] \in Texts /\ disk[d] # NoText
  BY DocsAssumption DEF TypeOK, LintTypes, EnvTypes
<1>3. ASSUME ReadDescription
      PROVE  /\ db'.members = db.members /\ (db.markdown # NoText => db'.markdown # NoText)
             /\ \A d \in Docs \ {Desc} : db'.text[d] = db.text[d]
             /\ db'.text[Desc] = IF IsTracked(Desc) THEN disk[Desc] ELSE db.text[Desc]
  <2> DEFINE read == IF IsTracked(Desc) THEN [db EXCEPT !.text[Desc] = disk[Desc]] ELSE db
  <2>1. db' = RefreshMarkdown(read)
    BY <1>3 DEF ReadDescription, Write
  <2>2. /\ read.members = db.members /\ read.markdown = db.markdown
        /\ \A d \in Docs \ {Desc} : read.text[d] = db.text[d]
        /\ read.text[Desc] = IF IsTracked(Desc) THEN disk[Desc] ELSE db.text[Desc]
        /\ read \in Database
    BY <1>2 DEF Database, Docs
  <2> HIDE DEF read
  <2>3. QED
    BY <1>2, <2>1, <2>2 DEF RefreshMarkdown, Database, Docs
<1>4. ASSUME NEW d \in Docs, ReadChanged(d)
      PROVE  /\ db'.members = db.members /\ (db.markdown # NoText => db'.markdown # NoText)
             /\ \A e \in Docs \ {d} : db'.text[e] = db.text[e]
             /\ db'.text[d] = disk[d]
  BY <1>2, <1>4 DEF ReadChanged, WriteAndRelint, Write, UpsertFromDisk, Database, Docs
<1>5. CASE msg.type = "request"
  BY <1>5 DEF HandleMsg, Enqueue, ReadsDisk, IsTracked, Membership
<1>6. CASE msg.type = "closeDescription" \/ (msg.type = "changed" /\ msg.uri = Desc)
  <2>1. ReadDescription
    BY <1>6 DEF HandleMsg, CloseDescription
  <2>2. IsTracked(Desc)' <=> IsTracked(Desc)
    BY <1>2, <1>3, <2>1 DEF IsTracked, Docs
  <2>3. \A d \in Docs : \/ db'.text[d] = db.text[d]
                        \/ ReadsDisk(msg, d) /\ db'.text[d] = disk[d]
    BY <1>3, <1>6, <2>1 DEF ReadsDisk
  <2>4. QED
    BY <1>3, <2>1, <2>2, <2>3 DEF Membership
<1>7. CASE msg.type = "changed" /\ msg.uri # Desc
  <2>1. msg.uri \in Docs
    BY <1>1, <1>7 DEF LintMsgType, RequestType
  <2>2. ReadChanged(msg.uri)
    BY <1>7 DEF HandleMsg
  <2>3. IsTracked(Desc)' <=> IsTracked(Desc)
    BY <1>4, <1>7, <2>1, <2>2 DEF IsTracked, Docs
  <2>4. QED
    BY <1>4, <1>7, <2>1, <2>2, <2>3 DEF ReadsDisk, Membership
<1>8. QED
  BY <1>1, <1>5, <1>6, <1>7

\* What a message does to the pending requests.
LEMMA MessagePends ==
  ASSUME Versions, HandleMsg, NEW d \in Docs
  PROVE  \/ /\ pending'[d] = pending[d]
            /\ ~(Closes(Head(lintQ)) /\ d = Desc)
            /\ Head(lintQ).type = "request" /\ Head(lintQ).uri = d =>
                 pending[d] # None /\ pending[d].version >= Head(lintQ).version
         \/ /\ Head(lintQ).type = "request" /\ Head(lintQ).uri = d
            /\ pending'[d] = Head(lintQ) /\ Head(lintQ) # None
            /\ pending[d] # None => ~(pending[d].version >= Head(lintQ).version)
         \/ pending'[d] = None /\ Closes(Head(lintQ)) /\ d = Desc
<1> USE DEF Versions
<1>1. Head(lintQ) \in LintMsgType /\ pending \in [Docs -> RequestType \cup {None}]
  BY DEF HandleMsg, TypeOK, QueueTypes, LintTypes
<1>2. CASE Head(lintQ).type = "request"
  <2>1. Head(lintQ) \in RequestType /\ Head(lintQ) # None
    BY <1>1, <1>2, NoneAssumption DEF LintMsgType
  <2>2. Enqueue(Head(lintQ)) /\ Head(lintQ).uri \in Docs
    BY <1>2, <2>1 DEF HandleMsg, RequestType
  <2>3. QED
    BY <1>1, <1>2, <2>1, <2>2 DEF Enqueue, Closes
<1>3. CASE Closes(Head(lintQ))
  BY <1>1, <1>3 DEF HandleMsg, Closes, CloseDescription
<1>4. CASE Head(lintQ).type # "request" /\ ~Closes(Head(lintQ))
  BY <1>4 DEF HandleMsg, Closes
<1>5. QED
  BY <1>2, <1>3, <1>4

LEMMA MessageBuffersWin ==
  ASSUME Versions, TypeOK', Calm, BuffersWin, HandleMsg
  PROVE  /\ BuffersWin'
         /\ \A d \in OpenDocs : Requested(d) \/ LivePending(d) => Requested(d)' \/ LivePending(d)'
<1> USE DEF Versions
<1> DEFINE msg == Head(lintQ)
<1>1. /\ 1 \in 1 .. Len(lintQ) /\ msg = lintQ[1]
      /\ \A i \in 1 .. Len(lintQ') : i + 1 \in 1 .. Len(lintQ) /\ lintQ'[i] = lintQ[i + 1]
      /\ \A i \in 1 .. Len(lintQ) : i = 1 \/ (i - 1 \in 1 .. Len(lintQ') /\ lintQ'[i - 1] = lintQ[i])
      /\ \A i \in 1 .. Len(lintQ') : \A j \in i + 2 .. Len(lintQ) :
           j - 1 \in i + 1 .. Len(lintQ') /\ lintQ'[j - 1] = lintQ[j]
  <2>1. lintQ \in Seq(LintMsgType) /\ lintQ # <<>> /\ lintQ' = Tail(lintQ)
    BY DEF HandleMsg, TypeOK, QueueTypes
  <2>2. QED
    BY <2>1, Shorter
<1>2. UNCHANGED <<version, buffer, disk>>
  BY DEF HandleMsg, mainVars, envVars
<1>3. /\ Membership' /\ db'.members = db.members
      /\ \A d \in Docs : \/ db'.text[d] = db.text[d]
                         \/ ReadsDisk(msg, d) /\ db'.text[d] = disk[d]
      /\ IsTracked(Desc)' <=> IsTracked(Desc)
      /\ ReadsDisk(msg, Desc) /\ IsTracked(Desc) => db'.text[Desc] = disk[Desc]
  BY MessageReads DEF BuffersWin
<1>4. Len(lintQ) \in Nat /\ Len(lintQ') \in Nat
  BY DEF TypeOK, QueueTypes
<1>5. \A j \in 2 .. Len(lintQ) : j - 1 \in 1 .. Len(lintQ') /\ lintQ'[j - 1] = lintQ[j]
  <2>1. \A j \in 2 .. Len(lintQ) : j \in 1 .. Len(lintQ) /\ j # 1
    BY <1>4
  <2>2. QED
    BY <1>1, <2>1
<1>7. ASSUME NEW d, NEW j \in 2 .. Len(lintQ), IsLive(lintQ[j], d) PROVE Requested(d)'
  BY <1>2, <1>5, <1>7 DEF Requested, IsLive
<1>8. ASSUME NEW d \in OpenDocs, Outdated(msg, d) PROVE Requested(d)'
  <2>1. PICK j \in 1 + 1 .. Len(lintQ) : IsLive(lintQ[j], d)
    BY <1>1, <1>8 DEF BuffersWin, Superseded
  <2>2. j \in 2 .. Len(lintQ)
    OBVIOUS
  <2>3. QED
    BY <1>7, <2>1, <2>2
<1>9. ASSUME NEW d \in OpenDocs, Requested(d) PROVE Requested(d)' \/ IsLive(msg, d)
  <2>1. PICK j \in 1 .. Len(lintQ) : IsLive(lintQ[j], d)
    BY <1>9 DEF Requested
  <2>2. j = 1 \/ j \in 2 .. Len(lintQ)
    BY <1>4
  <2>3. QED
    BY <1>1, <1>7, <2>1, <2>2
<1>10. ASSUME NEW d \in OpenDocs
       PROVE  /\ d \in Docs /\ version[d] \in Nat
              /\ pending[d] # None => pending[d].version \in Nat /\ pending[d].version <= version[d]
              /\ msg.type = "request" /\ msg.uri = d =>
                   msg.version \in Nat /\ msg.version <= version[d]
  <2>1. d \in Docs /\ version[d] \in Nat /\ version[d] = lastVersion[d]
    BY DEF OpenDocs, TypeOK, MainTypes, VersionsNameTexts, Opened
  <2>2. pending[d] # None => pending[d].version \in Nat /\ pending[d].version <= version[d]
    BY <2>1 DEF VersionsNameTexts, Pending, Stated, TypeOK, LintTypes, RequestType
  <2>3. msg.type = "request" => msg.version \in Nat
    BY <1>1 DEF LintMsgType, RequestType, TypeOK, QueueTypes
  <2>4. msg.type = "request" /\ msg.uri = d => msg.version <= version[d]
    BY <1>1, <2>1 DEF VersionsNameTexts, Queued, Stated
  <2>5. QED
    BY <2>1, <2>2, <2>3, <2>4
<1>11. ASSUME NEW d \in Docs
       PROVE  \/ /\ pending'[d] = pending[d]
                 /\ ~(Closes(msg) /\ d = Desc)
                 /\ msg.type = "request" /\ msg.uri = d =>
                      pending[d] # None /\ pending[d].version >= msg.version
              \/ /\ msg.type = "request" /\ msg.uri = d
                 /\ pending'[d] = msg /\ msg # None
                 /\ pending[d] # None => ~(pending[d].version >= msg.version)
              \/ pending'[d] = None /\ Closes(msg) /\ d = Desc
  BY MessagePends
<1>12. OpenDocs' = OpenDocs /\ IsOpen(Desc)' = IsOpen(Desc)
  BY <1>2 DEF OpenDocs, IsOpen
<1> HIDE DEF msg
\* The request that was read first is pending now, or what is pending is as new.
<1>13. ASSUME NEW d \in OpenDocs, IsLive(msg, d) PROVE LivePending(d)'
  <2>1. msg.type = "request" /\ msg.uri = d /\ msg.version = version[d] /\ ~Closes(msg)
    BY <1>13 DEF IsLive, Closes
  <2>2. CASE pending'[d] = pending[d]
    <3>1. pending[d] # None /\ pending[d].version >= msg.version
      BY <1>10, <1>11, <2>1, <2>2
    <3>2. pending[d].version = version[d]
      BY <1>10, <2>1, <3>1
    <3>3. QED
      BY <1>2, <2>2, <3>1, <3>2 DEF LivePending
  <2>3. CASE pending'[d] = msg /\ msg # None
    BY <1>2, <2>1, <2>3 DEF LivePending
  <2>4. QED
    BY <1>10, <1>11, <2>1, <2>2, <2>3
<1>14. ASSUME NEW d \in OpenDocs, LivePending(d) PROVE LivePending(d)' \/ Requested(d)'
  <2>1. CASE pending'[d] = pending[d]
    BY <1>2, <1>14, <2>1 DEF LivePending
  <2>2. CASE /\ msg.type = "request" /\ msg.uri = d
             /\ pending[d] # None => ~(pending[d].version >= msg.version)
    BY <1>10, <1>14, <2>2 DEF LivePending
  <2>3. CASE Closes(msg) /\ d = Desc
    BY <1>8, <2>3 DEF Outdated, ReadsDisk, Closes
  <2>4. QED
    BY <1>10, <1>11, <2>1, <2>2, <2>3
<1>15. ASSUME NEW d \in OpenDocs, NEW i \in 1 .. Len(lintQ'), Outdated(lintQ'[i], d)
       PROVE  \E j \in i + 1 .. Len(lintQ') : IsLive(lintQ'[j], d)
  <2>1. i + 1 \in 1 .. Len(lintQ) /\ lintQ'[i] = lintQ[i + 1] /\ (i + 1) + 1 = i + 2
    BY <1>1
  <2>2. PICK j \in i + 2 .. Len(lintQ) : IsLive(lintQ[j], d)
    BY <1>15, <2>1 DEF BuffersWin, Superseded
  <2>3. QED
    BY <1>1, <2>2
<1>16. ASSUME NEW d \in OpenDocs, pending'[d] # None PROVE LivePending(d)' \/ Requested(d)'
  <2>1. CASE pending'[d] = pending[d]
    BY <1>9, <1>13, <1>14, <1>16, <2>1 DEF BuffersWin, Superseded
  <2>2. CASE msg.type = "request" /\ msg.uri = d /\ pending'[d] = msg
    BY <1>8, <1>13, <2>2 DEF IsLive, Outdated
  <2>3. QED
    BY <1>10, <1>11, <1>16, <2>1, <2>2
<1>17. Superseded'
  BY <1>2, <1>12, <1>15, <1>16 DEF Superseded, Outdated, ReadsDisk, IsLive
<1>18. ASSUME NEW d \in OpenDocs
       PROVE  \/ d \in db'.members \cup {Desc} /\ db'.text[d] = buffer[d]
              \/ Requested(d)' \/ LivePending(d)'
  <2>1. CASE d \in db.members \cup {Desc} /\ db.text[d] = buffer[d]
    BY <1>3, <1>8, <1>10, <2>1 DEF Outdated
  <2>2. QED
    BY <1>9, <1>13, <1>14, <2>1 DEF BuffersWin, BufferWins
<1>19. BufferWins'
  BY <1>2, <1>12, <1>18 DEF BufferWins
<1>20. DiskReturns'
  <2> SUFFICES ASSUME ~IsOpen(Desc)
               PROVE  /\ \/ ~IsTracked(Desc)' \/ db'.text[Desc] = disk[Desc]
                         \/ \E i \in 1 .. Len(lintQ') : ReadsDisk(lintQ'[i], Desc)
                      /\ \A i \in 1 .. Len(lintQ') : lintQ'[i].type = "request" /\ lintQ'[i].uri = Desc =>
                           \E j \in i + 1 .. Len(lintQ') : Closes(lintQ'[j])
                      /\ pending'[Desc] # None => \E i \in 1 .. Len(lintQ') : Closes(lintQ'[i])
    BY <1>2, <1>12 DEF DiskReturns, ReadsDisk, Closes
  <2>1. Desc \in Docs
    BY DEF Docs
  <2>2. ASSUME NEW i \in 1 .. Len(lintQ), ReadsDisk(lintQ[i], Desc)
        PROVE  ReadsDisk(msg, Desc) \/ \E j \in 1 .. Len(lintQ') : ReadsDisk(lintQ'[j], Desc)
    BY <1>1, <2>2
  <2>3. \/ ~IsTracked(Desc)' \/ db'.text[Desc] = disk[Desc]
        \/ \E i \in 1 .. Len(lintQ') : ReadsDisk(lintQ'[i], Desc)
    BY <1>3, <2>1, <2>2 DEF BuffersWin, DiskReturns
  <2>4. ASSUME NEW i \in 1 .. Len(lintQ'), lintQ'[i].type = "request" /\ lintQ'[i].uri = Desc
        PROVE  \E j \in i + 1 .. Len(lintQ') : Closes(lintQ'[j])
    <3>1. i + 1 \in 1 .. Len(lintQ) /\ lintQ'[i] = lintQ[i + 1] /\ (i + 1) + 1 = i + 2
      BY <1>1
    <3>2. PICK j \in i + 2 .. Len(lintQ) : Closes(lintQ[j])
      BY <2>4, <3>1 DEF BuffersWin, DiskReturns
    <3>3. QED
      BY <1>1, <3>2
  <2>5. ASSUME pending'[Desc] # None PROVE \E i \in 1 .. Len(lintQ') : Closes(lintQ'[i])
    <3>1. CASE pending'[Desc] = pending[Desc] /\ ~Closes(msg)
      <4>1. PICK i \in 1 .. Len(lintQ) : Closes(lintQ[i])
        BY <2>5, <3>1 DEF BuffersWin, DiskReturns
      <4>2. QED
        BY <1>1, <3>1, <4>1
    <3>2. CASE msg.type = "request" /\ msg.uri = Desc
      <4>1. PICK j \in 1 + 1 .. Len(lintQ) : Closes(lintQ[j])
        BY <1>1, <3>2 DEF BuffersWin, DiskReturns
      <4>2. j \in 2 .. Len(lintQ)
        OBVIOUS
      <4>3. QED
        BY <1>5, <4>1, <4>2
    <3>3. QED
      BY <1>11, <2>1, <2>5, <3>1, <3>2
  <2>6. QED
    BY <2>3, <2>4, <2>5
<1>21. QED
  BY <1>3, <1>9, <1>13, <1>14, <1>17, <1>19, <1>20 DEF BuffersWin

\* What the write phase of a lint leaves in the database.
LEMMA PrepareReads ==
  ASSUME TypeOK, Membership, NEW r \in RequestType, NEW next, next = Prepare(r).db
  PROVE  /\ next.members = RDocs /\ next.text[Desc] # NoText
         /\ next.members # {} => next.markdown # NoText
         /\ next.text[r.uri] = r.text
         /\ \A e \in db.members \ {r.uri} : next.text[e] = db.text[e]
         /\ r.uri # Desc => next.text[Desc] = IF IsTracked(Desc) THEN db.text[Desc] ELSE disk[Desc]
<1>1. /\ r.uri \in Docs /\ r.text \in Texts /\ r.text # NoText /\ db \in Database
      /\ \A d \in Docs : disk[d] \in Texts /\ disk[d] # NoText
  BY DocsAssumption DEF RequestType, TypeOK, LintTypes, EnvTypes
<1>2. ASSUME NEW base \in Database
      PROVE  /\ EnsureIndex(base).text = base.text /\ EnsureIndex(base).members = base.members
             /\ EnsureIndex(base).markdown = base.markdown
             /\ RefreshMarkdown(base).text = base.text /\ RefreshMarkdown(base).members = base.members
             /\ base.markdown # NoText => RefreshMarkdown(base).markdown # NoText
  BY <1>1 DEF EnsureIndex, RefreshMarkdown, Database, Docs
<1>3. CASE r.uri # Desc
  <2> DEFINE up == UpsertBuffer(r.uri, r.text, EnsureIndex(db))
  <2>1. EnsureIndex(db) \in Database
    BY <1>1, EnsureIndexType DEF TypeOK
  <2>2. /\ up.text = [db.text EXCEPT ![r.uri] = r.text] /\ up.members = db.members
        /\ up.markdown # NoText
    BY <1>1, <1>2, <2>1 DEF UpsertBuffer, Database, Docs
  <2>3. up \in Database
    BY <1>1, <2>1, UpsertBufferType DEF TypeOK
  <2>4. next = EnsureWorkspaceFor(r.uri, up)
    BY <1>3 DEF Prepare, PrepareR
  <2>5. r.uri \in RDocs
    BY <1>1, <1>3 DEF Docs
  <2> HIDE DEF up
  <2>6. CASE db.members = RDocs
    <3>1. next = up
      BY <2>2, <2>4, <2>5, <2>6 DEF EnsureWorkspaceFor
    <3>2. IsTracked(Desc)
      BY <2>5, <2>6 DEF Membership
    <3>3. QED
      BY <1>1, <1>3, <2>2, <2>6, <3>1, <3>2 DEF Database, Docs, IsTracked
  <2>7. CASE db.members = {}
    <3> DEFINE walked == UpsertFromDisk(RDocs \ {r.uri}, up)
               roots == up.roots \cup {"package"}
    <3>1. /\ walked.text[r.uri] = r.text /\ walked.members = {} /\ walked.markdown # NoText
          /\ walked \in Database
      <4>1. walked.text[r.uri] = r.text /\ walked.members = {} /\ walked.markdown # NoText
        BY <1>1, <2>2, <2>3, <2>7 DEF UpsertFromDisk, Database
      <4>2. walked \in Database
        BY <2>3, UpsertFromDiskType DEF Docs
      <4>3. QED
        BY <4>1, <4>2
    <3>2. next = SetMembers(RDocs, roots, walked)
      BY <2>2, <2>4, <2>7 DEF EnsureWorkspaceFor
    <3> HIDE DEF walked, roots
    <3>3. /\ next.members = RDocs /\ next.markdown = walked.markdown
          /\ next.text = [walked.text EXCEPT ![Desc] = disk[Desc]]
      BY <2>5, <3>1, <3>2 DEF SetMembers, Database
    <3>4. ~IsTracked(Desc)
      BY <2>5, <2>7 DEF Membership
    <3>5. QED
      BY <1>1, <1>3, <2>7, <3>1, <3>3, <3>4 DEF Database, Docs
  <2>8. QED
    BY <2>6, <2>7 DEF Membership
<1>4. CASE r.uri = Desc
  <2> DEFINE base == IF IsTracked(Desc) THEN db ELSE SeedWorkspace({"package"}, db)
             wrote == [base EXCEPT !.text[Desc] = r.text]
  <2>1. next = EnsureIndex(IF base.text[Desc] # r.text THEN RefreshMarkdown(wrote) ELSE wrote)
    BY <1>4 DEF Prepare, PrepareDescription
  <2>2. /\ base.members = RDocs /\ base \in Database
        /\ RDocs # {} => base.markdown # NoText
        /\ \A e \in db.members : base.text[e] = db.text[e]
    <3>1. CASE IsTracked(Desc)
      BY <1>1, <3>1 DEF Membership
    <3>2. CASE ~IsTracked(Desc)
      <4>1. db.members = {}
        BY <3>2 DEF Membership
      <4> DEFINE walked == UpsertFromDisk(RDocs, db)
      <4>2. walked.members = {} /\ (RDocs # {} => walked.markdown # NoText) /\ walked \in Database
        BY <1>1, <4>1, UpsertFromDiskType DEF UpsertFromDisk, Database, Docs, TypeOK
      <4>3. base = SetMembers(RDocs, {"package"}, walked)
        BY <3>2 DEF SeedWorkspace
      <4> HIDE DEF walked
      <4>4. base.members = RDocs /\ base.markdown = walked.markdown
        BY <4>2, <4>3 DEF SetMembers, Database
      <4>5. base \in Database
        BY <1>1, <3>2, SeedWorkspaceType DEF TypeOK
      <4>6. QED
        BY <4>1, <4>2, <4>4, <4>5
    <3>3. QED
      BY <3>1, <3>2
  <2> HIDE DEF base
  <2>3. /\ wrote.members = RDocs /\ wrote \in Database
        /\ RDocs # {} => wrote.markdown # NoText
        /\ wrote.text[Desc] = r.text
        /\ \A e \in db.members \ {Desc} : wrote.text[e] = db.text[e]
    BY <1>1, <2>2 DEF Database, Docs
  <2> HIDE DEF wrote
  <2>4. RefreshMarkdown(wrote) \in Database
    BY <2>3, RefreshMarkdownType DEF TypeOK
  <2>5. QED
    BY <1>1, <1>2, <1>4, <2>1, <2>3, <2>4
<1>5. QED
  BY <1>3, <1>4

LEMMA DispatchBuffersWin ==
  ASSUME Versions, BuffersWin, NEW d \in Docs, DispatchBlocked(d) \/ DispatchSpawn(d)
  PROVE  BuffersWin'
<1> USE DEF Versions
<1>1. UNCHANGED <<version, buffer, disk, lintQ>> /\ pending' = [pending EXCEPT ![d] = None]
  BY DEF DispatchBlocked, DispatchSpawn, mainVars, envVars
<1>2. db' = Prepare(pending[d]).db
  BY DEF DispatchBlocked, DispatchSpawn, Write
<1>3. /\ pending[d] # None /\ pending[d] \in RequestType /\ pending[d].uri = d
      /\ Stated(lastVersion[d], buffer[d], pending[d].version, pending[d].text)
  BY DEF DispatchBlocked, DispatchSpawn, MayStart, VersionsNameTexts, Pending, TypeOK, LintTypes
<1>4. /\ db'.members = RDocs /\ db'.text[Desc] # NoText
      /\ db'.members # {} => db'.markdown # NoText
      /\ db'.text[d] = pending[d].text
      /\ \A e \in db.members \ {d} : db'.text[e] = db.text[e]
      /\ d # Desc => db'.text[Desc] = IF IsTracked(Desc) THEN db.text[Desc] ELSE disk[Desc]
  BY <1>2, <1>3, PrepareReads DEF BuffersWin
<1>5. Membership'
  BY <1>4 DEF Membership, IsTracked
<1>6. pending'[d] = None /\ \A e \in Docs \ {d} : pending'[e] = pending[e]
  BY <1>1 DEF TypeOK, LintTypes
<1>7. OpenDocs' = OpenDocs /\ IsOpen(Desc)' = IsOpen(Desc) /\ OpenDocs \subseteq Docs
  BY <1>1 DEF OpenDocs, IsOpen
<1>8. \A e \in Docs : Requested(e)' <=> Requested(e)
  BY <1>1 DEF Requested, IsLive
<1>9. \A e \in Docs \ {d} : LivePending(e)' <=> LivePending(e)
  BY <1>1, <1>6 DEF LivePending
<1>10. Superseded'
  BY <1>1, <1>6, <1>7, <1>8, <1>9 DEF BuffersWin, Superseded, Outdated, ReadsDisk, IsLive
<1>11. ASSUME NEW e \in OpenDocs
       PROVE  \/ e \in db'.members \cup {Desc} /\ db'.text[e] = buffer[e]
              \/ Requested(e)' \/ LivePending(e)'
  <2>1. CASE e = d
    <3>1. CASE LivePending(d)
      <4>1. pending[d].text = buffer[d]
        BY <1>3, <1>7, <2>1, <3>1 DEF LivePending, VersionsNameTexts, Opened, OpenDocs, Stated
      <4>2. QED
        BY <1>4, <2>1, <4>1 DEF Docs
    <3>2. QED
      BY <1>3, <1>7, <1>8, <2>1, <3>1 DEF BuffersWin, Superseded
  <2>2. CASE e # d /\ e \in db.members \cup {Desc} /\ db.text[e] = buffer[e]
    <3>1. CASE e = Desc
      <4>1. IsTracked(Desc)
        BY <2>2, <3>1, DocsAssumption DEF IsTracked, TypeOK, MainTypes, Docs
      <4>2. QED
        BY <1>4, <2>2, <3>1, <4>1
    <3>2. CASE e # Desc
      BY <1>4, <2>2, <3>2 DEF BuffersWin, Membership
    <3>3. QED
      BY <3>1, <3>2
  <2>3. QED
    BY <1>7, <1>8, <1>9, <2>1, <2>2 DEF BuffersWin, BufferWins
<1>12. BufferWins'
  BY <1>1, <1>7, <1>11 DEF BufferWins
<1>13. DiskReturns'
  <2> SUFFICES ASSUME ~IsOpen(Desc)
               PROVE  /\ db'.text[Desc] = disk[Desc] \/ \E i \in 1 .. Len(lintQ) : ReadsDisk(lintQ[i], Desc)
                      /\ pending'[Desc] # None => pending[Desc] # None
    BY <1>1, <1>7 DEF BuffersWin, DiskReturns, ReadsDisk, Closes
  <2>1. CASE d = Desc
    <3>1. PICK i \in 1 .. Len(lintQ) : Closes(lintQ[i])
      BY <1>3, <2>1 DEF BuffersWin, DiskReturns
    <3>2. QED
      BY <1>6, <2>1, <3>1 DEF Closes, ReadsDisk
  <2>2. CASE d # Desc
    BY <1>4, <1>6, <2>2 DEF BuffersWin, DiskReturns, Docs
  <2>3. QED
    BY <2>1, <2>2
<1>14. QED
  BY <1>5, <1>10, <1>12, <1>13 DEF BuffersWin

LEMMA QuietBuffersWin ==
  ASSUME BuffersWin, UNCHANGED <<version, buffer, disk, lintQ, pending>>,
         db'.text = db.text, db'.members = db.members, db'.markdown = db.markdown
  PROVE  BuffersWin'
<1>1. OpenDocs' = OpenDocs /\ IsOpen(Desc)' = IsOpen(Desc)
  BY DEF OpenDocs, IsOpen
<1>2. Membership'
  BY DEF BuffersWin, Membership, IsTracked
<1>3. Superseded'
  BY <1>1 DEF BuffersWin, Superseded, Outdated, ReadsDisk, IsLive, LivePending, Requested
<1>4. BufferWins'
  BY <1>1 DEF BuffersWin, BufferWins, IsLive, LivePending, Requested
<1>5. DiskReturns'
  BY <1>1 DEF BuffersWin, DiskReturns, IsTracked, ReadsDisk, Closes
<1>6. QED
  BY <1>2, <1>3, <1>4, <1>5 DEF BuffersWin

LEMMA BuffersWinInit == Init => BuffersWin
<1> SUFFICES ASSUME Init PROVE BuffersWin
  OBVIOUS
<1>1. lintQ = <<>> /\ OpenDocs = {} /\ pending = [d \in Docs |-> None] /\ Desc \in Docs
  BY DEF Init, OpenDocs, IsOpen, Docs
<1>2. Membership
  BY DocsAssumption, <1>1 DEF Init, Membership, IsTracked
<1>3. db.text[Desc] = NoText \/ db.text[Desc] = disk[Desc]
  BY <1>1 DEF Init
<1>4. QED
  BY <1>1, <1>2, <1>3 DEF BuffersWin, Superseded, BufferWins, DiskReturns, IsTracked

LEMMA BuffersWinStep ==
  ASSUME Ordinary, Versions, TypeOK', Calm, BuffersWin, [Next]_vars
  PROVE  BuffersWin'
<1> USE DEF Versions
<1>1. CASE Client \/ Pull \/ MainLoop
  <2>1. Sends
    BY <1>1, MainSideSends
  <2>2. UNCHANGED <<db, pending>>
    BY <1>1 DEF Client, Pull, MainLoop, DidOpen, DidChange, DidClose, ConfigChange, DiskWrite,
       AddFolder, ExternalIndex, PullWarm, PullCold, DropDiagnostics, AcceptDiagnostics, OnRelintAll,
       lintVars
  <2>3. QED
    BY <2>1, <2>2, SendsBuffersWin
<1>2. CASE HandleMsg
  BY <1>2, MessageBuffersWin
<1>3. ASSUME NEW d \in Docs, DispatchBlocked(d) \/ DispatchSpawn(d) PROVE BuffersWin'
  BY <1>3, DispatchBuffersWin
<1>4. CASE InstallBuild
  <2>1. db' = [db EXCEPT !.index = Head(built)] /\ db \in Database
    BY <1>4 DEF InstallBuild, Write, TypeOK, LintTypes
  <2>2. UNCHANGED <<version, buffer, disk, lintQ, pending>>
    BY <1>4 DEF InstallBuild, mainVars, envVars
  <2>3. QED
    BY <2>1, <2>2, QuietBuffersWin DEF Database
<1>5. CASE DrainDone \/ DispatchWait \/ OnDone \/ Finish \/ Panic \/ Harvest \/ Rest \/ UNCHANGED vars
  BY <1>5, QuietBuffersWin
  DEF DrainDone, DispatchWait, OnDone, Finish, FinishAnalyze, Panic, PanicAnalyze, Harvest, HarvestDone,
      Rest, vars, mainVars, lintVars, envVars
<1>6. QED
  BY <1>1, <1>2, <1>3, <1>4, <1>5 DEF Next, LintThread

\* DescriptionFile::text, WatchedFilesBatch::r_changed, "open buffers are
\* authoritative": when nothing is in flight the database holds every open buffer, and
\* the bytes on disk of a DESCRIPTION that was closed.
THEOREM OpenBuffersWin ==
  ASSUME Ordinary
  PROVE  Spec => []BuffersAreAuthoritative
<1> DEFINE Inv == TypeOK /\ VersionsNameTexts /\ Draining /\ Calm /\ BuffersWin
<1>1. Init => Inv
  <2>1. Init => Draining
    BY DEF Ordinary, Init, Draining, SlotIsOwed, PendingWaits
  <2>2. QED
    BY <2>1, TypeInit, VersionsInit, CalmInit, BuffersWinInit
<1>2. Inv /\ [Next]_vars => Inv'
  <2> SUFFICES ASSUME Inv, [Next]_vars PROVE Inv'
    OBVIOUS
  <2>1. TypeOK' /\ VersionsNameTexts'
    BY TypeStep, VersionsStep DEF Ordinary
  <2>2. Draining'
    BY DrainingMainSide, DrainingLintThread, DrainingPools DEF Next, Rest
  <2>3. Calm' /\ BuffersWin'
    BY <2>1, CalmStep, BuffersWinStep DEF Versions
  <2>4. QED
    BY <2>1, <2>2, <2>3
<1>3. Inv => BuffersAreAuthoritative
  <2> SUFFICES ASSUME Inv, Idle PROVE BuffersAreAuthoritative
    BY DEF BuffersAreAuthoritative
  <2>1. lintQ = <<>> /\ \A d \in Docs : pending[d] = None
    BY DEF Idle, Draining, SlotIsOwed, PendingWaits
  <2>2. QED
    BY <2>1 DEF BuffersAreAuthoritative, BuffersWin, BufferWins, DiskReturns, Requested, LivePending,
       OpenDocs
<1> HIDE DEF Inv
<1>4. QED
  BY <1>1, <1>2, <1>3, PTL DEF Spec

-----------------------------------------------------------------------------
(* What the client shows is current.                                       *)

\* The settings do not change, and texts whose findings differ have reports that
\* differ where the client compares them.
OneReport == MaxConfigs = 0 /\ (PullMode => \A s, t \in Texts : Digest[s] = Digest[t] => s = t)

\* What a lint reads of the database besides the document: the package facts and the
\* library index.
Facts(view) == <<view.text[Desc], view.markdown, view.index>>

Reports(m) == m.type = "diagnostics"
RelintComing == \E i \in 1 .. Len(outQ) : outQ[i].type = "relintAll"

\* Findings under the one configuration; those of the DESCRIPTION read it as they lint it.
Proper(d, f) == f.config = 0 /\ (d = Desc => f.view.text[Desc] = f.text)

ProperFindings ==
  /\ \A job \in pool : Proper(job.uri, job)
  /\ \A i \in 1 .. Len(outQ) : Reports(outQ[i]) => Proper(outQ[i].uri, outQ[i].found)
  /\ \A d \in Docs : findings[d] # None => Proper(d, findings[d])
  /\ \A d \in Docs : held[d] # None => Proper(d, held[d])

OneConfig ==
  /\ config = 0 /\ budget.configs = 0
  /\ \A i \in 1 .. Len(lintQ) : lintQ[i].type = "request" => lintQ[i].config = 0
  /\ \A d \in Docs : pending[d] # None => pending[d].config = 0

\* Findings computed from facts that the database no longer holds are followed by an
\* order to lint every open document again; a running analyze has none of them.
StaleIsFollowed ==
  /\ \A job \in pool : Facts(job.view) = Facts(db)
  /\ \A i \in 1 .. Len(outQ) : Reports(outQ[i]) =>
       \/ Facts(outQ[i].found.view) = Facts(db)
       \/ \E j \in i + 1 .. Len(outQ) : outQ[j].type = "relintAll"

WarmIsFresh ==
  PullMode => \A d \in OpenDocs : IsWarm(d) => Facts(findings[d].view) = Facts(db) \/ RelintComing

\* A parked pull names the report the client still shows, and waits for a lint.
ParkedIsHeld ==
  /\ PullMode \/ toPull = {}
  /\ \A d \in Docs : parked[d] \subseteq {PreviousId(d)} /\ (parked[d] # {} => ~IsWarm(d))

\* Until the first lint there are no findings; it tracks the package.
Untouched ==
  IF installed = None
  THEN /\ pool = {} /\ \A i \in 1 .. Len(outQ) : ~Reports(outQ[i])
       /\ \A d \in Docs : held[d] = None /\ findings[d] = None
  ELSE IsTracked(Desc)

Analyzed(d) == \E job \in pool : job.uri = d /\ job.version = version[d]
Answered(d) == \E i \in 1 .. Len(outQ) : /\ Reports(outQ[i]) /\ outQ[i].uri = d
                                         /\ outQ[i].found.version = version[d]
UnderWay(d) == Requested(d) \/ LivePending(d) \/ Analyzed(d) \/ Answered(d)

UpToDate(f, d) == f # None /\ f.text = buffer[d] /\ f.config = config /\ Facts(f.view) = Facts(db)

\* The client shows current findings of an open document or is about to ask for them,
\* be told to, or be sent them.
Covered(d) == \/ RelintComing \/ d \in toPull
              \/ (PullMode => parked[d] # {}) /\ UnderWay(d)
              \/ UpToDate(held[d], d)

Fresh == StaleIsFollowed /\ WarmIsFresh /\ ParkedIsHeld /\ ProperFindings /\ Untouched
Current == OneConfig /\ Fresh /\ \A d \in OpenDocs : Covered(d)

\* Two findings with one result id are the same report.
LEMMA SameIdSameReport ==
  ASSUME TypeOK, OneReport, PullMode, NEW d \in Docs, NEW f \in FindingType,
         PreviousId(d) = ResultId(d, f), Proper(d, f), held[d] # None => Proper(d, held[d]),
         UpToDate(f, d)
  PROVE  UpToDate(held[d], d)
<1> DEFINE h == held[d]
<1>1. ResultId(d, f) # None
  BY ResultIdsAreTyped, NoneAssumption
<1>2. h \in FindingType /\ h # None /\ ResultId(d, h) = ResultId(d, f)
  BY <1>1 DEF PreviousId, TypeOK, ClientTypes
<1>3. Digest[h.text] = Digest[f.text] /\ h.config = f.config
      /\ [h.view EXCEPT !.text[d] = NoText] = [f.view EXCEPT !.text[d] = NoText]
  BY <1>2 DEF ResultId
<1> HIDE DEF h
<1>4. h.text = f.text
  BY <1>2, <1>3 DEF OneReport, FindingType
<1>5. /\ h.view \in Database /\ f.view \in Database
  BY <1>2 DEF FindingType
<1>6. /\ h.view.markdown = f.view.markdown /\ h.view.index = f.view.index
      /\ [h.view.text EXCEPT ![d] = NoText] = [f.view.text EXCEPT ![d] = NoText]
  BY <1>3, <1>5 DEF Database
<1>7. h.view.text[Desc] = f.view.text[Desc]
  <2>1. CASE d = Desc
    BY <1>2, <1>4, <2>1 DEF Proper, h
  <2>2. CASE d # Desc
    BY <1>5, <1>6, <2>2 DEF Database, Docs
  <2>3. QED
    BY <2>1, <2>2
<1>8. QED
  BY <1>2, <1>3, <1>4, <1>6, <1>7 DEF UpToDate, Facts, h

\* A step of the lint thread or of a pool: what it adds to the main loop's queue was
\* computed from the facts the database holds by now, and new facts are followed by an
\* order to lint everything again.
Wrote ==
  /\ UNCHANGED <<version, buffer, config, findings, parked, held, toPull>>
  /\ \E added \in Seq(OutboundType) :
       /\ outQ' = outQ \o added
       /\ \A i \in 1 .. Len(added) : Reports(added[i]) =>
            /\ Facts(added[i].found.view) = Facts(db') /\ Proper(added[i].uri, added[i].found)
            /\ installed' # None
       /\ \/ Facts(db') = Facts(db) \/ installed = None
          \/ \E i \in 1 .. Len(added) : added[i].type = "relintAll"
  /\ \A job \in pool' : Facts(job.view) = Facts(db') /\ Proper(job.uri, job)
  /\ IF installed' = None THEN installed = None /\ pool' \subseteq pool ELSE db'.text[Desc] # NoText
  /\ \A d \in OpenDocs : UnderWay(d) => UnderWay(d)' \/ RelintComing'

LEMMA WroteFresh ==
  ASSUME TypeOK, Fresh, \A d \in OpenDocs : Covered(d), Wrote
  PROVE  Fresh' /\ \A d \in OpenDocs' : Covered(d)'
<1>1. PICK added \in Seq(OutboundType) :
        /\ outQ' = outQ \o added
        /\ \A i \in 1 .. Len(added) : Reports(added[i]) =>
             /\ Facts(added[i].found.view) = Facts(db') /\ Proper(added[i].uri, added[i].found)
             /\ installed' # None
        /\ \/ Facts(db') = Facts(db) \/ installed = None
           \/ \E i \in 1 .. Len(added) : added[i].type = "relintAll"
  BY DEF Wrote
<1>2. UNCHANGED <<version, buffer, config, findings, parked, held, toPull>>
  BY DEF Wrote
<1>3. /\ Len(outQ') = Len(outQ) + Len(added)
      /\ \A i \in 1 .. Len(outQ) : i \in 1 .. Len(outQ') /\ outQ'[i] = outQ[i]
      /\ \A i \in 1 .. Len(added) :
           /\ Len(outQ) + i \in 1 .. Len(outQ') /\ outQ'[Len(outQ) + i] = added[i]
           /\ \A k \in 1 .. Len(outQ) : Len(outQ) + i \in k + 1 .. Len(outQ')
      /\ \A i \in 1 .. Len(outQ') :
           i \in 1 .. Len(outQ) \/ \E k \in 1 .. Len(added) : i = Len(outQ) + k
  <2>1. outQ \in Seq(OutboundType)
    BY DEF TypeOK, QueueTypes
  <2>2. outQ' = outQ \o added
    BY <1>1
  <2>3. Len(outQ') = Len(outQ) + Len(added)
    BY <2>1, <2>2, Longer
  <2>4. \A i \in 1 .. Len(outQ) : i \in 1 .. Len(outQ') /\ outQ'[i] = outQ[i]
    BY <2>1, <2>2, Longer
  <2>5. \A i \in 1 .. Len(added) :
          /\ Len(outQ) + i \in 1 .. Len(outQ') /\ outQ'[Len(outQ) + i] = added[i]
          /\ \A k \in 1 .. Len(outQ) : Len(outQ) + i \in k + 1 .. Len(outQ')
    BY <2>1, <2>2, Longer
  <2>6. \A i \in 1 .. Len(outQ') :
          i \in 1 .. Len(outQ) \/ \E k \in 1 .. Len(added) : i = Len(outQ) + k
    <3>1. Len(outQ) \in Nat /\ Len(added) \in Nat
      BY <2>1
    <3>2. \A i \in 1 .. Len(outQ') :
            /\ i \in 1 .. Len(outQ) \/ i - Len(outQ) \in 1 .. Len(added)
            /\ i = Len(outQ) + (i - Len(outQ))
      BY <2>3, <3>1
    <3>3. QED
      BY <3>2
  <2>7. QED
    BY <2>3, <2>4, <2>5, <2>6
<1>4. \A k \in 1 .. Len(outQ) : \A j \in k + 1 .. Len(outQ) :
        j \in k + 1 .. Len(outQ') /\ outQ'[j] = outQ[j]
  <2>1. Len(outQ) \in Nat /\ Len(outQ') \in Nat /\ Len(added) \in Nat
    BY DEF TypeOK, QueueTypes
  <2>2. \A k \in 1 .. Len(outQ) : \A j \in k + 1 .. Len(outQ) :
          j \in 1 .. Len(outQ) /\ j \in k + 1 .. Len(outQ')
    BY <1>3, <2>1
  <2>3. QED
    BY <1>3, <2>2
<1>5. RelintComing => RelintComing'
  BY <1>3 DEF RelintComing
<1>6. (\E i \in 1 .. Len(added) : added[i].type = "relintAll") => RelintComing'
  BY <1>3 DEF RelintComing
<1>7. OpenDocs' = OpenDocs /\ \A d \in Docs : IsWarm(d)' = IsWarm(d) /\ PreviousId(d)' = PreviousId(d)
  BY <1>2 DEF OpenDocs, IsOpen, IsWarm, PreviousId, ResultId
<1>8. StaleIsFollowed'
  <2>1. ASSUME NEW i \in 1 .. Len(outQ'), Reports(outQ'[i])
        PROVE  \/ Facts(outQ'[i].found.view) = Facts(db')
               \/ \E j \in i + 1 .. Len(outQ') : outQ'[j].type = "relintAll"
    <3>1. CASE i \in 1 .. Len(outQ)
      <4>1. Reports(outQ[i]) /\ outQ'[i] = outQ[i] /\ installed # None
        BY <1>3, <2>1, <3>1 DEF Fresh, Untouched
      <4>2. \/ Facts(outQ[i].found.view) = Facts(db)
            \/ \E j \in i + 1 .. Len(outQ) : outQ[j].type = "relintAll"
        BY <3>1, <4>1 DEF Fresh, StaleIsFollowed
      <4>3. CASE \E k \in 1 .. Len(added) : added[k].type = "relintAll"
        BY <1>3, <3>1, <4>3
      <4>4. CASE \E j \in i + 1 .. Len(outQ) : outQ[j].type = "relintAll"
        BY <1>4, <3>1, <4>4
      <4>5. QED
        BY <1>1, <4>1, <4>2, <4>3, <4>4
    <3>2. CASE \E k \in 1 .. Len(added) : i = Len(outQ) + k
      BY <1>1, <1>3, <2>1, <3>2
    <3>3. QED
      BY <1>3, <3>1, <3>2
  <2>2. QED
    BY <2>1 DEF Wrote, StaleIsFollowed, Reports
<1>9. WarmIsFresh'
  BY <1>1, <1>2, <1>5, <1>6, <1>7 DEF Fresh, WarmIsFresh, Untouched, IsWarm, OpenDocs
<1>10. ParkedIsHeld'
  BY <1>2, <1>7 DEF Fresh, ParkedIsHeld
<1>11. ProperFindings'
  <2>1. ASSUME NEW i \in 1 .. Len(outQ'), Reports(outQ'[i]) PROVE Proper(outQ'[i].uri, outQ'[i].found)
    BY <1>1, <1>3, <2>1 DEF Fresh, ProperFindings
  <2>2. QED
    BY <1>2, <2>1 DEF Fresh, ProperFindings, Wrote, Reports
<1>12. Untouched'
  <2>1. CASE installed' = None
    <3>1. installed = None /\ pool' \subseteq pool
      BY <2>1 DEF Wrote
    <3>2. ASSUME NEW i \in 1 .. Len(outQ') PROVE ~Reports(outQ'[i])
      BY <1>1, <1>3, <2>1, <3>1 DEF Fresh, Untouched
    <3>3. QED
      BY <1>2, <2>1, <3>1, <3>2 DEF Fresh, Untouched, Reports
  <2>2. CASE installed' # None
    BY <2>2 DEF Wrote, Untouched, IsTracked
  <2>3. QED
    BY <2>1, <2>2
<1>13. ASSUME NEW d \in OpenDocs PROVE Covered(d)'
  <2>1. UpToDate(held[d], d) => UpToDate(held[d], d)' \/ RelintComing'
    BY <1>1, <1>2, <1>6 DEF UpToDate, Fresh, Untouched, OpenDocs
  <2>2. QED
    BY <1>2, <1>5, <2>1 DEF Covered, Wrote
<1>14. QED
  BY <1>7, <1>8, <1>9, <1>10, <1>11, <1>12, <1>13 DEF Fresh

\* Whatever the lint thread writes unwinds the analyze and lints everything again.
Rewrites ==
  \E added \in Seq(OutboundType) :
    /\ outQ' = outQ \o added /\ \A i \in 1 .. Len(added) : ~Reports(added[i])
    /\ \/ UNCHANGED <<db, pool>>
       \/ pool' = {} /\ \E i \in 1 .. Len(added) : added[i].type = "relintAll"

LEMMA RelintRewrites ==
  ASSUME NEW next, NEW condition \in BOOLEAN, NEW relint \in BOOLEAN,
         condition => relint, next # db => condition,
         Write(next, CancelIf(condition), OneIf(relint, RelintAll))
  PROVE  Rewrites
<1> DEFINE added == OneIf(relint, RelintAll)
<1>1. RelintAll \in OutboundType /\ RelintAll.type = "relintAll" /\ ~Reports(RelintAll)
  BY DEF RelintAll, OutboundType, Reports
<1>2. added \in Seq(OutboundType) /\ \A i \in 1 .. Len(added) : ~Reports(added[i])
  BY <1>1 DEF OneIf
<1>3. relint => \E i \in 1 .. Len(added) : added[i].type = "relintAll"
  BY <1>1 DEF OneIf
<1>4. outQ' = outQ \o added /\ db' = next /\ pool' = IF condition THEN {} ELSE pool
  BY DEF Write, CancelIf
<1> HIDE DEF added
<1>5. QED
  BY <1>2, <1>3, <1>4 DEF Rewrites

LEMMA NothingRewritten == TypeOK /\ UNCHANGED <<db, pool, outQ>> => Rewrites
<1> SUFFICES ASSUME TypeOK, UNCHANGED <<db, pool, outQ>> PROVE Rewrites
  OBVIOUS
<1>1. outQ' = outQ \o <<>> /\ <<>> \in Seq(OutboundType)
  BY DEF TypeOK, QueueTypes
<1>2. \A i \in 1 .. Len(<<>>) : ~Reports(<<>>[i])
  OBVIOUS
<1>3. QED
  BY <1>1, <1>2 DEF Rewrites

LEMMA AnsweredStays ==
  ASSUME TypeOK, NEW added \in Seq(OutboundType), outQ' = outQ \o added, UNCHANGED version,
         NEW d, Answered(d)
  PROVE  Answered(d)'
<1>1. outQ \in Seq(OutboundType)
  BY DEF TypeOK, QueueTypes
<1>2. \A i \in 1 .. Len(outQ) : i \in 1 .. Len(outQ') /\ outQ'[i] = outQ[i]
  BY <1>1, Longer
<1>3. QED
  BY <1>2 DEF Answered, Reports

LEMMA RewritesWrote ==
  ASSUME TypeOK, Fresh, Rewrites, UNCHANGED <<mainVars, clientVars, config, installed>>,
         IsTracked(Desc) => IsTracked(Desc)',
         \A d \in OpenDocs : Requested(d) \/ LivePending(d) => Requested(d)' \/ LivePending(d)'
  PROVE  Wrote
<1>1. PICK added \in Seq(OutboundType) :
        /\ outQ' = outQ \o added /\ \A i \in 1 .. Len(added) : ~Reports(added[i])
        /\ \/ UNCHANGED <<db, pool>>
           \/ pool' = {} /\ \E i \in 1 .. Len(added) : added[i].type = "relintAll"
  BY DEF Rewrites
<1>2. UNCHANGED <<version, buffer, config, findings, parked, held, toPull, installed>>
  BY DEF mainVars, clientVars
<1>3. (\E i \in 1 .. Len(added) : added[i].type = "relintAll") => RelintComing'
  <2>1. outQ \in Seq(OutboundType)
    BY DEF TypeOK, QueueTypes
  <2>2. \A i \in 1 .. Len(added) : Len(outQ) + i \in 1 .. Len(outQ') /\ outQ'[Len(outQ) + i] = added[i]
    BY <1>1, <2>1, Longer
  <2>3. QED
    BY <2>2 DEF RelintComing
<1>4. ASSUME NEW d \in OpenDocs, UnderWay(d) PROVE UnderWay(d)' \/ RelintComing'
  <2>1. Answered(d) => Answered(d)'
    BY <1>1, <1>2, AnsweredStays
  <2>2. Analyzed(d) => Analyzed(d)' \/ RelintComing'
    BY <1>1, <1>2, <1>3 DEF Analyzed
  <2>3. QED
    BY <1>4, <2>1, <2>2 DEF UnderWay
<1>5. \/ Facts(db') = Facts(db) \/ installed = None
      \/ \E i \in 1 .. Len(added) : added[i].type = "relintAll"
  BY <1>1
<1>6. \A job \in pool' : Facts(job.view) = Facts(db') /\ Proper(job.uri, job)
  BY <1>1 DEF Fresh, StaleIsFollowed, ProperFindings
<1>7. IF installed' = None THEN installed = None /\ pool' \subseteq pool ELSE db'.text[Desc] # NoText
  BY <1>1, <1>2 DEF Fresh, Untouched, IsTracked
<1>8. QED
  BY <1>1, <1>2, <1>4, <1>5, <1>6, <1>7 DEF Wrote

LEMMA HandleMsgWrote ==
  ASSUME Versions, TypeOK', Calm, BuffersWin, Fresh, HandleMsg
  PROVE  Wrote
<1> USE DEF Versions
<1>1. Head(lintQ).type \in {"request", "closeDescription", "changed"}
  <2>1. lintQ # <<>> /\ lintQ \in Seq(LintMsgType)
    BY DEF HandleMsg, TypeOK, QueueTypes
  <2>2. QED
    BY <2>1 DEF Calm
<1>2. ASSUME ReadDescription PROVE Rewrites
  <2> DEFINE next == RefreshMarkdown(IF IsTracked(Desc) THEN [db EXCEPT !.text[Desc] = disk[Desc]] ELSE db)
  <2>1. PICK graphMoved \in BOOLEAN :
          Write(next, CancelIf(next # db \/ graphMoved), OneIf(next # db \/ graphMoved, RelintAll))
    BY <1>2 DEF ReadDescription
  <2> HIDE DEF next
  <2> DEFINE condition == next # db \/ graphMoved
  <2>2. condition \in BOOLEAN /\ (next # db => condition)
    OBVIOUS
  <2>3. Write(next, CancelIf(condition), OneIf(condition, RelintAll))
    BY <2>1
  <2> HIDE DEF condition
  <2>4. QED
    BY <2>2, <2>3, RelintRewrites
<1>3. ASSUME NEW d, ReadChanged(d) PROVE Rewrites
  <2>1. PICK next : Write(next, CancelIf(next # db), OneIf(TRUE, RelintAll))
    BY <1>3 DEF ReadChanged, WriteAndRelint
  <2>2. (next # db) \in BOOLEAN
    OBVIOUS
  <2>3. QED
    BY <2>1, <2>2, RelintRewrites
<1>4. UNCHANGED <<db, pool, outQ>> => Rewrites
  BY NothingRewritten
<1>5. Rewrites
  BY <1>1, <1>2, <1>3, <1>4 DEF HandleMsg, Enqueue, CloseDescription
<1>6. UNCHANGED <<mainVars, clientVars, config, installed>>
  BY DEF HandleMsg, envVars
<1>7. IsTracked(Desc) => IsTracked(Desc)'
  BY MessageReads DEF BuffersWin
<1>8. \A d \in OpenDocs : Requested(d) \/ LivePending(d) => Requested(d)' \/ LivePending(d)'
  BY MessageBuffersWin
<1>9. QED
  BY <1>5, <1>6, <1>7, <1>8, RewritesWrote

\* Facts that the write phase of a later lint changes have everything linted again.
LEMMA PrepareFacts ==
  ASSUME TypeOK, Membership, NEW r \in RequestType, installed # None, IsTracked(Desc),
         Facts(Prepare(r).db) # Facts(db)
  PROVE  \E i \in 1 .. Len(Prepare(r).out) : Prepare(r).out[i].type = "relintAll"
<1>1. /\ r.uri \in Docs /\ r.text \in Texts /\ db \in Database /\ db.members = RDocs
      /\ RelintAll.type = "relintAll"
  BY DEF RequestType, TypeOK, LintTypes, Membership, RelintAll
<1>2. ASSUME NEW base \in Database
      PROVE  /\ EnsureIndex(base) \in Database
             /\ EnsureIndex(base).text = base.text /\ EnsureIndex(base).members = base.members
             /\ EnsureIndex(base).markdown = base.markdown
             /\ EnsureIndex(base).index = IF CacheMoved THEN stamp ELSE base.index
  BY <1>1, EnsureIndexType DEF EnsureIndex, CacheMoved, Database
<1>3. CASE CacheMoved
  <2>1. \/ Prepare(r).out = <<RelintAll>>
        \/ \E first : Prepare(r).out = OneIf(first, RelintAll) \o <<RelintAll>>
    BY <1>3 DEF Prepare, PrepareR, PrepareDescription, OneIf
  <2>2. \/ Prepare(r).out = <<RelintAll>>
        \/ Prepare(r).out = <<RelintAll, RelintAll>>
    BY <2>1 DEF OneIf
  <2>3. 1 \in 1 .. Len(Prepare(r).out) /\ Prepare(r).out[1] = RelintAll
    <3>1. /\ Len(<<RelintAll>>) = 1 /\ <<RelintAll>>[1] = RelintAll
          /\ Len(<<RelintAll, RelintAll>>) = 2 /\ <<RelintAll, RelintAll>>[1] = RelintAll
      OBVIOUS
    <3> DEFINE q == Prepare(r).out
    <3>2. Len(q) \in {1, 2} /\ q[1] = RelintAll
      BY <2>2, <3>1, Zenon
    <3>3. QED
      BY <3>2
  <2>4. QED
    BY <1>1, <2>3
<1>4. CASE ~CacheMoved /\ r.uri # Desc
  <2>1. r.uri \in RDocs /\ db.markdown # NoText
    BY <1>1, <1>4 DEF Docs, Membership
  <2>2. Prepare(r).db = UpsertBuffer(r.uri, r.text, EnsureIndex(db))
    <3>1. UpsertBuffer(r.uri, r.text, EnsureIndex(db)).members = RDocs
      BY <1>1, <1>2 DEF UpsertBuffer, Database
    <3>2. QED
      BY <1>4, <2>1, <3>1 DEF Prepare, PrepareR, EnsureWorkspaceFor
  <2>3. EnsureIndex(db).text = db.text /\ EnsureIndex(db).markdown = db.markdown
        /\ EnsureIndex(db).index = db.index /\ EnsureIndex(db) \in Database
    BY <1>1, <1>2, <1>4
  <2>4. /\ Prepare(r).db.text[Desc] = db.text[Desc] /\ Prepare(r).db.markdown = db.markdown
        /\ Prepare(r).db.index = db.index
    BY <1>1, <1>4, <2>1, <2>2, <2>3 DEF UpsertBuffer, Database, Docs
  <2>5. QED
    BY <2>4 DEF Facts
<1>5. CASE ~CacheMoved /\ r.uri = Desc
  <2>1. CASE db.text[Desc] = r.text
    <3>1. Prepare(r).db = EnsureIndex([db EXCEPT !.text[Desc] = r.text])
      BY <1>5, <2>1 DEF Prepare, PrepareDescription
    <3>2. [db EXCEPT !.text[Desc] = r.text] = db
      BY <1>1, <2>1 DEF Database, Docs
    <3>3. QED
      BY <1>1, <1>2, <1>5, <3>1, <3>2 DEF Facts
  <2>2. CASE db.text[Desc] # r.text
    <3>1. Prepare(r).out = OneIf(TRUE, RelintAll) \o OneIf(CacheMoved, RelintAll)
      BY <1>5, <2>2 DEF Prepare, PrepareDescription
    <3>2. Prepare(r).out = <<RelintAll>> \o <<>>
      BY <1>5, <3>1 DEF OneIf
    <3>3. QED
      BY <1>1, <3>2
  <2>3. QED
    BY <2>1, <2>2
<1>6. QED
  BY <1>3, <1>4, <1>5

\* A dispatch unwinds no lint of an open document's live version.
LEMMA LiveLintStays ==
  ASSUME Versions, SlotIsSound, NEW d \in Docs, MayStart(d), NEW e \in OpenDocs, Analyzed(e)
  PROVE  FALSE
<1> USE DEF Versions
<1>1. PICK job \in pool : job.uri = e /\ job.version = version[e]
  BY DEF Analyzed
<1>2. inflight = [uri |-> job.uri, version |-> job.version] /\ inflight # None
  BY SlotIsARecord DEF SlotIsSound, AtMostOneAnalyze, TypeOK, PoolTypes
<1>3. d = e /\ pending[d].version > version[d] /\ pending[d] # None
  BY <1>1, <1>2 DEF MayStart, Supersedes
<1>4. pending[d].version <= lastVersion[d] /\ version[d] = lastVersion[d]
  BY <1>3 DEF VersionsNameTexts, Pending, Stated, Opened, OpenDocs
<1>5. QED
  BY <1>3, <1>4 DEF TypeOK, MainTypes, LintTypes, RequestType

LEMMA DispatchWrote ==
  ASSUME Versions, SlotIsSound, BuffersWin, OneConfig, Fresh, NEW d \in Docs,
         DispatchBlocked(d) \/ DispatchSpawn(d)
  PROVE  Wrote
<1> USE DEF Versions
<1> DEFINE r == pending[d]
           phase == Prepare(r)
           cancelled == CancelIf(Unwinds(d, phase.db))
<1>1. /\ r # None /\ r \in RequestType /\ r.uri = d /\ r.config = 0
      /\ r.version \in Nat /\ r.text \in Texts /\ r.config \in Nat /\ MayStart(d)
  BY DEF DispatchBlocked, DispatchSpawn, MayStart, VersionsNameTexts, Pending, TypeOK, LintTypes,
     OneConfig, RequestType
<1>2. phase.db \in Database /\ phase.out \in Seq(OutboundType)
  BY <1>1, PrepareType
<1>3. phase.db.text[Desc] # NoText /\ (d = Desc => phase.db.text[Desc] = r.text)
  BY <1>1, PrepareReads DEF BuffersWin
<1>4. \A i \in 1 .. Len(phase.out) : phase.out[i].type = "relintAll"
  BY PrepareOnlyRelints
<1>5. \/ Facts(phase.db) = Facts(db) \/ installed = None
      \/ \E i \in 1 .. Len(phase.out) : phase.out[i].type = "relintAll"
  BY <1>1, PrepareFacts DEF BuffersWin, Fresh, Untouched
<1>6. pool \ cancelled = {}
  BY <1>1, StartClears
<1>7. UNCHANGED <<mainVars, clientVars, config, lintQ>> /\ installed' = stamp /\ stamp \in Nat
      /\ db' = phase.db /\ pending' = [pending EXCEPT ![d] = None]
  BY DEF DispatchBlocked, DispatchSpawn, Write, envVars, TypeOK, EnvTypes
<1>8. installed' # None
  BY <1>7, NoneAssumption
<1> HIDE DEF cancelled
<1>9. \A e \in OpenDocs : Requested(e) => Requested(e)'
  BY <1>7 DEF Requested, IsLive, mainVars
<1>10. \A e \in OpenDocs \ {d} : LivePending(e) => LivePending(e)'
  BY <1>7 DEF LivePending, OpenDocs, TypeOK, LintTypes, mainVars
<1>11. \A e \in OpenDocs : ~Analyzed(e)
  BY <1>1, LiveLintStays
<1>12. CASE DispatchBlocked(d)
  <2> DEFINE message == Diagnostics(r, phase.db)
             added == phase.out \o <<message>>
  <2>1. message \in OutboundType /\ Reports(message)
    BY <1>1, <1>2, DiagnosticsAreTyped DEF Reports, Diagnostics
  <2>2. /\ message.uri = d /\ message.found.version = r.version /\ message.found.view = phase.db
        /\ message.found.config = 0 /\ message.found.text = r.text
    BY <1>1 DEF Diagnostics, Finding
  <2>3. outQ' = outQ \o added /\ pool' = {}
    BY <1>6, <1>12 DEF DispatchBlocked, Write, cancelled
  <2>4. Proper(message.uri, message.found)
    BY <1>3, <2>2 DEF Proper
  <2> HIDE DEF message
  <2>5. /\ added \in Seq(OutboundType)
        /\ \A i \in 1 .. Len(phase.out) : i \in 1 .. Len(added) /\ added[i] = phase.out[i]
        /\ \A i \in 1 .. Len(added) : added[i] = message \/ added[i].type = "relintAll"
        /\ Len(added) \in 1 .. Len(added) /\ added[Len(added)] = message
    <3> HIDE DEF phase
    <3>1. QED
      BY <1>2, <1>4, <2>1
  <2> HIDE DEF added, phase
  <2>6. \A i \in 1 .. Len(added) : Reports(added[i]) =>
          /\ Facts(added[i].found.view) = Facts(db') /\ Proper(added[i].uri, added[i].found)
          /\ installed' # None
    BY <1>7, <1>8, <2>2, <2>4, <2>5 DEF Reports
  <2>7. \/ Facts(db') = Facts(db) \/ installed = None
        \/ \E i \in 1 .. Len(added) : added[i].type = "relintAll"
    BY <1>5, <1>7, <2>5
  <2>8. ASSUME NEW e \in OpenDocs, UnderWay(e) PROVE UnderWay(e)'
    <3>1. Answered(e) => Answered(e)'
      BY <1>7, <2>3, <2>5, AnsweredStays DEF mainVars
    <3>2. e = d /\ LivePending(d) => Answered(d)'
      <4>1. ASSUME LivePending(d) PROVE message.found.version = version'[d]
        BY <1>7, <2>2, <4>1 DEF LivePending, mainVars
      <4>2. Len(outQ) + Len(added) \in 1 .. Len(outQ') /\ outQ'[Len(outQ) + Len(added)] = message
        <5>1. outQ \in Seq(OutboundType)
          BY DEF TypeOK, QueueTypes
        <5>2. QED
          BY <2>3, <2>5, <5>1, Longer
      <4>3. QED
        BY <2>1, <2>2, <4>1, <4>2 DEF Answered, Reports
    <3>3. QED
      BY <1>9, <1>10, <1>11, <2>8, <3>1, <3>2 DEF UnderWay
  <2>9. QED
    BY <1>3, <1>7, <1>8, <2>3, <2>5, <2>6, <2>7, <2>8 DEF Wrote, mainVars, clientVars
<1>13. CASE DispatchSpawn(d)
  <2> DEFINE job == [id |-> CHOOSE id \in FreeIds : TRUE, uri |-> d, version |-> r.version,
                     text |-> r.text, config |-> r.config, view |-> phase.db]
  <2>1. outQ' = outQ \o phase.out /\ pool' = {job}
    BY <1>6, <1>13 DEF DispatchSpawn, cancelled
  <2>2. /\ job.uri = d /\ job.version = r.version /\ job.view = phase.db /\ job.text = r.text
        /\ job.config = 0
    BY <1>1
  <2> HIDE DEF job, phase
  <2>3. Facts(job.view) = Facts(db') /\ Proper(job.uri, job)
    BY <1>3, <1>7, <2>2 DEF Proper
  <2>4. ASSUME NEW e \in OpenDocs, UnderWay(e) PROVE UnderWay(e)'
    <3>1. Answered(e) => Answered(e)'
      BY <1>2, <1>7, <2>1, AnsweredStays DEF mainVars
    <3>2. e = d /\ LivePending(d) => Analyzed(d)'
      BY <1>7, <2>1, <2>2 DEF LivePending, Analyzed, mainVars
    <3>3. QED
      BY <1>9, <1>10, <1>11, <2>4, <3>1, <3>2 DEF UnderWay
  <2>5. \A i \in 1 .. Len(phase.out) : ~Reports(phase.out[i])
    BY <1>4 DEF Reports
  <2>6. QED
    BY <1>2, <1>3, <1>5, <1>7, <1>8, <2>1, <2>3, <2>4, <2>5 DEF Wrote, mainVars, clientVars
<1>14. QED
  BY <1>12, <1>13

LEMMA OtherStepsWrote ==
  ASSUME Versions, Fresh,
         DrainDone \/ DispatchWait \/ OnDone \/ InstallBuild \/ Finish \/ Harvest \/ UNCHANGED vars
  PROVE  Wrote
<1> USE DEF Versions
<1>1. UNCHANGED <<mainVars, clientVars, config, installed, lintQ, pending>>
  BY DEF DrainDone, DispatchWait, OnDone, InstallBuild, Finish, FinishAnalyze, Harvest, HarvestDone,
     vars, lintVars, envVars
<1>2. \A d \in OpenDocs : Requested(d) \/ LivePending(d) => Requested(d)' \/ LivePending(d)'
  BY <1>1 DEF Requested, LivePending, IsLive, mainVars
<1>3. CASE DrainDone \/ DispatchWait \/ OnDone \/ Harvest \/ UNCHANGED vars
  <2>1. UNCHANGED <<db, pool, outQ>>
    BY <1>3 DEF DrainDone, DispatchWait, OnDone, Harvest, HarvestDone, vars, lintVars
  <2>2. QED
    BY <1>1, <1>2, <2>1, NothingRewritten, RewritesWrote DEF IsTracked
<1>4. CASE InstallBuild
  <2> DEFINE next == [db EXCEPT !.index = Head(built)]
  <2>1. Write(next, CancelIf(TRUE), OneIf(TRUE, RelintAll))
    BY <1>4 DEF InstallBuild, CancelIf, OneIf
  <2>2. next.text = db.text
    BY DEF TypeOK, LintTypes, Database
  <2> HIDE DEF next
  <2>3. Rewrites
    BY <2>1, RelintRewrites
  <2>4. IsTracked(Desc) => IsTracked(Desc)'
    BY <2>1, <2>2 DEF Write, IsTracked
  <2>5. QED
    BY <1>1, <1>2, <2>3, <2>4, RewritesWrote
<1>5. CASE Finish
  <2>1. PICK job \in pool : FinishAnalyze(job)
    BY <1>5 DEF Finish
  <2> DEFINE message == Diagnostics(job, job.view)
  <2>2. job \in JobType
    BY DEF TypeOK, PoolTypes
  <2>3. message \in OutboundType
    BY <2>2, DiagnosticsAreTyped DEF JobType
  <2>4. /\ message.uri = job.uri /\ message.found.version = job.version /\ Reports(message)
        /\ message.found.view = job.view /\ message.found.config = job.config
        /\ message.found.text = job.text
    BY DEF Diagnostics, Finding, Reports
  <2>5. outQ' = outQ \o <<message>> /\ pool' = pool \ {job} /\ UNCHANGED db
    BY <2>1 DEF FinishAnalyze, TypeOK, QueueTypes, lintVars
  <2> HIDE DEF message
  <2>6. Facts(message.found.view) = Facts(db) /\ Proper(message.uri, message.found)
    BY <2>4 DEF Fresh, StaleIsFollowed, ProperFindings, Proper
  <2>7. installed # None /\ IsTracked(Desc)
    BY DEF Fresh, Untouched
  <2>8. <<message>> \in Seq(OutboundType) /\ \A i \in 1 .. Len(<<message>>) : <<message>>[i] = message
    BY <2>3
  <2>9. ASSUME NEW d \in OpenDocs, UnderWay(d) PROVE UnderWay(d)'
    <3>1. Answered(d) => Answered(d)'
      BY <1>1, <2>5, <2>8, AnsweredStays DEF mainVars
    <3>2. Analyzed(d) => Analyzed(d)' \/ Answered(d)'
      <4>1. ASSUME job.uri = d, job.version = version[d] PROVE Answered(d)'
        <5>1. Len(outQ) + 1 \in 1 .. Len(outQ') /\ outQ'[Len(outQ) + 1] = message
          BY <2>3, <2>5 DEF TypeOK, QueueTypes
        <5>2. QED
          BY <1>1, <2>4, <4>1, <5>1 DEF Answered, Reports, mainVars
      <4>2. QED
        BY <1>1, <2>5, <4>1 DEF Analyzed, mainVars
    <3>3. QED
      BY <1>2, <2>9, <3>1, <3>2 DEF UnderWay
  <2>10. \A other \in pool' : Facts(other.view) = Facts(db') /\ Proper(other.uri, other)
    BY <2>5 DEF Fresh, StaleIsFollowed, ProperFindings
  <2>11. QED
    BY <1>1, <2>5, <2>6, <2>7, <2>8, <2>9, <2>10 DEF Wrote, mainVars, clientVars, IsTracked
<1>6. QED
  BY <1>3, <1>4, <1>5

\* The main loop and the client move findings; they compute none.
LEMMA MovesFresh ==
  ASSUME TypeOK, Fresh, UNCHANGED <<db, pool, installed>>,
         outQ' = outQ \/ (outQ # <<>> /\ outQ' = Tail(outQ)),
         \A d \in Docs :
           \/ findings'[d] \in {None, findings[d]} /\ held'[d] \in {None, held[d], findings[d]}
           \/ /\ outQ # <<>> /\ Reports(Head(outQ)) /\ Head(outQ).uri = d
              /\ findings'[d] = Head(outQ).found /\ held'[d] \in {held[d], Head(outQ).found}
  PROVE  StaleIsFollowed' /\ ProperFindings' /\ Untouched'
<1>1. outQ \in Seq(OutboundType)
  BY DEF TypeOK, QueueTypes
<1>2. outQ # <<>> => 1 \in 1 .. Len(outQ) /\ Head(outQ) = outQ[1]
  BY <1>1
<1>3. CASE outQ' = outQ
  <2>1. StaleIsFollowed'
    BY <1>3 DEF Fresh, StaleIsFollowed, Reports
  <2>2. ProperFindings'
    BY <1>2, <1>3 DEF Fresh, ProperFindings, Reports
  <2>3. Untouched'
    BY <1>2, <1>3 DEF Fresh, Untouched, Reports, IsTracked
  <2>4. QED
    BY <2>1, <2>2, <2>3
<1>4. CASE outQ # <<>> /\ outQ' = Tail(outQ)
  <2>1. /\ \A i \in 1 .. Len(outQ') : i + 1 \in 1 .. Len(outQ) /\ outQ'[i] = outQ[i + 1]
        /\ \A i \in 1 .. Len(outQ') : \A j \in i + 2 .. Len(outQ) :
             j - 1 \in i + 1 .. Len(outQ') /\ outQ'[j - 1] = outQ[j]
    BY <1>1, <1>4, Shorter
  <2>2. ASSUME NEW i \in 1 .. Len(outQ'), Reports(outQ'[i])
        PROVE  \/ Facts(outQ'[i].found.view) = Facts(db)
               \/ \E j \in i + 1 .. Len(outQ') : outQ'[j].type = "relintAll"
    <3>1. i + 1 \in 1 .. Len(outQ) /\ outQ'[i] = outQ[i + 1] /\ (i + 1) + 1 = i + 2
      BY <2>1
    <3>2. CASE \E j \in i + 2 .. Len(outQ) : outQ[j].type = "relintAll"
      BY <2>1, <3>2
    <3>3. QED
      BY <2>2, <3>1, <3>2 DEF Fresh, StaleIsFollowed
  <2>3. StaleIsFollowed'
    BY <2>2 DEF Fresh, StaleIsFollowed, Reports
  <2>4. ProperFindings'
    <3>1. Reports(Head(outQ)) => Proper(Head(outQ).uri, Head(outQ).found)
      BY <1>2, <1>4 DEF Fresh, ProperFindings
    <3>2. \A i \in 1 .. Len(outQ') : Reports(outQ'[i]) => Proper(outQ'[i].uri, outQ'[i].found)
      BY <2>1 DEF Fresh, ProperFindings
    <3>3. \A d \in Docs : /\ findings'[d] # None => Proper(d, findings'[d])
                         /\ held'[d] # None => Proper(d, held'[d])
      BY <3>1 DEF Fresh, ProperFindings
    <3>4. QED
      BY <3>2, <3>3 DEF Fresh, ProperFindings, Reports
  <2>5. Untouched'
    BY <1>2, <2>1 DEF Fresh, Untouched, Reports, IsTracked
  <2>6. QED
    BY <2>3, <2>4, <2>5
<1>5. QED
  BY <1>3, <1>4

\* An open document is as it was, or is to be linted and, by a pulling client, pulled.
LEMMA SendsCover ==
  ASSUME TypeOK, Sends, UNCHANGED <<outQ, db, pool, pending, config>>,
         \A d \in OpenDocs : Covered(d), NEW e \in OpenDocs',
         \/ /\ ~(e \in OpenDocs /\ version'[e] = version[e] /\ buffer'[e] = buffer[e])
            /\ PullMode => e \in toPull'
         \/ /\ e \in OpenDocs /\ version'[e] = version[e] /\ buffer'[e] = buffer[e]
            /\ held'[e] = held[e] /\ (parked[e] # {} => parked'[e] # {})
            /\ e \in toPull => e \in toPull' \/ (parked'[e] # {} /\ Requested(e)')
  PROVE  Covered(e)'
<1>1. PICK added \in Seq(LintMsgType) :
        /\ lintQ' = lintQ \o added
        /\ \A d \in OpenDocs' :
             \/ d \in OpenDocs /\ version'[d] = version[d] /\ buffer'[d] = buffer[d]
             \/ \E i \in 1 .. Len(added) : IsLive(added[i], d)'
  BY DEF Sends
<1>2. /\ \A i \in 1 .. Len(lintQ) : i \in 1 .. Len(lintQ') /\ lintQ'[i] = lintQ[i]
      /\ \A i \in 1 .. Len(added) :
           Len(lintQ) + i \in 1 .. Len(lintQ') /\ lintQ'[Len(lintQ) + i] = added[i]
  <2>1. lintQ \in Seq(LintMsgType)
    BY DEF TypeOK, QueueTypes
  <2>2. lintQ' = lintQ \o added
    BY <1>1
  <2>3. QED
    BY <2>1, <2>2, Longer
<1>3. RelintComing' = RelintComing
  BY DEF RelintComing
<1>4. ASSUME version'[e] = version[e], UnderWay(e) PROVE UnderWay(e)'
  <2>1. Requested(e) => Requested(e)'
    BY <1>2, <1>4 DEF Requested, IsLive
  <2>2. Analyzed(e) => Analyzed(e)'
    BY <1>4 DEF Analyzed
  <2>3. Answered(e) => Answered(e)'
    BY <1>4 DEF Answered, Reports
  <2>4. LivePending(e) => LivePending(e)'
    BY <1>4 DEF LivePending
  <2>5. QED
    BY <1>4, <2>1, <2>2, <2>3, <2>4 DEF UnderWay
<1>5. ASSUME \E i \in 1 .. Len(added) : IsLive(added[i], e)' PROVE UnderWay(e)'
  BY <1>2, <1>5 DEF UnderWay, Requested, IsLive
<1>6. CASE /\ e \in OpenDocs /\ version'[e] = version[e] /\ buffer'[e] = buffer[e]
           /\ held'[e] = held[e] /\ (parked[e] # {} => parked'[e] # {})
           /\ e \in toPull => e \in toPull' \/ (parked'[e] # {} /\ Requested(e)')
  <2>1. UpToDate(held[e], e) => UpToDate(held[e], e)'
    BY <1>6 DEF UpToDate
  <2>2. QED
    BY <1>3, <1>4, <1>6, <2>1 DEF Covered, UnderWay
<1>7. CASE /\ ~(e \in OpenDocs /\ version'[e] = version[e] /\ buffer'[e] = buffer[e])
           /\ PullMode => e \in toPull'
  BY <1>1, <1>5, <1>7 DEF Covered
<1>8. QED
  BY <1>6, <1>7

LEMMA EditCurrent ==
  ASSUME Ordinary, Versions, TypeOK', Calm, Fresh, \A e \in OpenDocs : Covered(e), NEW d \in Docs,
         DidOpen(d) \/ \E text \in Texts : DidChange(d, text)
  PROVE  Fresh' /\ \A e \in OpenDocs' : Covered(e)'
<1> USE DEF Versions
<1>1. UNCHANGED <<findings, parked, held, outQ, db, pool, pending, installed, config>>
  BY DEF DidOpen, DidChange, lintVars
<1>2. /\ version'[d] > lastVersion[d]
      /\ \A e \in Docs \ {d} : version'[e] = version[e] /\ buffer'[e] = buffer[e]
  BY DEF Ordinary, DidOpen, DidChange, TypeOK, MainTypes, VersionsNameTexts, Opened
<1>3. toPull' = IF PullMode THEN toPull \cup {d} ELSE toPull
  BY DEF DidOpen, DidChange, ClientReads
<1>4. Sends
  BY MainSideSends DEF Client
<1>5. StaleIsFollowed' /\ ProperFindings' /\ Untouched'
  BY <1>1, MovesFresh
<1>6. ~IsWarm(d)'
  <2>1. findings[d] # None => findings[d].version \in Nat /\ findings[d].version <= lastVersion[d]
    BY DEF VersionsNameTexts, Cached, Stated, TypeOK, MainTypes, FindingType
  <2>2. version'[d] \in Nat /\ lastVersion[d] \in Nat
    BY DEF TypeOK, MainTypes
  <2>3. QED
    BY <1>1, <1>2, <2>1, <2>2 DEF IsWarm
<1>7. \A e \in Docs \ {d} : (IsWarm(e)' <=> IsWarm(e)) /\ (e \in OpenDocs' => e \in OpenDocs)
  BY <1>1, <1>2 DEF IsWarm, OpenDocs, IsOpen
<1>8. WarmIsFresh'
  BY <1>1, <1>6, <1>7 DEF Fresh, WarmIsFresh, RelintComing, OpenDocs, IsWarm
<1>9. ParkedIsHeld'
  BY <1>1, <1>3, <1>6, <1>7 DEF Fresh, ParkedIsHeld, PreviousId, ResultId, IsWarm
<1>10. ASSUME NEW e \in OpenDocs' PROVE Covered(e)'
  <2>1. CASE e = d
    <3>1. ~(d \in OpenDocs /\ version'[d] = version[d])
      BY <1>2 DEF OpenDocs, VersionsNameTexts, Opened, TypeOK, MainTypes
    <3>2. QED
      BY <1>1, <1>3, <1>4, <2>1, <3>1, SendsCover
  <2>2. CASE e # d
    <3>1. e \in OpenDocs /\ version'[e] = version[e] /\ buffer'[e] = buffer[e]
      BY <1>2, <1>7, <2>2 DEF OpenDocs
    <3>2. QED
      BY <1>1, <1>3, <1>4, <3>1, SendsCover
  <2>3. QED
    BY <2>1, <2>2
<1>11. QED
  BY <1>5, <1>8, <1>9, <1>10 DEF Fresh

LEMMA CloseCurrent ==
  ASSUME Ordinary, Versions, TypeOK', Calm, Fresh, \A e \in OpenDocs : Covered(e), NEW d \in Docs, DidClose(d)
  PROVE  Fresh' /\ \A e \in OpenDocs' : Covered(e)'
<1> USE DEF Versions
<1>1. UNCHANGED <<buffer, outQ, db, pool, pending, installed, config>>
  BY DEF DidClose, lintVars, envVars
<1>2. /\ version' = [version EXCEPT ![d] = 0] /\ findings' = [findings EXCEPT ![d] = None]
      /\ parked' = [parked EXCEPT ![d] = {}] /\ held' = [held EXCEPT ![d] = None]
      /\ toPull' = toPull \ {d}
  BY DEF DidClose
<1>3. /\ version'[d] = 0 /\ findings'[d] = None /\ parked'[d] = {} /\ held'[d] = None
      /\ \A e \in Docs \ {d} : /\ version'[e] = version[e] /\ findings'[e] = findings[e]
                              /\ parked'[e] = parked[e] /\ held'[e] = held[e]
  BY <1>2 DEF TypeOK, MainTypes, ClientTypes
<1>4. Sends
  BY MainSideSends DEF Client
<1>5. StaleIsFollowed' /\ ProperFindings' /\ Untouched'
  <2>1. \A e \in Docs : findings'[e] \in {None, findings[e]} /\ held'[e] \in {None, held[e], findings[e]}
    BY <1>3
  <2>2. QED
    BY <1>1, <2>1, MovesFresh
<1>6. ~IsWarm(d)' /\ d \notin OpenDocs' /\ OpenDocs \subseteq Docs
  BY <1>3 DEF IsWarm, OpenDocs, IsOpen
<1>7. \A e \in Docs \ {d} : /\ IsWarm(e)' <=> IsWarm(e)
                           /\ PreviousId(e)' = PreviousId(e)
  BY <1>3 DEF IsWarm, PreviousId, ResultId
<1>8. OpenDocs' = OpenDocs \ {d}
  BY <1>3, <1>6 DEF OpenDocs, IsOpen
<1>9. WarmIsFresh'
  <2>1. ASSUME PullMode, NEW e \in OpenDocs', IsWarm(e)'
        PROVE  Facts(findings'[e].view) = Facts(db') \/ RelintComing'
    <3>1. e \in OpenDocs /\ e # d /\ e \in Docs /\ IsWarm(e)
      BY <1>6, <1>7, <1>8, <2>1
    <3>2. QED
      BY <1>1, <1>3, <2>1, <3>1 DEF Fresh, WarmIsFresh, RelintComing
  <2>2. QED
    BY <2>1 DEF WarmIsFresh
<1>10. ParkedIsHeld'
  <2>1. ASSUME NEW e \in Docs
        PROVE  parked'[e] \subseteq {PreviousId(e)'} /\ (parked'[e] # {} => ~IsWarm(e)')
    <3>1. CASE e = d
      BY <1>3, <3>1
    <3>2. CASE e # d
      BY <1>3, <1>7, <3>2 DEF Fresh, ParkedIsHeld
    <3>3. QED
      BY <3>1, <3>2
  <2>2. QED
    BY <1>2, <2>1 DEF Fresh, ParkedIsHeld
<1>11. ASSUME NEW e \in OpenDocs' PROVE Covered(e)'
  <2>1. e # d /\ e \in Docs /\ e \in OpenDocs
    BY <1>6, <1>8
  <2>2. QED
    BY <1>1, <1>2, <1>3, <1>4, <2>1, SendsCover
<1>12. QED
  BY <1>5, <1>9, <1>10, <1>11 DEF Fresh

LEMMA ColdCurrent ==
  ASSUME Ordinary, Versions, TypeOK', Calm, Fresh, \A e \in OpenDocs : Covered(e), NEW d \in Docs, PullCold(d)
  PROVE  Fresh' /\ \A e \in OpenDocs' : Covered(e)'
<1> USE DEF Versions
<1>1. UNCHANGED <<version, buffer, findings, held, outQ, db, pool, pending, installed, config>>
  BY DEF PullCold, lintVars, envVars
<1>2. /\ toPull' = toPull \ {d} /\ ~IsWarm(d)
      /\ parked' = [parked EXCEPT ![d] = @ \cup {PreviousId(d)}]
  BY DEF PullCold
<1>3. /\ parked'[d] = parked[d] \cup {PreviousId(d)}
      /\ \A e \in Docs \ {d} : parked'[e] = parked[e]
  BY <1>2 DEF TypeOK, MainTypes
<1>4. Sends
  BY MainSideSends DEF Pull
<1>5. StaleIsFollowed' /\ ProperFindings' /\ Untouched'
  BY <1>1, MovesFresh
<1>6. OpenDocs' = OpenDocs /\ \A e \in Docs : (IsWarm(e)' <=> IsWarm(e)) /\ PreviousId(e)' = PreviousId(e)
  BY <1>1 DEF IsWarm, OpenDocs, IsOpen, PreviousId, ResultId
<1>7. WarmIsFresh'
  BY <1>1, <1>6 DEF Fresh, WarmIsFresh, RelintComing, OpenDocs, IsWarm
<1>8. ParkedIsHeld'
  BY <1>2, <1>3, <1>6 DEF Fresh, ParkedIsHeld
<1>9. Requested(d)'
  <2>1. lintQ' = Append(lintQ, Request(d, version[d], buffer[d], config))
    BY DEF PullCold
  <2>2. Len(lintQ) + 1 \in 1 .. Len(lintQ') /\ lintQ'[Len(lintQ) + 1] = Request(d, version[d], buffer[d], config)
    BY <2>1 DEF TypeOK, QueueTypes
  <2>3. QED
    BY <1>1, <2>2 DEF Requested, IsLive, Request
<1>10. ASSUME NEW e \in OpenDocs' PROVE Covered(e)'
  <2>1. e \in OpenDocs /\ e \in Docs
    BY <1>6 DEF OpenDocs
  <2>2. (parked[e] # {} => parked'[e] # {}) /\ (e \in toPull => e \in toPull' \/ (parked'[e] # {} /\ Requested(e)'))
    BY <1>2, <1>3, <1>9, <2>1
  <2>3. QED
    BY <1>1, <1>4, <2>1, <2>2, SendsCover
<1>11. QED
  BY <1>5, <1>7, <1>8, <1>10 DEF Fresh

LEMMA EnvironmentCurrent ==
  ASSUME Ordinary, Versions, TypeOK', Calm, Fresh, \A e \in OpenDocs : Covered(e),
         \/ \E d \in Docs, text \in Texts, kind \in EventKinds : DiskWrite(d, text, kind)
         \/ ExternalIndex
  PROVE  Fresh' /\ \A e \in OpenDocs' : Covered(e)'
<1> USE DEF Versions
<1>1. UNCHANGED <<version, buffer, findings, held, parked, toPull, outQ, db, pool, pending, installed, config>>
  BY DEF DiskWrite, ExternalIndex, mainVars, clientVars, lintVars
<1>2. Sends
  BY MainSideSends DEF Client
<1>3. StaleIsFollowed' /\ ProperFindings' /\ Untouched'
  BY <1>1, MovesFresh
<1>4. OpenDocs' = OpenDocs /\ \A e \in Docs : (IsWarm(e)' <=> IsWarm(e)) /\ PreviousId(e)' = PreviousId(e)
  BY <1>1 DEF IsWarm, OpenDocs, IsOpen, PreviousId, ResultId
<1>5. WarmIsFresh'
  BY <1>1, <1>4 DEF Fresh, WarmIsFresh, RelintComing, OpenDocs, IsWarm
<1>6. ParkedIsHeld'
  BY <1>1, <1>4 DEF Fresh, ParkedIsHeld
<1>7. \A e \in OpenDocs' : Covered(e)'
  BY <1>1, <1>2, <1>4, SendsCover
<1>8. QED
  BY <1>3, <1>5, <1>6, <1>7 DEF Fresh

LEMMA WarmCurrent ==
  ASSUME OneReport, Versions, OneConfig, Fresh, \A e \in OpenDocs : Covered(e), NEW d \in Docs, PullWarm(d)
  PROVE  Fresh' /\ \A e \in OpenDocs' : Covered(e)'
<1> USE DEF Versions
<1>1. UNCHANGED <<mainVars, lintQ, outQ, db, pool, pending, installed, config>>
  BY DEF PullWarm, lintVars, envVars
<1>2. /\ d \in toPull /\ IsWarm(d) /\ toPull' = toPull \ {d}
      /\ held' = IF PreviousId(d) = ResultId(d, findings[d]) THEN held ELSE [held EXCEPT ![d] = findings[d]]
  BY DEF PullWarm
<1>3. PullMode /\ d \in OpenDocs
  BY <1>2 DEF Fresh, ParkedIsHeld, VersionsNameTexts, Opened
<1>4. /\ findings[d] \in FindingType /\ findings[d] # None /\ findings[d].text = buffer[d]
      /\ Proper(d, findings[d]) /\ (held[d] # None => Proper(d, held[d]))
  BY <1>2, <1>3 DEF IsWarm, TypeOK, MainTypes, VersionsNameTexts, Cached, Stated, Opened, OpenDocs, Fresh,
     ProperFindings
<1>5. /\ held'[d] \in {held[d], findings[d]} /\ \A e \in Docs \ {d} : held'[e] = held[e]
      /\ PreviousId(d) # ResultId(d, findings[d]) => held'[d] = findings[d]
      /\ PreviousId(d) = ResultId(d, findings[d]) => held'[d] = held[d]
  BY <1>2 DEF TypeOK, ClientTypes
<1>6. StaleIsFollowed' /\ ProperFindings' /\ Untouched'
  <2>1. UNCHANGED <<findings, db, pool, installed, outQ>>
    BY <1>1 DEF mainVars
  <2>2. \A e \in Docs : findings'[e] \in {None, findings[e]} /\ held'[e] \in {None, held[e], findings[e]}
    BY <1>5, <2>1
  <2>3. QED
    BY <2>1, <2>2, MovesFresh
<1>7. /\ OpenDocs' = OpenDocs /\ OpenDocs \subseteq Docs
      /\ \A e \in Docs : IsWarm(e)' <=> IsWarm(e)
  BY <1>1 DEF OpenDocs, IsOpen, IsWarm, mainVars
<1>8. RelintComing' = RelintComing /\ \A e \in OpenDocs : UnderWay(e)' = UnderWay(e)
  BY <1>1 DEF RelintComing, UnderWay, Requested, IsLive, LivePending, Analyzed, Answered, Reports, mainVars
<1>9. WarmIsFresh'
  <2>1. ASSUME NEW e \in OpenDocs', IsWarm(e)' PROVE Facts(findings'[e].view) = Facts(db') \/ RelintComing'
    BY <1>1, <1>3, <1>7, <1>8, <2>1 DEF Fresh, WarmIsFresh, mainVars
  <2>2. QED
    BY <2>1 DEF WarmIsFresh
<1>10. ParkedIsHeld'
  <2>1. ASSUME NEW e \in Docs PROVE parked'[e] \subseteq {PreviousId(e)'} /\ (parked'[e] # {} => ~IsWarm(e)')
    <3>1. CASE e = d
      BY <1>1, <1>2, <3>1 DEF Fresh, ParkedIsHeld, mainVars
    <3>2. CASE e # d
      <4>1. PreviousId(e)' = PreviousId(e)
        BY <1>5, <3>2 DEF PreviousId, ResultId
      <4>2. QED
        BY <1>1, <1>7, <4>1 DEF Fresh, ParkedIsHeld, mainVars
    <3>3. QED
      BY <3>1, <3>2
  <2>2. QED
    BY <1>3, <2>1 DEF ParkedIsHeld
<1>11. RelintComing \/ UpToDate(held'[d], d)
  <2>1. ASSUME ~RelintComing PROVE UpToDate(findings[d], d)
    BY <1>2, <1>3, <1>4, <2>1 DEF Fresh, WarmIsFresh, UpToDate, Proper, OneConfig
  <2>2. PreviousId(d) = ResultId(d, findings[d]) /\ UpToDate(findings[d], d) => UpToDate(held[d], d)
    BY <1>3, <1>4, SameIdSameReport
  <2>3. QED
    BY <1>5, <2>1, <2>2
<1>12. ASSUME NEW e \in OpenDocs' PROVE Covered(e)'
  <2>1. CASE e = d
    <3>1. UpToDate(held'[d], d) => UpToDate(held[d], d)'
      BY <1>1 DEF UpToDate, mainVars
    <3>2. RelintComing' \/ UpToDate(held[d], d)'
      BY <1>8, <1>11, <3>1
    <3>3. QED
      BY <2>1, <3>2 DEF Covered
  <2>2. CASE e # d
    <3>1. e \in OpenDocs /\ held'[e] = held[e] /\ parked' = parked /\ (e \in toPull => e \in toPull')
      BY <1>1, <1>2, <1>5, <1>7, <2>2 DEF mainVars
    <3>2. UpToDate(held[e], e) => UpToDate(held[e], e)'
      BY <1>1, <3>1 DEF UpToDate, mainVars
    <3>3. QED
      BY <1>8, <3>1, <3>2 DEF Covered
  <2>3. QED
    BY <2>1, <2>2
<1>13. QED
  BY <1>6, <1>9, <1>10, <1>12 DEF Fresh

\* The main loop takes one message off its queue.
LEMMA TakenFromOut ==
  ASSUME TypeOK, outQ # <<>>, outQ' = Tail(outQ), UNCHANGED version
  PROVE  /\ Head(outQ).type # "relintAll" /\ RelintComing => RelintComing'
         /\ Reports(Head(outQ)) => \/ Facts(Head(outQ).found.view) = Facts(db)
                                   \/ ~StaleIsFollowed \/ RelintComing'
         /\ \A d : Answered(d) => \/ Answered(d)'
                                  \/ Head(outQ).uri = d /\ Head(outQ).found.version = version[d]
<1>1. outQ \in Seq(OutboundType)
  BY DEF TypeOK, QueueTypes
<1>2. /\ 1 \in 1 .. Len(outQ) /\ Head(outQ) = outQ[1]
      /\ \A i \in 1 .. Len(outQ) : i = 1 \/ (i - 1 \in 1 .. Len(outQ') /\ outQ'[i - 1] = outQ[i])
  BY <1>1, Shorter
<1>3. Head(outQ).type # "relintAll" /\ RelintComing => RelintComing'
  BY <1>2 DEF RelintComing
<1>4. \A d : Answered(d) => Answered(d)' \/ (Head(outQ).uri = d /\ Head(outQ).found.version = version[d])
  BY <1>2 DEF Answered, Reports
<1>5. ASSUME NEW j \in 1 + 1 .. Len(outQ), outQ[j].type = "relintAll" PROVE RelintComing'
  <2>1. j \in 1 .. Len(outQ) /\ j # 1
    BY <1>1
  <2>2. QED
    BY <1>2, <1>5, <2>1 DEF RelintComing
<1>6. Reports(Head(outQ)) /\ StaleIsFollowed => Facts(Head(outQ).found.view) = Facts(db) \/ RelintComing'
  BY <1>2, <1>5 DEF StaleIsFollowed
<1>7. QED
  BY <1>3, <1>4, <1>6

LEMMA DropCurrent ==
  ASSUME Versions, Fresh, \A e \in OpenDocs : Covered(e), DropDiagnostics
  PROVE  Fresh' /\ \A e \in OpenDocs' : Covered(e)'
<1> USE DEF Versions
<1>1. /\ UNCHANGED <<mainVars, clientVars, lintQ, db, pool, pending, installed, config>>
      /\ outQ # <<>> /\ outQ' = Tail(outQ) /\ Reports(Head(outQ)) /\ Head(outQ).type # "relintAll"
      /\ version[Head(outQ).uri] # Head(outQ).found.version
  BY DEF DropDiagnostics, lintVars, envVars, Head1, Reports
<1>2. UNCHANGED <<version, buffer, findings, parked, held, toPull>>
  BY <1>1 DEF mainVars, clientVars
<1>3. StaleIsFollowed' /\ ProperFindings' /\ Untouched'
  BY <1>1, <1>2, MovesFresh
<1>4. /\ OpenDocs' = OpenDocs /\ OpenDocs \subseteq Docs
      /\ \A e \in Docs : (IsWarm(e)' <=> IsWarm(e)) /\ PreviousId(e)' = PreviousId(e)
  BY <1>2 DEF OpenDocs, IsOpen, IsWarm, PreviousId, ResultId
<1>5. RelintComing => RelintComing'
  BY <1>1, <1>2, TakenFromOut
<1>6. ASSUME NEW e \in OpenDocs, UnderWay(e) PROVE UnderWay(e)'
  <2>1. Answered(e) => Answered(e)'
    BY <1>1, <1>2, TakenFromOut
  <2>2. QED
    BY <1>1, <1>2, <1>6, <2>1 DEF UnderWay, Requested, IsLive, LivePending, Analyzed
<1>7. WarmIsFresh'
  <2>1. ASSUME PullMode, NEW e \in OpenDocs', IsWarm(e)'
        PROVE  Facts(findings'[e].view) = Facts(db') \/ RelintComing'
    BY <1>1, <1>2, <1>4, <1>5, <2>1 DEF Fresh, WarmIsFresh
  <2>2. QED
    BY <2>1 DEF WarmIsFresh
<1>8. ParkedIsHeld'
  BY <1>2, <1>4 DEF Fresh, ParkedIsHeld
<1>9. ASSUME NEW e \in OpenDocs' PROVE Covered(e)'
  <2>1. UpToDate(held[e], e) => UpToDate(held[e], e)'
    BY <1>1, <1>2 DEF UpToDate
  <2>2. QED
    BY <1>2, <1>4, <1>5, <1>6, <2>1 DEF Covered
<1>10. QED
  BY <1>3, <1>7, <1>8, <1>9 DEF Fresh

LEMMA AcceptCurrent ==
  ASSUME OneReport, Versions, OneConfig, Fresh, \A e \in OpenDocs : Covered(e), AcceptDiagnostics
  PROVE  Fresh' /\ \A e \in OpenDocs' : Covered(e)'
<1> USE DEF Versions
<1> DEFINE d == Head(outQ).uri
           f == Head(outQ).found
           full == IF PullMode THEN \E previous \in parked[d] : previous # ResultId(d, f) ELSE TRUE
<1>1. /\ UNCHANGED <<version, buffer, toPull, lintQ, db, pool, pending, installed, config>>
      /\ outQ # <<>> /\ outQ' = Tail(outQ) /\ Reports(Head(outQ)) /\ Head(outQ).type # "relintAll"
      /\ version[d] = f.version
  BY DEF AcceptDiagnostics, lintVars, envVars, Head1, Reports
<1>2. /\ findings' = [findings EXCEPT ![d] = f] /\ parked' = [parked EXCEPT ![d] = {}]
      /\ held' = IF full THEN [held EXCEPT ![d] = f] ELSE held
  BY DEF AcceptDiagnostics
<1>3. 1 \in 1 .. Len(outQ) /\ Head(outQ) = outQ[1] /\ Head(outQ) \in OutboundType
  BY <1>1 DEF TypeOK, QueueTypes
<1>4. d \in Docs /\ f \in FindingType
  BY <1>1, <1>3 DEF OutboundType, Reports
<1>5. Stated(lastVersion[d], buffer[d], f.version, f.text)
  BY <1>1, <1>3 DEF VersionsNameTexts, Sent, Reports
<1>6. /\ d \in OpenDocs /\ f.text = buffer[d] /\ Proper(d, f) /\ (held[d] # None => Proper(d, held[d]))
      /\ f # None
  <2>1. IsOpen(d)
    BY <1>1, <1>4, <1>5 DEF IsOpen, Stated, TypeOK, MainTypes
  <2>2. Proper(d, f) /\ (held[d] # None => Proper(d, held[d]))
    BY <1>1, <1>3, <1>4 DEF Fresh, ProperFindings
  <2>3. QED
    BY <1>1, <1>4, <1>5, <2>1, <2>2, NoneAssumption DEF OpenDocs, Stated, VersionsNameTexts, Opened
<1> HIDE DEF d, f
<1>7. /\ findings'[d] = f /\ parked'[d] = {} /\ held'[d] = IF full THEN f ELSE held[d]
      /\ \A e \in Docs \ {d} : findings'[e] = findings[e] /\ parked'[e] = parked[e] /\ held'[e] = held[e]
  BY <1>2, <1>4 DEF TypeOK, MainTypes, ClientTypes
<1> HIDE DEF full
<1>8. StaleIsFollowed' /\ ProperFindings' /\ Untouched'
  <2>1. ASSUME NEW e \in Docs
        PROVE  \/ findings'[e] \in {None, findings[e]} /\ held'[e] \in {None, held[e], findings[e]}
               \/ /\ outQ # <<>> /\ Reports(Head(outQ)) /\ Head(outQ).uri = e
                  /\ findings'[e] = Head(outQ).found /\ held'[e] \in {held[e], Head(outQ).found}
    BY <1>1, <1>7 DEF d, f
  <2>2. QED
    BY <1>1, <2>1, MovesFresh
<1>9. Facts(f.view) = Facts(db) \/ RelintComing'
  BY <1>1, TakenFromOut DEF Fresh, f
<1>10. RelintComing => RelintComing'
  BY <1>1, TakenFromOut
<1>11. /\ OpenDocs' = OpenDocs /\ OpenDocs \subseteq Docs
       /\ \A e \in Docs \ {d} : (IsWarm(e)' <=> IsWarm(e)) /\ PreviousId(e)' = PreviousId(e)
  BY <1>1, <1>7 DEF OpenDocs, IsOpen, IsWarm, PreviousId, ResultId
<1>12. ASSUME NEW e \in OpenDocs, e # d, UnderWay(e) PROVE UnderWay(e)'
  <2>1. Answered(e) => Answered(e)'
    BY <1>1, <1>12, TakenFromOut DEF d
  <2>2. QED
    BY <1>1, <1>12, <2>1 DEF UnderWay, Requested, IsLive, LivePending, Analyzed
<1>13. WarmIsFresh'
  <2>1. ASSUME PullMode, NEW e \in OpenDocs', IsWarm(e)'
        PROVE  Facts(findings'[e].view) = Facts(db') \/ RelintComing'
    <3>1. CASE e = d
      BY <1>1, <1>7, <1>9, <3>1
    <3>2. CASE e # d
      BY <1>1, <1>7, <1>10, <1>11, <2>1, <3>2 DEF Fresh, WarmIsFresh
    <3>3. QED
      BY <3>1, <3>2
  <2>2. QED
    BY <2>1 DEF WarmIsFresh
<1>14. ParkedIsHeld'
  <2>1. ASSUME NEW e \in Docs PROVE parked'[e] \subseteq {PreviousId(e)'} /\ (parked'[e] # {} => ~IsWarm(e)')
    <3>1. CASE e = d
      BY <1>7, <3>1
    <3>2. CASE e # d
      BY <1>7, <1>11, <3>2 DEF Fresh, ParkedIsHeld
    <3>3. QED
      BY <3>1, <3>2
  <2>2. QED
    BY <1>1, <2>1 DEF Fresh, ParkedIsHeld
<1>15. RelintComing' \/ d \in toPull \/ UpToDate(held'[d], d)
  <2> SUFFICES ASSUME ~RelintComing', d \notin toPull PROVE UpToDate(held'[d], d)
    OBVIOUS
  <2>1. UpToDate(f, d)
    BY <1>6, <1>9 DEF UpToDate, Proper, OneConfig
  <2>2. CASE full
    BY <1>7, <2>1, <2>2
  <2>3. CASE ~full
    <3>1. PullMode /\ \A previous \in parked[d] : previous = ResultId(d, f)
      BY <2>3 DEF full
    <3>2. CASE parked[d] # {}
      <4>1. PreviousId(d) = ResultId(d, f)
        BY <1>4, <3>1, <3>2 DEF Fresh, ParkedIsHeld
      <4>2. UpToDate(held[d], d)
        BY <1>4, <1>6, <2>1, <3>1, <4>1, SameIdSameReport
      <4>3. QED
        BY <1>7, <2>3, <4>2
    <3>3. CASE parked[d] = {}
      BY <1>6, <1>7, <1>10, <2>3, <3>1, <3>3 DEF Covered
    <3>4. QED
      BY <3>2, <3>3
  <2>4. QED
    BY <2>2, <2>3
<1>16. ASSUME NEW e \in OpenDocs' PROVE Covered(e)'
  <2>1. CASE e = d
    <3>1. RelintComing' \/ e \in toPull' \/ UpToDate(held'[d], d)
      BY <1>1, <1>15, <2>1
    <3>2. UpToDate(held'[d], d) => UpToDate(held[e], e)'
      BY <1>1, <2>1 DEF UpToDate
    <3>3. QED
      BY <3>1, <3>2 DEF Covered
  <2>2. CASE e # d
    <3>1. e \in OpenDocs /\ held'[e] = held[e] /\ parked'[e] = parked[e]
      BY <1>7, <1>11, <2>2
    <3>2. UpToDate(held[e], e) => UpToDate(held[e], e)'
      BY <1>1, <3>1 DEF UpToDate
    <3>3. QED
      BY <1>1, <1>10, <1>12, <2>2, <3>1, <3>2 DEF Covered
  <2>3. QED
    BY <2>1, <2>2
<1>17. QED
  BY <1>8, <1>13, <1>14, <1>16 DEF Fresh

LEMMA RelintCurrent ==
  ASSUME Versions, Fresh, OnRelintAll
  PROVE  Fresh' /\ \A e \in OpenDocs' : Covered(e)'
<1> USE DEF Versions
<1>1. /\ UNCHANGED <<version, buffer, parked, held, db, pool, pending, installed, config>>
      /\ outQ # <<>> /\ outQ' = Tail(outQ) /\ RequestRelintAll(config) /\ config \in Nat
  BY DEF OnRelintAll, lintVars, envVars, Head1, TypeOK, EnvTypes
<1>2. \A e \in Docs : findings'[e] \in {None, findings[e]}
  BY <1>1 DEF RequestRelintAll, TypeOK, MainTypes
<1>3. StaleIsFollowed' /\ ProperFindings' /\ Untouched'
  BY <1>1, <1>2, MovesFresh
<1>4. /\ OpenDocs' = OpenDocs /\ OpenDocs \subseteq Docs
      /\ \A e \in Docs : (IsWarm(e)' => IsWarm(e)) /\ PreviousId(e)' = PreviousId(e)
  BY <1>1, <1>2 DEF OpenDocs, IsOpen, IsWarm, PreviousId, ResultId
<1>5. PullMode => /\ \A e \in OpenDocs : findings'[e] = None
                  /\ toPull' = toPull \cup OpenDocs
  BY <1>1 DEF RequestRelintAll, OpenDocs
<1>6. ~PullMode => UNCHANGED toPull
  BY <1>1 DEF RequestRelintAll
<1>7. WarmIsFresh'
  <2>1. ASSUME PullMode, NEW e \in OpenDocs' PROVE ~IsWarm(e)'
    BY <1>4, <1>5, <2>1 DEF IsWarm
  <2>2. QED
    BY <2>1 DEF WarmIsFresh
<1>8. ParkedIsHeld'
  BY <1>1, <1>4, <1>6 DEF Fresh, ParkedIsHeld
<1>9. ASSUME NEW e \in OpenDocs', ~PullMode PROVE Requested(e)'
  <2>1. PICK added \in Seq(LintMsgType) :
          /\ lintQ' = lintQ \o added
          /\ \A d \in OpenDocs : \E i \in 1 .. Len(added) :
               added[i] = Request(d, version[d], buffer[d], config)
    BY <1>1, <1>9, RelintAllAsks
  <2>2. PICK i \in 1 .. Len(added) : added[i] = Request(e, version[e], buffer[e], config)
    BY <1>4, <2>1
  <2>3. Len(lintQ) + i \in 1 .. Len(lintQ') /\ lintQ'[Len(lintQ) + i] = added[i]
    <3>1. lintQ \in Seq(LintMsgType) /\ lintQ' = lintQ \o added
      BY <2>1 DEF TypeOK, QueueTypes
    <3>2. QED
      BY <3>1, Longer
  <2>4. QED
    BY <1>1, <2>2, <2>3 DEF Requested, IsLive, Request
<1>10. ASSUME NEW e \in OpenDocs' PROVE Covered(e)'
  BY <1>4, <1>5, <1>9 DEF Covered, UnderWay
<1>11. QED
  BY <1>3, <1>7, <1>8, <1>10 DEF Fresh

LEMMA OneConfigStep ==
  ASSUME Versions, TypeOK', OneConfig, [Next]_vars
  PROVE  OneConfig'
<1> USE DEF Versions
<1>1. lintQ \in Seq(LintMsgType) /\ \A d, v, t : Request(d, v, t, config).config = 0
  BY DEF OneConfig, Request, TypeOK, QueueTypes
<1>2. ASSUME NEW added \in Seq(LintMsgType), lintQ' = lintQ \o added,
             \A i \in 1 .. Len(added) : added[i].type = "request" => added[i].config = 0
      PROVE  \A i \in 1 .. Len(lintQ') : lintQ'[i].type = "request" => lintQ'[i].config = 0
  <2>1. /\ \A i \in 1 .. Len(lintQ) : lintQ'[i] = lintQ[i]
        /\ \A i \in 1 .. Len(added) : lintQ'[Len(lintQ) + i] = added[i]
        /\ \A i \in 1 .. Len(lintQ') : i \in 1 .. Len(lintQ) \/ \E k \in 1 .. Len(added) : i = Len(lintQ) + k
    BY <1>1, <1>2, Longer
  <2>2. QED
    BY <1>2, <2>1 DEF OneConfig
<1>3. ASSUME NEW m \in LintMsgType, m.type = "request" => m.config = 0,
             lintQ' = Append(lintQ, m) \/ lintQ' = lintQ \o <<m>>
      PROVE  \A i \in 1 .. Len(lintQ') : lintQ'[i].type = "request" => lintQ'[i].config = 0
  <2> DEFINE added == <<m>>
  <2>1. lintQ' = lintQ \o added /\ added \in Seq(LintMsgType)
    BY <1>1, <1>3
  <2>2. \A i \in 1 .. Len(added) : added[i].type = "request" => added[i].config = 0
    BY <1>3
  <2> HIDE DEF added
  <2>3. QED
    BY <1>2, <2>1, <2>2
<1>4. ASSUME UNCHANGED lintQ PROVE \A i \in 1 .. Len(lintQ') : lintQ'[i].type = "request" => lintQ'[i].config = 0
  BY <1>4 DEF OneConfig
<1>5. ~ConfigChange
  BY DEF ConfigChange, Spend, OneConfig
<1>6. ASSUME NEW bound, Spend(bound) PROVE budget'.configs = 0
  BY <1>6 DEF Spend, OneConfig, TypeOK, EnvTypes, BudgetType
<1>7. ASSUME Client \/ Pull \/ MainLoop PROVE OneConfig'
  <2>1. UNCHANGED <<config, pending>>
    BY <1>5, <1>7 DEF Client, Pull, MainLoop, DidOpen, DidClose, DidChange, DiskWrite, AddFolder,
       ExternalIndex, PullWarm, PullCold, DropDiagnostics, AcceptDiagnostics, OnRelintAll, lintVars, envVars
  <2>2. budget'.configs = 0
    <3>1. ASSUME NEW d \in Docs, DidOpen(d) PROVE budget'.configs = 0
      BY <3>1 DEF DidOpen, OneConfig, TypeOK, EnvTypes, BudgetType
    <3>2. UNCHANGED budget => budget'.configs = 0
      BY DEF OneConfig
    <3>3. QED
      BY <1>5, <1>6, <1>7, <3>1, <3>2 DEF Client, Pull, MainLoop, DidClose, DidChange, DiskWrite,
         AddFolder, ExternalIndex, PullWarm, PullCold, DropDiagnostics, AcceptDiagnostics,
         OnRelintAll, envVars
  <2> DEFINE OneConfigQueued == \A i \in 1 .. Len(lintQ') : lintQ'[i].type = "request" => lintQ'[i].config = 0
  <2>3. ASSUME NEW d \in Docs, DidOpen(d) \/ (\E text \in Texts : DidChange(d, text)) \/ PullCold(d)
        PROVE  OneConfigQueued
    <3>1. PICK v, t : lintQ' = Append(lintQ, Request(d, v, t, config)) /\ v \in Nat /\ t \in Texts
      BY <2>3 DEF DidOpen, DidChange, PullCold, TypeOK, MainTypes
    <3>2. Request(d, v, t, config) \in LintMsgType
      BY <3>1, RequestsAreTyped DEF TypeOK, EnvTypes, LintMsgType
    <3>3. QED
      BY <1>1, <1>3, <3>1, <3>2
  <2>4. ASSUME NEW m \in LintMsgType, NEW condition, m.type # "request", lintQ' = lintQ \o OneIf(condition, m)
        PROVE  OneConfigQueued
    <3>1. lintQ' = lintQ \o <<m>> \/ UNCHANGED lintQ
      BY <1>1, <2>4 DEF OneIf
    <3>2. QED
      BY <1>3, <1>4, <2>4, <3>1
  <2>5. ASSUME NEW d \in Docs, DidClose(d) PROVE OneConfigQueued
    <3> DEFINE m == [type |-> "closeDescription", uri |-> d]
    <3>1. m \in LintMsgType /\ m.type # "request"
      BY DEF LintMsgType
    <3>2. lintQ' = lintQ \o OneIf(d = Desc, m)
      BY <2>5 DEF DidClose
    <3> HIDE DEF m
    <3>3. QED
      BY <2>4, <3>1, <3>2
  <2>6. ASSUME NEW d \in Docs, NEW text \in Texts, NEW kind \in EventKinds, DiskWrite(d, text, kind)
        PROVE  OneConfigQueued
    <3>1. [type |-> kind, uri |-> d] \in LintMsgType /\ kind # "request"
      BY DocsAssumption DEF LintMsgType
    <3>2. QED
      BY <2>4, <2>6, <3>1 DEF DiskWrite
  <2>7. AddFolder => OneConfigQueued
    BY <1>3 DEF AddFolder, LintMsgType
  <2>8. ASSUME OnRelintAll PROVE OneConfigQueued
    <3>1. CASE PullMode
      BY <1>4, <2>8, <3>1 DEF OnRelintAll, RequestRelintAll
    <3>2. CASE ~PullMode
      <4>1. PICK added \in Seq(LintMsgType) :
              /\ lintQ' = lintQ \o added
              /\ \A i \in 1 .. Len(added) :
                   \E d \in OpenDocs : added[i] = Request(d, version[d], buffer[d], config)
        BY <2>8, <3>2, RelintAllAsks DEF OnRelintAll, TypeOK, EnvTypes
      <4>2. \A i \in 1 .. Len(added) : added[i].config = 0
        BY <1>1, <4>1
      <4>3. lintQ' = lintQ \o added
        BY <4>1
      <4>4. QED
        BY <1>2, <4>2, <4>3
    <3>3. QED
      BY <3>1, <3>2
  <2>9. ASSUME UNCHANGED lintQ PROVE OneConfigQueued
    BY <1>4, <2>9
  <2>10. OneConfigQueued
    BY <1>5, <1>7, <2>3, <2>5, <2>6, <2>7, <2>8, <2>9 DEF Client, Pull, MainLoop, ExternalIndex, PullWarm,
       DropDiagnostics, AcceptDiagnostics
  <2>11. QED
    BY <2>1, <2>2, <2>10 DEF OneConfig
<1>8. ASSUME HandleMsg PROVE OneConfig'
  <2>1. lintQ # <<>> /\ lintQ' = Tail(lintQ) /\ UNCHANGED <<config, budget>>
    BY <1>8 DEF HandleMsg, envVars
  <2>2. /\ 1 \in 1 .. Len(lintQ) /\ Head(lintQ) = lintQ[1]
        /\ \A i \in 1 .. Len(lintQ') : i + 1 \in 1 .. Len(lintQ) /\ lintQ'[i] = lintQ[i + 1]
    BY <1>1, <2>1, Shorter
  <2>3. \A d \in Docs : pending'[d] # None => pending'[d].config = 0
    <3>1. ASSUME NEW d \in Docs
          PROVE  \/ pending'[d] = pending[d] \/ pending'[d] = None
                 \/ Head(lintQ).type = "request" /\ pending'[d] = Head(lintQ)
      BY <1>8, MessagePends
    <3>2. QED
      BY <2>2, <3>1 DEF OneConfig
  <2>4. QED
    BY <2>1, <2>2, <2>3 DEF OneConfig
<1>9. ASSUME \/ \E d \in Docs : DispatchBlocked(d) \/ DispatchSpawn(d)
             \/ DrainDone \/ DispatchWait \/ OnDone \/ InstallBuild
             \/ Finish \/ Panic \/ Harvest \/ UNCHANGED vars
      PROVE  OneConfig'
  <2>1. UNCHANGED <<config, lintQ>> /\ budget'.configs = 0
    BY <1>9, <1>6 DEF DispatchBlocked, DispatchSpawn, DrainDone, DispatchWait, OnDone, InstallBuild,
       Finish, FinishAnalyze, Panic, PanicAnalyze, Harvest, HarvestDone, vars, envVars, OneConfig
  <2>2. \A d \in Docs : pending'[d] \in {pending[d], None}
    BY <1>9 DEF DispatchBlocked, DispatchSpawn, DrainDone, DispatchWait, OnDone, InstallBuild,
       Finish, FinishAnalyze, Panic, PanicAnalyze, Harvest, HarvestDone, vars, lintVars, TypeOK, LintTypes
  <2>3. QED
    BY <2>1, <2>2 DEF OneConfig
<1>10. QED
  BY <1>7, <1>8, <1>9 DEF Next, LintThread, Rest

LEMMA CurrentInit == Ordinary /\ OneReport /\ Init => Current
<1> SUFFICES ASSUME OneReport, Init PROVE Current
  OBVIOUS
<1>1. OneConfig
  BY DEF OneReport, Init, OneConfig
<1>2. OpenDocs = {} /\ \A d \in Docs : ~IsWarm(d)
  BY DEF Init, OpenDocs, IsOpen, IsWarm
<1>3. Fresh
  BY <1>2 DEF Init, Fresh, StaleIsFollowed, WarmIsFresh, ParkedIsHeld, ProperFindings, Untouched
<1>4. QED
  BY <1>1, <1>2, <1>3 DEF Current

LEMMA CurrentStep ==
  ASSUME Ordinary, OneReport, Versions, TypeOK', SlotIsSound, Draining, Calm, BuffersWin, Current,
         [Next]_vars
  PROVE  Current'
<1>1. OneConfig'
  BY OneConfigStep DEF Current
<1>2. OneConfig /\ Fresh /\ \A e \in OpenDocs : Covered(e)
  BY DEF Current
<1>3. Wrote => Fresh' /\ \A e \in OpenDocs' : Covered(e)'
  BY <1>2, WroteFresh DEF Versions
<1>4. CASE Client
  <2>1. ~ConfigChange /\ ~AddFolder
    BY <1>2 DEF ConfigChange, AddFolder, Spend, OneConfig, Calm
  <2>2. QED
    BY <1>1, <1>2, <1>4, <2>1, EditCurrent, CloseCurrent, EnvironmentCurrent DEF Client, Current
<1>5. CASE Pull
  BY <1>1, <1>2, <1>5, WarmCurrent, ColdCurrent DEF Pull, Current
<1>6. CASE MainLoop
  BY <1>1, <1>2, <1>6, DropCurrent, AcceptCurrent, RelintCurrent DEF MainLoop, Current
<1>7. CASE HandleMsg
  BY <1>1, <1>2, <1>3, <1>7, HandleMsgWrote DEF Current
<1>8. ASSUME NEW d \in Docs, DispatchBlocked(d) \/ DispatchSpawn(d) PROVE Current'
  BY <1>1, <1>2, <1>3, <1>8, DispatchWrote DEF Current
<1>9. CASE DrainDone \/ DispatchWait \/ OnDone \/ InstallBuild \/ Finish \/ Harvest \/ UNCHANGED vars
  BY <1>1, <1>2, <1>3, <1>9, OtherStepsWrote DEF Current
<1>10. ~Panic
  BY DEF Panic, PanicAnalyze, Spend, Draining, TypeOK
<1>11. QED
  BY <1>4, <1>5, <1>6, <1>7, <1>8, <1>9, <1>10 DEF Next, LintThread, Rest

\* The promise of the server, request_relint_all and content_result_id: once everything
\* has settled, what the client shows for an open document was computed from the live
\* buffer, the settings in force, and the package facts and the library index that the
\* database holds by now.
THEOREM ShownBecomesCurrent ==
  ASSUME Ordinary, OneReport
  PROVE  Spec => []ShownIsCurrent
<1> DEFINE Inv == TypeOK /\ VersionsNameTexts /\ SlotIsSound /\ Draining /\ Calm /\ BuffersWin /\ Current
<1>1. Init => Inv
  <2>1. Init => Draining
    BY DEF Ordinary, Init, Draining, SlotIsOwed, PendingWaits
  <2>2. QED
    BY <2>1, TypeInit, VersionsInit, SlotInit, CalmInit, BuffersWinInit, CurrentInit
<1>2. Inv /\ [Next]_vars => Inv'
  <2> SUFFICES ASSUME Inv, [Next]_vars PROVE Inv'
    OBVIOUS
  <2>1. TypeOK' /\ VersionsNameTexts' /\ SlotIsSound'
    BY TypeStep, VersionsStep, SlotStep DEF Ordinary, Versions
  <2>2. Draining'
    BY DrainingMainSide, DrainingLintThread, DrainingPools DEF Next, Rest
  <2>3. Calm' /\ BuffersWin' /\ Current'
    BY <2>1, CalmStep, BuffersWinStep, CurrentStep DEF Versions
  <2>4. QED
    BY <2>1, <2>2, <2>3
<1>3. Inv => ShownIsCurrent
  <2> SUFFICES ASSUME Inv, Idle, NEW d \in OpenDocs
               PROVE  /\ held[d] # None
                      /\ held[d].text = buffer[d] /\ held[d].config = config
                      /\ held[d].view.text[Desc] = db.text[Desc]
                      /\ held[d].view.markdown = db.markdown
                      /\ held[d].view.index = db.index
    BY DEF ShownIsCurrent
  <2>1. lintQ = <<>> /\ outQ = <<>> /\ pool = {} /\ toPull = {} /\ pending[d] = None
    BY DEF Idle, Draining, SlotIsOwed, PendingWaits, OpenDocs
  <2>2. ~RelintComing /\ ~UnderWay(d)
    BY <2>1 DEF RelintComing, UnderWay, Requested, LivePending, Analyzed, Answered
  <2>3. UpToDate(held[d], d)
    BY <2>1, <2>2 DEF Current, Covered
  <2>4. QED
    BY <2>3 DEF UpToDate, Facts
<1> HIDE DEF Inv
<1>4. QED
  BY <1>1, <1>2, <1>3, PTL DEF Spec
=============================================================================
